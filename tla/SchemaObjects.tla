---------------------------- MODULE SchemaObjects ---------------------------
(***************************************************************************)
(* The objects of a database schema, as the migrations and the models both *)
(* name them: a schema is a set of tuples <<kind, table, name, ...>>. A    *)
(* constraint is named for its columns, a CHECK by its own name. Of a type *)
(* nothing is kept but what an INSERT may leave out: a column is required, *)
(* defaulted by the server, or nullable.                                   *)
(***************************************************************************)
EXTENDS Naturals, Sequences

Column(t, kind, names) == {<<"column", t, c, kind>> : c \in names}

Unique(t, columns) == {<<"unique", t, columns>>}

Check(t, name, columns) == {<<"check", t, name, columns, {}>>}

\* A VARCHAR with a CHECK of its values, which are the names of the members.
Enum(t, column, name, values) == {<<"check", t, name, {column}, values>>}

Status(t, name, values) == Enum(t, "status", name, values)

Ref(t, column, target, ondelete) ==
  {<<"fk", t, {column}, target, {"id"}, ondelete>>}

\* A composite foreign key, which carries the tenant.
TenantRef(t, column, target, ondelete) ==
  {<<"fk", t, {"tenant_id", column}, target, {"tenant_id", "id"}, ondelete>>}

Index(t, name, columns) == {<<"index", t, name, columns>>}

\* A table with its primary key.
Table(t, required, defaulted, nullable) ==
  {<<"table", t, t>>}
    \cup Column(t, "required", {"id"} \cup required)
    \cup Column(t, "defaulted", defaulted)
    \cup Column(t, "nullable", nullable)
    \cup Unique(t, {"id"})

\* What created_at and updated_at are called together.
Stamps == {"created_at", "updated_at"}

(***************************************************************************)
(* What an object is made of.                                              *)
(***************************************************************************)
Of(kind, schema) == {o \in schema : o[1] = kind}

TableOf(o) == o[2]

Key(o) == SubSeq(o, 1, 3)

Columns(o) ==
  CASE o[1] \in {"unique", "fk"} -> o[3]
    [] o[1] \in {"check", "index"} -> o[4]
    [] OTHER -> {}
=============================================================================
