---------------------------- MODULE MCRedisGuards ---------------------------
(* Half-second ticks, two seconds a window, two requests a window. *)
EXTENDS RedisGuards
=============================================================================
