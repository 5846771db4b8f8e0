-------------------------- MODULE MCAppLifecycle --------------------------
(***************************************************************************)
(* Two components: cron, whose Close may hang, and redis, which may be      *)
(* missing and may not answer; a service that needs redis, one that is      *)
(* disabled and one that declines.                                          *)
(***************************************************************************)
EXTENDS AppLifecycle

CONSTANTS cron, redis, health, tasks, users, encryption

MCFactories == {cron, redis}
MCReaders == {health}
MCServices == {tasks, users, encryption}
MCNeeds == [s \in MCServices |-> IF s = tasks THEN {redis} ELSE {}]
=============================================================================
