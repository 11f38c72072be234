------------------------------ MODULE Startup ------------------------------
(***************************************************************************)
(* The process from its start to the end of a command that does not trade  *)
(* (main in src/src/main.rs, App::bootstrap in src/src/app.rs): the pools  *)
(* are discovered or read from pools.toml, hydrated, filtered and          *)
(* registered, their words are found, and with the verify commands they    *)
(* are compared with the chain.  It may be stopped anywhere, and started   *)
(* again on the files it left.                                             *)
(***************************************************************************)
EXTENDS Verify

vars == <<discoveryVars, hydrationVars, layoutVars, verifyVars>>

\* With discovery off the cache files are what an earlier run left, if there was one.
StartupInit ==
  /\ Init /\ HydrationInit /\ LayoutsInit /\ VerifyInit
  /\ IF setup.enabled THEN tip = 1 /\ disk = NoCaches
     ELSE tip = MaxBlock /\ disk \in {NoCaches, FullCaches}

\* Every command but check-config bootstraps.
Start ==
  /\ pc = "down"
  /\ pc' = IF setup.enabled THEN "boot" ELSE "pins"
  /\ setup.enabled \/ setup.pins # << >>
  /\ UNCHANGED <<tip, disk, head, k, cache, next, all, hydrationVars, layoutVars, verifyVars>>

ForgetAll ==
  /\ Forget /\ ForgetPools /\ ForgetLayouts /\ Begin("idle")
  /\ UNCHANGED <<tip, setup>>

\* An error, a panic, a kill, or the end of the command.
Stop == pc # "down" /\ ForgetAll /\ UNCHANGED <<disk, feeDisk>>

\* A cache file is being written when it happens.
StopInWrite == TearCache /\ ForgetAll /\ UNCHANGED feeDisk

StopInVerdicts ==
  /\ pc = "probe" /\ todo = {}
  /\ feeDisk' = NoVerdict
  /\ ForgetAll /\ UNCHANGED disk

Next ==
  \/ setup.enabled /\ Mine /\ UNCHANGED <<hydrationVars, layoutVars, verifyVars>>
  \/ Start
  \/ Discover /\ UNCHANGED <<hydrationVars, layoutVars, verifyVars>>
  \/ Hydrate /\ UNCHANGED <<layoutVars, verifyVars>>
  \/ Layout /\ UNCHANGED <<tip, disk, head, k, cache, next, all, hydrationVars, verifyVars>>
  \/ Audit /\ UNCHANGED <<discoveryVars, hydrationVars, layoutVars>>
  \/ Stop
  \/ StopInWrite
  \/ StopInVerdicts

Spec == StartupInit /\ [][Next]_vars

=============================================================================
