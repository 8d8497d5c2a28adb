---------------------------- MODULE RunLifecycle ----------------------------
(***************************************************************************)
(* What a client of the engine may rely on for one Run: how its status     *)
(* moves, and what happens to each tool call the model makes.  A call's    *)
(* side effect starts only while nothing has been reported for the call,   *)
(* and the one report it gets agrees with it.  Workers, leases, snapshots  *)
(* and crashes are absent; RunEngine implements this module.               *)
(***************************************************************************)
CONSTANT CallIds

VARIABLES status,  \* RunStatus, or "absent" before start
          ran,     \* calls whose action the environment was told to perform
          told     \* what the model was told about each call

lifecycleVars == <<status, ran, told>>

Live == {"queued", "preparing", "running", "waiting_approval", "waiting_user",
         "environment_offline"}
Finished == {"succeeded", "failed", "cancelled"}

(* The status changes of the engine.                                        *)
Moves ==
    {<<"absent", "queued">>}
      \cup ({"queued", "preparing", "running", "environment_offline"} \X {"preparing"})
      \cup ({"preparing", "waiting_approval", "waiting_user"} \X {"running"})
      \cup ({"waiting_user"} \X {"preparing"})
      \cup ({"running"} \X {"verifying", "waiting_approval", "waiting_user",
                            "failed", "cancelled"})
      \cup ({"verifying"} \X {"succeeded", "failed"})
      \cup (Live \X {"environment_offline"})
      \cup ((Live \cup Finished \cup {"verifying", "cancelling"}) \X {"cancelling"})
      \cup ({"cancelling"} \X {"cancelled"})

LifecycleInit ==
    /\ status = "absent"
    /\ ran = {}
    /\ told = [c \in CallIds |-> "none"]

Move == <<status, status'>> \in Moves /\ UNCHANGED <<ran, told>>

Perform(c) ==
    /\ c \notin ran /\ told[c] = "none"
    /\ ran' = ran \cup {c}
    /\ UNCHANGED <<status, told>>

(* A report arrives while the Run runs, or as the answer that restarts it.  *)
Tell(c, outcome) ==
    /\ told[c] = "none"
    /\ outcome = "executed" <=> c \in ran
    /\ told' = [told EXCEPT ![c] = outcome]
    /\ \/ status = "running" /\ status' = "running" /\ outcome # "answered"
       \/ /\ status = "waiting_user" /\ outcome = "answered"
          /\ status' \in {"running", "preparing"}
    /\ UNCHANGED ran

LifecycleNext ==
    \/ Move
    \/ \E c \in CallIds : \/ Perform(c)
                          \/ \E o \in {"executed", "denied", "authorized", "answered"} :
                                Tell(c, o)

LifecycleSpec == LifecycleInit /\ [][LifecycleNext]_lifecycleVars
=============================================================================
