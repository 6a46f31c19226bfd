---------------------------- MODULE JobLifecycle ----------------------------
(***************************************************************************)
(* What a query job promises to the code around it, whatever happens to    *)
(* locks, signals and workers: it waits at most once, is executed at most  *)
(* once, and publishes at most one result, while it is being executed.     *)
(***************************************************************************)
CONSTANTS Jobs, NoJob

VARIABLES phase,      \* per job: "new", "pending", "running" or "over"
          published,  \* the jobs with a committed result
          latest      \* the job whose result readers see

vars == <<phase, published, latest>>

Init ==
  /\ phase = [j \in Jobs |-> "new"]
  /\ published = {}
  /\ latest = NoJob

Move(j, from, to) ==
  /\ phase[j] = from
  /\ phase' = [phase EXCEPT ![j] = to]
  /\ UNCHANGED <<published, latest>>

Submit(j)   == Move(j, "new", "pending")
Withdraw(j) == Move(j, "pending", "over")
Begin(j)    == Move(j, "pending", "running")
End(j)      == Move(j, "running", "over")

Publish(j) ==
  /\ phase[j] = "running" /\ j \notin published
  /\ published' = published \cup {j}
  /\ latest' = j
  /\ UNCHANGED phase

Next == \E j \in Jobs : Submit(j) \/ Withdraw(j) \/ Begin(j) \/ End(j) \/ Publish(j)

Spec == Init /\ [][Next]_vars
==============================================================================
