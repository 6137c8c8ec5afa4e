---- MODULE MCResearchTask ----
(* One run over four scenarios, chosen at the start, each with bounds of its  *)
(* own: the failures of one reconciler's attempts, operators and users, tasks *)
(* that wait for each other's slot, and two reconcilers over one task.        *)
EXTENDS ResearchTask, TLC

CONSTANTS t1, t2, r1, r2

VARIABLE scenario

TwoOwners == (r1 :> "one") @@ (r2 :> "two")

Bounds ==
    [failures  |-> [tasks |-> {t1}, reconcilers |-> {r1}, attempts |-> 2, steps |-> 0,
                    aborts |-> 0, events |-> {"lapse", "overrun", "vanish"}],
     operators |-> [tasks |-> {t1}, reconcilers |-> {r1}, attempts |-> 1, steps |-> 1,
                    aborts |-> 1, events |-> {"deadline", "revoke", "cancel", "pause"}],
     slots     |-> [tasks |-> {t1, t2}, reconcilers |-> {r1}, attempts |-> 1, steps |-> 0,
                    aborts |-> 0, events |-> {"lapse"}],
     race      |-> [tasks |-> {t1}, reconcilers |-> {r1, r2}, attempts |-> 1, steps |-> 0,
                    aborts |-> 0, events |-> {"lapse", "cancel"}]]

\* Nothing of an attempt gets lost: no request, job or pod that nobody deletes.
Kept(p, q) ==
    /\ q.post # "lost"
    /\ p.job \in {"active", "failed", "complete"} => q.job # "gone"
    /\ p.pod = "ended" /\ p.job \notin {"deleting", "gone"} => q.pod = "ended"

\* What a step may not do in the scenario.
Within(b) ==
    /\ \A r \in Reconciler \ b.reconcilers : rec'[r] = Idle
    /\ \A t \in Task \ b.tasks : task'[t] = NewTask /\ ~revoked'[t]
    /\ \A t \in Task : task'[t].attempt <= b.attempts
    /\ \A t \in Task, a \in Attempts : prov'[t][a].step <= b.steps
    /\ aborts' <= b.aborts
    /\ "lapse" \in b.events \/ ~\E t \in Task : lapsed'[t]
    /\ "deadline" \in b.events \/ overdue' = overdue
    /\ "revoke" \in b.events \/ revoked' = revoked
    /\ "pause" \in b.events \/ paused' = paused
    /\ "cancel" \in b.events \/ asked' = asked
    /\ "overrun" \in b.events
       \/ ~\E t \in Task, a \in Attempts :
             prov'[t][a].job = "failed" /\ prov'[t][a].pod \in {"none", "running"}
    /\ "vanish" \in b.events
       \/ \A t \in Task, a \in Attempts : Kept(prov[t][a], prov'[t][a])

Bounded(A) == A /\ Within(Bounds[scenario]) /\ UNCHANGED scenario

MCInit == Init /\ scenario \in DOMAIN Bounds

MCNext == Bounded(Next)

\* The fairness of LiveSpec, but r2 may stop for good at any point: one
\* reconciler that keeps ticking is enough.
MCLiveSpec ==
    /\ MCInit /\ [][MCNext]_<<vars, scenario>>
    /\ WF_vars(Reconcile(r1))
    /\ \A t \in Task : WF_vars(Bounded(Claim(r1, t))) /\ WF_vars(Maintain(r1, t))
    /\ \A t \in Task, a \in Attempts : WF_vars(Responds(t, a))
====
