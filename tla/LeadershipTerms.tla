-------------------------- MODULE LeadershipTerms ---------------------------
(***************************************************************************)
(* What the leader election promises to the plugins, seen from outside: a  *)
(* replica leads in terms, one for each time the lock was granted.  A term *)
(* is a leadership context of its own, even while two replicas believe     *)
(* that they lead.  A callback is launched at most once in a term, and a   *)
(* replica leaves its term only when it has been told to stop and the      *)
(* callbacks launched with the term have returned.                         *)
(***************************************************************************)
EXTENDS Naturals

CONSTANTS Node, Callback

VARIABLES granted,  \* the terms so far
          term,     \* the term a replica is in, 0 for none
          ending,   \* the replicas whose term's context is cancelled
          working,  \* the callbacks launched with the term, still running
          launched  \* all launches of a process, as (callback, term)

vars == <<granted, term, ending, working, launched>>

Init == /\ granted = 0
        /\ term = [n \in Node |-> 0]
        /\ ending = {}
        /\ working = [n \in Node |-> {}]
        /\ launched = [n \in Node |-> {}]

(* The lock is granted; a replica may not get to know it.                  *)
Win(n) == /\ term[n] = 0
          /\ granted' = granted + 1
          /\ term' = [term EXCEPT ![n] = granted + 1]
          /\ UNCHANGED <<ending, working, launched>>

Waste == granted' = granted + 1 /\ UNCHANGED <<term, ending, working, launched>>

Record(n, c, t) == /\ <<c, t>> \notin launched[n]
                   /\ launched' = [launched EXCEPT ![n] = @ \cup {<<c, t>>}]

Launch(n, c) == /\ term[n] # 0
                /\ Record(n, c, term[n])
                /\ working' = [working EXCEPT ![n] = @ \cup {c}]
                /\ UNCHANGED <<granted, term, ending>>

(* A callback registered during a term is launched with its context, which *)
(* may be over by then; nobody waits for it.                               *)
LaunchLate(n, c, t) == /\ t \in 1..granted
                       /\ Record(n, c, t)
                       /\ UNCHANGED <<granted, term, ending, working>>

Return(n, c) == /\ working' = [working EXCEPT ![n] = @ \ {c}]
                /\ UNCHANGED <<granted, term, ending, launched>>

StepDown(n) == /\ term[n] # 0
               /\ ending' = ending \cup {n}
               /\ UNCHANGED <<granted, term, working, launched>>

Leave(n) == /\ n \in ending
            /\ working[n] = {}
            /\ term' = [term EXCEPT ![n] = 0]
            /\ ending' = ending \ {n}
            /\ UNCHANGED <<granted, working, launched>>

(* The process ends and a new one takes its place.                         *)
Restart(n) == /\ term' = [term EXCEPT ![n] = 0]
              /\ ending' = ending \ {n}
              /\ working' = [working EXCEPT ![n] = {}]
              /\ launched' = [launched EXCEPT ![n] = {}]
              /\ UNCHANGED granted

Next == \/ \E n \in Node : \/ Win(n) \/ StepDown(n) \/ Leave(n) \/ Restart(n)
                           \/ \E c \in Callback :
                                 \/ Launch(n, c) \/ Return(n, c)
                                 \/ \E t \in 1..granted : LaunchLate(n, c, t)
        \/ Waste

Spec == Init /\ [][Next]_vars
=============================================================================
