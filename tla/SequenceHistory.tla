--------------------------- MODULE SequenceHistory ---------------------------
(****************************************************************************)
(* What sequence evaluation promises: every call is one indivisible step    *)
(* against the ordered history of its chain root, each constraint a         *)
(* predicate over that history.  There is no store here, no lock and no     *)
(* compiled state, only the calls, their outcomes and the histories.        *)
(*                                                                          *)
(* history[r] lists the admitted calls that carried constraints, and        *)
(* forgotten[r] counts the oldest of them, which the store's owner has      *)
(* discarded: the predicates range over what came after.                    *)
(****************************************************************************)
EXTENDS SequenceRules

CONSTANTS Agent, Root

VARIABLES call, outcome, history, forgotten

absVars == <<call, outcome, history, forgotten>>

Evaluable == [root : Root \cup {Empty}, seq : Sequence \cup {Nil}, action : Action]

Happened(r) == (forgotten[r] + 1) .. Len(history[r])

Spent(r, s) == s.max > 0 /\ Len(history[r]) - forgotten[r] >= s.max

\* Some remembered entry that carried a constraint named id fired its trigger.
Tripped(r, id) == \E i \in Happened(r) : id \in Fired(history[r][i].seq, history[r][i].action)

Violated(r, s, x) == {c \in Rules(s) : Matches(c.forbid, x) /\ Tripped(r, c.id)}

Pending(a) == outcome[a].verdict = "pending"

Decided(a, v, rule) ==
  /\ outcome' = [outcome EXCEPT ![a] = [verdict |-> v, rule |-> rule]]
  /\ call' = [call EXCEPT ![a] = Nil]
  /\ UNCHANGED forgotten

AbsInit ==
  /\ call = [a \in Agent |-> Nil]
  /\ outcome = [a \in Agent |-> [verdict |-> "none", rule |-> Empty]]
  /\ history = [r \in Root |-> << >>]
  /\ forgotten = [r \in Root |-> 0]

Start(a) ==
  /\ ~ Pending(a)
  /\ call'[a] \in Evaluable
  /\ call' = [call EXCEPT ![a] = call'[a]]
  /\ outcome' = [outcome EXCEPT ![a] = [verdict |-> "pending", rule |-> Empty]]
  /\ UNCHANGED <<history, forgotten>>

\* No constraints were presented, so nothing is checked and nothing recorded.
Unconstrained(a) ==
  /\ Pending(a) /\ call[a].seq = Nil
  /\ Decided(a, "admitted", Empty)
  /\ UNCHANGED history

Fault(a) ==
  /\ Pending(a) /\ call[a].seq # Nil
  /\ Decided(a, "fault", Empty)
  /\ UNCHANGED history

Admitted(a) ==
  LET r == call[a].root  s == call[a].seq  x == call[a].action
  IN  /\ Pending(a) /\ s # Nil /\ Compiles(s)
      /\ r \in Root
      /\ ~ Spent(r, s)
      /\ Violated(r, s, x) = {}
      /\ Decided(a, "admitted", Empty)
      /\ history' = [history EXCEPT ![r] = Append(@, [seq |-> s, action |-> x])]

Denied(a) ==
  LET r == call[a].root  s == call[a].seq  x == call[a].action
  IN  /\ Pending(a) /\ s # Nil
      /\ r \in Root
      /\ \/ Spent(r, s) /\ Decided(a, "denied", Empty)
         \/ /\ ~ Spent(r, s)
            /\ \E c \in Violated(r, s, x) : Decided(a, "denied", c.id)
      /\ UNCHANGED history

Discard(r) ==
  /\ forgotten' = [forgotten EXCEPT ![r] = Len(history[r])]
  /\ UNCHANGED <<call, outcome, history>>

AbsNext ==
  \/ \E a \in Agent : Start(a) \/ Unconstrained(a) \/ Fault(a) \/ Admitted(a) \/ Denied(a)
  \/ \E r \in Root : Discard(r)

AbsSpec == AbsInit /\ [][AbsNext]_absVars
=============================================================================
