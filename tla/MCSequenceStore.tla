--------------------------- MODULE MCSequenceStore ---------------------------
(****************************************************************************)
(* Instances of SequenceStore for TLC.                                      *)
(****************************************************************************)
EXTENDS SequenceStore, TLC

On(tags)  == [action |-> "", rtype |-> "", tags |-> tags]
Anything  == On(<< >>)
Calling   == [action |-> "invoke", rtype |-> "tool", tags |-> << >>]

\* After external content, mutate nothing; after a mutation, do nothing else.
NoExfiltration == [id |-> "exfil", forbid |-> On(<<"mutating">>), after |-> On(<<"external">>)]
OneMutation    == [id |-> "once", forbid |-> Anything, after |-> On(<<"mutating">>)]
OtherOnce      == [id |-> "once", forbid |-> On(<<"mutating">>), after |-> On(<<"external">>)]
Trap           == [id |-> "trap", forbid |-> Calling, after |-> Anything]

Seqn(max, rules) == [max |-> max, constraints |-> rules]

Budget2    == Seqn(2, << >>)
Budget1    == Seqn(1, << >>)
Exfil      == Seqn(0, <<NoExfiltration>>)
ExfilOnce  == Seqn(2, <<OneMutation, NoExfiltration>>)
\* A sibling's rule of the same name, for another order of events.
Namesake   == Seqn(2, <<OtherOnce>>)
EmptyAfter == Seqn(2, <<NoExfiltration, Trap>>)

RichOffered == {Nil, Budget2, Exfil, ExfilOnce, Namesake, EmptyAfter}
LeanOffered == {Budget1, ExfilOnce}

Act(tags) == [name |-> "invoke", rtype |-> "tool", tags |-> tags]
RichAttempted == {Act({"external"}), Act({"mutating"}), Act({"external", "mutating"})}
LeanAttempted == {Act({"external"}), Act({"mutating"})}

Names == {"", "invoke", "tool"}
Tags  == {"external", "mutating"}
Ids   == {"", "exfil", "once", "trap"}

Agents == Permutations(Agent)
=============================================================================
