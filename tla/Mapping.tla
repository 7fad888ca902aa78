------------------------------- MODULE Mapping -------------------------------
(****************************************************************************)
(* What the Policy Decision Point is asked about a tool call: the default   *)
(* request (authzen/mapping.go) and the requests of a mapping that the tool *)
(* declares (authzen/declared.go).                                          *)
(*                                                                          *)
(* An object maps each field to a datum, or to Nil where it has none; the   *)
(* fields of an object's `properties` are written among its own.  A CEL     *)
(* program is known by what it reads: it may fail, it may yield nothing     *)
(* where its selection is optional, and what it yields costs as many values *)
(* as it holds (bytes are bounded the same way).                            *)
(****************************************************************************)
EXTENDS Grants, FiniteSets

CONSTANTS Text,      \* strings, the empty one among them
          NotText,   \* a datum that is no string
          Property,  \* the fields an open object may have
          Fold,      \* Fold[f]: the field a case-insensitive decoder takes f for
          Argument,  \* the names of a call's arguments
          MaxValues  \* MaxResolvedValues

Field == {"type", "id", "name"} \cup Property
Member == {"subject", "action", "resource", "context"}
Datum == Text \cup {NotText}

Object == [Field -> Datum \cup {Nil}]

ASSUME MappingAssumption ==
  /\ Empty \in Text /\ {"identity", "tool", "tools/call"} \subseteq Text \ {Empty}
  /\ NotText \notin Text /\ Nil \notin Datum \cup Object
  /\ {"iss", "agent", "delegation"} \subseteq Property
  /\ IsFiniteSet(Property)
  /\ Fold \in [Field -> Field]
  /\ \A f, g \in {"type", "id", "name", "iss", "agent", "delegation"} : Fold[f] = Fold[g] => f = g
  /\ MaxValues \in Nat

\* params.arguments: an absent one is Nil.
Arguments == [Argument -> [is : Datum, values : Nat \ {0}] \cup {Nil}]

\* What verification established, as expressions and anchors read it.
Established == [sub : Text, iss : Text, client_id : Text]

(****************************************************************************)
(* Templates.  Nil stands for a field or a member that is not there.        *)
(****************************************************************************)
Node == [reads : {"literal"}, what : Datum]
          \cup [reads : {"token"}, what : {"sub", "iss", "client_id"}]
          \cup [reads : {"argument", "optional"}, what : Argument]

Template == [Member -> [Field -> Node \cup {Nil}] \cup {Nil}]
Blank == [m \in Member |-> Nil]

\* members counts the envelopes, options says whether the one here sets options,
\* and list holds the entries it nests.
Declaration == [members : Nat, envelope : {"evaluation", "evaluations"}, options : BOOLEAN,
                top : Template, list : Seq(Template)]

\* ParseMapping: the declarations it accepts.  Neither options nor entries are
\* members of a single evaluation request.
Accepts(d) ==
  /\ d.members = 1
  /\ ~ d.options
  /\ d.list = << >> <=> d.envelope = "evaluation"
  /\ \A i \in DOMAIN d.list : d.list[i]["subject"] = Nil

\* Without entries the defaults are the request: one entry that replaces nothing.
Entries(d) == IF d.envelope = "evaluation" \/ d.list = << >> THEN <<Blank>> ELSE d.list

(****************************************************************************)
(* Resolving a template for one call.                                       *)
(****************************************************************************)
Yields(n, v, args) ==
  CASE n = Nil -> Nil
    [] n # Nil /\ n.reads = "literal" -> n.what
    [] n # Nil /\ n.reads = "token" -> v[n.what]
    [] OTHER -> IF args[n.what] = Nil THEN Nil ELSE args[n.what].is

\* Plain selection of an argument that is not there.
NodeFails(n, args) == n.reads = "argument" /\ args[n.what] = Nil

\* What an expression yields is counted, an optional itself and its value again.
Cost(n, args) ==
  IF n.reads = "token" THEN 1
  ELSE (IF n.reads = "optional" THEN 1 ELSE 0)
         + (IF args[n.what] = Nil THEN 0 ELSE args[n.what].values)

\* The places of a template that hold an expression.
Expressions(t) ==
  {p \in {m \in Member : t[m] # Nil} \X Field :
     t[p[1]][p[2]] # Nil /\ t[p[1]][p[2]].reads # "literal"}

Fails(t, args) == \E p \in Expressions(t) : NodeFails(t[p[1]][p[2]], args)

Produced(t, args) == UNION {{p} \X (1 .. Cost(t[p[1]][p[2]], args)) : p \in Expressions(t)}
Spends(t, args) == Cardinality(Produced(t, args))

Resolved(t, v, args) ==
  [m \in Member |-> IF t[m] = Nil THEN Nil ELSE [f \in Field |-> Yields(t[m][f], v, args)]]

\* A member an entry sets replaces the default whole.
Effective(top, entry) == [m \in Member |-> IF entry[m] # Nil THEN entry[m] ELSE top[m]]

(****************************************************************************)
(* anchored: the identities are verification's.                             *)
(****************************************************************************)
\* What an object says of a field; a missing one says nothing.
Says(o, f) == IF o = Nil THEN Nil ELSE o[f]
Put(o, f, d) == [g \in Field |-> IF g = f THEN d ELSE Says(o, g)]

Optional(o, f) == Says(o, f) \in (Text \ {Empty}) \cup {Nil}
Required(o, f) == Says(o, f) \in Text \ {Empty}
OnlyMembers(o, fields) == \A f \in Field \ (fields \cup Property) : Says(o, f) = Nil

Twins(f) == {g \in Field : g # f /\ Fold[g] = Fold[f]}
NoFoldTwins(o, fields) == \A f \in fields : \A g \in Twins(f) : Says(o, g) = Nil

\* Mutated: keys are compared exactly only.
SubjectHolds_exactKeys(o, v) ==
  /\ OnlyMembers(o, {"type", "id"})
  /\ Optional(o, "type")
  /\ Says(o, "id") \in {v.sub, Nil}
  /\ Says(o, "iss") \in {v.iss, Nil}

SubjectHolds(o, v) ==
  /\ OnlyMembers(o, {"type", "id"})
  /\ Optional(o, "type")
  /\ Says(o, "id") \in {v.sub, Nil}
  /\ NoFoldTwins(o, {"iss"})
  /\ Says(o, "iss") \in {v.iss, Nil}

ContextHolds(o, v) ==
  /\ NoFoldTwins(o, {"agent", "delegation"})
  /\ Says(o, "agent") \in {v.client_id, Nil}
  /\ Says(o, "delegation") = Nil

Anchors(r, v) ==
  /\ SubjectHolds(r["subject"], v)
  /\ OnlyMembers(r["action"], {"name"}) /\ Required(r["action"], "name")
  /\ OnlyMembers(r["resource"], {"type", "id"})
  /\ Required(r["resource"], "type") /\ Required(r["resource"], "id")
  /\ ContextHolds(r["context"], v)

\* The request, with the delegation of the chain ch in its context: only the
\* enforcement point puts it there.
Anchored(r, v, ch) ==
  [says |-> [r EXCEPT
      !["subject"] = Put(Put(Put(@, "type", IF Says(@, "type") = Nil THEN "identity" ELSE @["type"]),
                             "id", v.sub), "iss", v.iss),
      !["context"] = Put(@, "agent", v.client_id)],
   delegation |-> ch]

(****************************************************************************)
(* The default mapping of tools/call.                                       *)
(****************************************************************************)
ToolCallRequest(v, name, ch) ==
  Anchored([m \in Member |->
              CASE m = "action" -> Put(Nil, "name", "tools/call")
                [] m = "resource" -> Put(Put(Nil, "type", "tool"), "id", name)
                [] OTHER -> Nil], v, ch)
=============================================================================
