-------------------------------- MODULE Dcql --------------------------------
(***************************************************************************)
(* What a relying party may ask for and whether it got it:                 *)
(* packages/core/src/rp-registry.ts and packages/core/src/dcql.ts.         *)
(***************************************************************************)
LOCAL INSTANCE Naturals
LOCAL INSTANCE Sequences

\* Values as in JSON: an object with its members, null (or undefined), anything else.
Object(members) == [is |-> "object", members |-> members]
Scalar(value) == [is |-> "scalar", value |-> value]
Null == [is |-> "null"]

Member(json, key) ==
    IF json.is = "object" /\ key \in DOMAIN json.members THEN json.members[key] ELSE Null

\* What there is at a path: the loop that goes from member to member.
At(path, json) ==
    LET cur[i \in 0 .. Len(path)] == IF i = 0 THEN json ELSE Member(cur[i - 1], path[i])
    IN  cur[Len(path)]

MutTruthy(paths, json) == {path \in paths : At(path, json) \in {Null, Scalar("false")}}

\* checkDcqlSatisfied: the requested paths at which there is nothing.
CheckDcqlSatisfied(paths, json) == {path \in paths : At(path, json) = Null}

\* assertEntitled, of a registry that maps a client_id to the attributes it registered.
AssertEntitled(rps, clientId, requested) ==
    clientId \in DOMAIN rps /\ requested \subseteq rps[clientId]
=============================================================================
