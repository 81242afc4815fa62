-------------------------- MODULE MCCommandBackend --------------------------
(* Callers have a design and its review, two decisions, and one command of *)
(* every kind, with the ones that meet: a stale revision, a reused key, a  *)
(* taken address, an immutable record and an empty change.  Beside them a  *)
(* manifest is seeded, corrected and seeded again.                         *)
EXTENDS Seeding, TLC

Design == <<"design">>
Adr == <<"adr">>
Old == <<"old">>
Review == <<"review">>

MCSeeded ==
  Design :> Entity("design", <<"design", <<"passkeys">>>>, <<"text">>) @@
  Adr :> Entity("adr", <<"adr", <<"2">>>>, <<"text">>) @@
  Old :> Entity("adr", <<"adr", <<"1">>>>, <<"text">>) @@
  Review :> Entity("review-result", <<"review", <<"1">>>>, <<Design, 2>>)

Command(key, op, target, expected) ==
  [id |-> <<key>>, key |-> <<key>>, op |-> op, target |-> target, expected |-> expected]

Update(key, d, data, expected) ==
  Command(key, "update", {d}, expected) @@ [change |-> [target |-> d, data |-> data]]
Create(key, name) ==
  Command(key, "create", {}, {}) @@
    [type |-> "story", locator |-> <<"story", <<name>>>>, data |-> <<"text">>]
On(key, op, d, expected) == Command(key, op, {d}, expected) @@ [entity |-> d]
Accept(key, old) ==
  On(key, "accept", Adr, {1}) @@ [at |-> 1, supersedes |-> old]

Served ==
  { Update("guarded", Design, <<"other">>, {1}), Update("words", Review, <<Design, 3>>, {}),
    Update("empty", Design, <<>>, {}),
    [Update("guarded", Old, <<"new text">>, {}) EXCEPT !.id = <<"another">>],
    On("archive", "archive", Review, {}),
    On("supersede", "supersede", Old, {}) @@ [successor |-> Adr],
    On("submit", "submit", Design, {1}) @@ [at |-> 1],
    On("approve", "approve", Design, {2}) @@ [at |-> 2, review |-> Review],
    Accept("accept", {Old}) }

Names == {<<"a">>, <<"a", "-", "b">>, <<"a", ".", "b">>, <<"a", "/", "b">>}
Ids == [namespace : {"design", "doc"}, name : Names]

Named(id, edges) ==
  [id |-> id, kind |-> "design", body |-> <<id.namespace>> \o id.name, edges |-> edges]
To(target) == <<[kind |-> "designs", target |-> target]>>

(* Manifests of two artifacts that meet in the name a separator leaves, in *)
(* their address, or not at all, one related to the other or to nothing.   *)
AllManifests ==
  {g \in {<<Named(a, <<>>), Named(b, To(t))>> : a \in Ids, b \in Ids, t \in Ids} :
     g[1].id # g[2].id /\ g[2].edges[1].target # g[2].id}

(* A manifest with an edge to nothing, the same put right and then grown,  *)
(* and one of two artifacts at one address.                                *)
First == [namespace |-> "design", name |-> <<"a">>]
Second == [namespace |-> "design", name |-> <<"a", "/", "b">>]
Third == [namespace |-> "doc", name |-> <<"a", "-", "b">>]

Corrected ==
  { <<Named(First, To(Second))>>,
    <<Named(First, To(Second)), Named(Second, <<>>)>>,
    <<Named(Second, <<>>), Named(Third, <<>>)>> }

Identity(artifact) == CreateCommand(artifact).key
Seed == Identity(Named(First, <<>>))

(* Callers revise what was seeded, cut its edge, add one like it and take  *)
(* an address it needs.                                                    *)
Beside ==
  { Update("revise", Seed, <<"new text">>, {}),
    Command("unlink", "unrelate", {}, {}) @@ [relation |-> EdgeName(First, To(Second)[1])],
    Command("second edge", "relate", {Seed}, {})
      @@ [kind |-> "designs", source |-> Seed, other |-> Identity(Named(Second, <<>>))],
    [Create("squat", "1") EXCEPT !.type = "design", !.locator = Address(Named(Second, <<>>))] }

Usual == Served \cup Beside

(* A decision that supersedes one nobody has created.                      *)
WithMissing == Usual \cup {Accept("replace", {<<"story">>})}

(* An edge whose caller believes the design to be at another revision.     *)
WithStaleEdge ==
  Usual \cup
  { Command("late edge", "relate", {Design}, {2})
      @@ [kind |-> "designs", source |-> Design, other |-> Adr] }

(* A review approved as if it were a design, and a design approved with a  *)
(* review of another revision.                                             *)
WithMistakes ==
  Usual \cup
  { On("misplaced", "approve", Review, {1}) @@ [at |-> 1, review |-> Review],
    On("early", "approve", Design, {1}) @@ [at |-> 1, review |-> Review] }

SeedCommands ==
  {CreateCommand(Named(a, <<>>)) : a \in Ids} \cup
  {RelateCommand(Named(a, <<>>), To(b)[1], Identity(Named(a, <<>>)), Identity(Named(b, <<>>))) :
     a \in Ids, b \in Ids}

Everything == WithMissing \cup WithStaleEdge \cup WithMistakes \cup SeedCommands
=============================================================================
