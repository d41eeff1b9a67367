-------------------------- MODULE ShareChainProofs --------------------------
(***************************************************************************)
(* What the walk of ShareChain finds, for any set of records: it accepts a *)
(* leaf exactly when the mint is among its ancestors.  The ancestors are   *)
(* what every set that holds the leaf and is closed under the records      *)
(* holds, so no induction over the length of the walk is needed: a state   *)
(* of the walk is in the least set of states that leads to "valid", or the *)
(* outpoints the walk reaches are a closed set without the mint.           *)
(***************************************************************************)
EXTENDS ShareChain, FiniteSetTheorems, WellFoundedInduction, TLAPS

\* What the routes and the unique index make of the records: transfers are
\* outputs 0, of other transactions than the mint, and one record is made of
\* each.
WellFormed(records, mint) ==
  /\ mint = <<mint[1], 0>>
  /\ \A s \in records : s.transferTxid = <<s.transferTxid[1], 0>> /\ s.transferTxid # mint
  /\ \A s, t \in records : s.transferTxid = t.transferTxid => s = t

\* A set that holds, with a share or the change beside it, its parent.
Closed(records, S) ==
  \A s \in records :
    s.transferTxid \in S \/ <<s.transferTxid[1], 1>> \in S => s.parentTxid \in S

\* The mint is among the ancestors of leaf; U is any set they all lie in.
Descends(records, mint, leaf, U) ==
  \A S \in SUBSET U : leaf \in S /\ Closed(records, S) => mint \in S
-----------------------------------------------------------------------------
\* The states of the loop: what was visited, and where it is.
States(records, leaf) == (SUBSET Visitable(records, leaf)) \X Visitable(records, leaf)

IsWalk(walk, records, mint, leaf) ==
  walk = [at \in States(records, leaf) |-> Turn(walk, records, mint, at[1], at[2])]

\* The record that a turn at an outpoint goes on from.
RecordBehind(records, mint, current) ==
  IF HasRecord(records, current) THEN RecordOf(records, current)
  ELSE RecordOf(records, TransferBeside(current))

\* The turns that go on, and those that return "valid" or "missing".
GoesOn(records, mint, at) ==
  /\ at[2] \notin at[1]
  /\ \/ HasRecord(records, at[2]) /\ RecordOf(records, at[2]).parentTxid # mint
     \/ ~HasRecord(records, at[2]) /\ at[2] # mint /\ IsChangeOfRecord(records, at[2])

EndsValid(records, mint, at) ==
  /\ at[2] \notin at[1]
  /\ \/ HasRecord(records, at[2]) /\ RecordOf(records, at[2]).parentTxid = mint
     \/ ~HasRecord(records, at[2]) /\ at[2] = mint

EndsMissing(records, mint, at) ==
  /\ at[2] \notin at[1]
  /\ ~HasRecord(records, at[2]) /\ at[2] # mint /\ ~IsChangeOfRecord(records, at[2])

Onward(records, mint, at) ==
  <<at[1] \cup {at[2]}, RecordBehind(records, mint, at[2]).parentTxid>>

\* The states from which going on leads to one of E.
LeadTo(records, mint, leaf, E) ==
  {at \in States(records, leaf) :
     \A G \in SUBSET States(records, leaf) :
       /\ E \subseteq G
       /\ \A g \in States(records, leaf) :
            GoesOn(records, mint, g) /\ Onward(records, mint, g) \in G => g \in G
       => at \in G}

\* The states that going on from the first one leads to.
Reached(records, mint, leaf) ==
  {at \in States(records, leaf) :
     \A G \in SUBSET States(records, leaf) :
       /\ <<{}, leaf>> \in G
       /\ \A g \in G : GoesOn(records, mint, g) => Onward(records, mint, g) \in G
       => at \in G}
-----------------------------------------------------------------------------
LEMMA RecordOfIt ==
  ASSUME NEW records, NEW o, HasRecord(records, o)
  PROVE  RecordOf(records, o) \in records /\ RecordOf(records, o).transferTxid = o
PROOF BY DEF HasRecord, RecordOf

\* A turn returns, or has the answer of the state it goes on to.
LEMMA TurnCases ==
  ASSUME NEW walk, NEW records, NEW mint, NEW at
  PROVE  Turn(walk, records, mint, at[1], at[2]) =
           IF GoesOn(records, mint, at) THEN walk[Onward(records, mint, at)]
           ELSE IF EndsValid(records, mint, at) THEN "valid"
           ELSE IF EndsMissing(records, mint, at) THEN "missing" ELSE "cycle"
PROOF BY DEF Turn, GoesOn, EndsValid, EndsMissing, Onward, RecordBehind

LEMMA EndsOnce ==
  ASSUME NEW records, NEW mint, NEW at
  PROVE  /\ ~(GoesOn(records, mint, at) /\ EndsValid(records, mint, at))
         /\ ~(GoesOn(records, mint, at) /\ EndsMissing(records, mint, at))
         /\ ~(EndsValid(records, mint, at) /\ EndsMissing(records, mint, at))
PROOF BY DEF GoesOn, EndsValid, EndsMissing

LEMMA FirstState ==
  ASSUME NEW records, NEW leaf
  PROVE  <<{}, leaf>> \in States(records, leaf)
PROOF BY DEF States, Visitable

LEMMA OnwardType ==
  ASSUME NEW records, NEW mint, NEW leaf, NEW at \in States(records, leaf),
         GoesOn(records, mint, at)
  PROVE  /\ RecordBehind(records, mint, at[2]) \in records
         /\ Onward(records, mint, at) \in States(records, leaf)
<1>1. RecordBehind(records, mint, at[2]) \in records
  BY RecordOfIt DEF GoesOn, RecordBehind, IsChangeOfRecord
<1>2. RecordBehind(records, mint, at[2]).parentTxid \in Visitable(records, leaf)
  BY <1>1 DEF Visitable
<1>3. at[1] \cup {at[2]} \in SUBSET Visitable(records, leaf)
  BY DEF States
<1> QED
  BY <1>1, <1>2, <1>3 DEF States, Onward
-----------------------------------------------------------------------------
LEMMA LeadToHas ==
  ASSUME NEW records, NEW mint, NEW leaf, NEW E \in SUBSET States(records, leaf)
  PROVE  /\ E \subseteq LeadTo(records, mint, leaf, E)
         /\ \A at \in States(records, leaf) :
              GoesOn(records, mint, at)
                /\ Onward(records, mint, at) \in LeadTo(records, mint, leaf, E)
              => at \in LeadTo(records, mint, leaf, E)
PROOF BY DEF LeadTo

\* And nothing else is in it.
LEMMA LeadToOnly ==
  ASSUME NEW records, NEW mint, NEW leaf, NEW E \in SUBSET States(records, leaf),
         NEW at \in LeadTo(records, mint, leaf, E), at \notin E
  PROVE  /\ GoesOn(records, mint, at)
         /\ Onward(records, mint, at) \in LeadTo(records, mint, leaf, E)
<1> DEFINE All == LeadTo(records, mint, leaf, E)
           G == {g \in All : g \in E \/ (GoesOn(records, mint, g) /\ Onward(records, mint, g) \in All)}
<1>1. All \subseteq States(records, leaf)
  BY DEF LeadTo
<1>2. G \subseteq States(records, leaf) /\ E \subseteq G
  <2>1. E \subseteq All
    BY LeadToHas
  <2> HIDE DEF All
  <2> QED
    BY <1>1, <2>1
<1>3. ASSUME NEW g \in States(records, leaf), GoesOn(records, mint, g),
             Onward(records, mint, g) \in G
      PROVE  g \in G
  BY <1>3, LeadToHas
<1> HIDE DEF G
<1>4. at \in G
  BY <1>2, <1>3 DEF LeadTo
<1> QED
  BY <1>4 DEF G

\* There is a function that the loop computes: a state that leads to neither
\* return is one that ends in, or never leaves, a cycle.
LEMMA WalkExists ==
  ASSUME NEW records, NEW mint, NEW leaf
  PROVE  \E walk : IsWalk(walk, records, mint, leaf)
<1> DEFINE All == States(records, leaf)
           V == {at \in All : EndsValid(records, mint, at)}
           M == {at \in All : EndsMissing(records, mint, at)}
           toV == LeadTo(records, mint, leaf, V)
           toM == LeadTo(records, mint, leaf, M)
           w == [at \in All |-> IF at \in toV THEN "valid" ELSE IF at \in toM THEN "missing" ELSE "cycle"]
<1>1. V \in SUBSET All /\ M \in SUBSET All
  OBVIOUS
<1>2. ASSUME NEW at \in All, GoesOn(records, mint, at)
      PROVE  w[at] = w[Onward(records, mint, at)]
  <2>1. Onward(records, mint, at) \in All /\ at \notin V /\ at \notin M
    BY <1>2, OnwardType, EndsOnce
  <2>2. at \in toV <=> Onward(records, mint, at) \in toV
    BY <1>1, <1>2, <2>1, LeadToHas, LeadToOnly
  <2>3. at \in toM <=> Onward(records, mint, at) \in toM
    BY <1>1, <1>2, <2>1, LeadToHas, LeadToOnly
  <2> HIDE DEF toV, toM, All
  <2> QED
    BY <2>1, <2>2, <2>3
<1>3. ASSUME NEW at \in All, ~GoesOn(records, mint, at)
      PROVE  w[at] = IF at \in V THEN "valid" ELSE IF at \in M THEN "missing" ELSE "cycle"
  <2>1. (at \in toV <=> at \in V) /\ (at \in toM <=> at \in M)
    BY <1>1, <1>3, LeadToHas, LeadToOnly
  <2> HIDE DEF toV, toM, All, V, M
  <2> QED
    BY <2>1
<1>4. ASSUME NEW at \in All
      PROVE  w[at] = Turn(w, records, mint, at[1], at[2])
  <2> HIDE DEF w, All
  <2> QED
    BY <1>2, <1>3, <1>4, TurnCases DEF V, M
<1>5. w = [at \in All |-> w[at]]
  OBVIOUS
<1>6. w = [at \in All |-> Turn(w, records, mint, at[1], at[2])]
  <2> HIDE DEF w, All
  <2> QED
    BY <1>4, <1>5
<1> QED
  BY <1>6 DEF IsWalk

\* The function the model speaks of is one.
LEMMA TraceIsWalk ==
  ASSUME NEW records, NEW mint, NEW leaf
  PROVE  \E walk : /\ IsWalk(walk, records, mint, leaf)
                   /\ TraceShareChain(records, mint, leaf) = walk[<<{}, leaf>>]
<1> DEFINE w == CHOOSE walk : IsWalk(walk, records, mint, leaf)
<1>1. IsWalk(w, records, mint, leaf)
  BY WalkExists
<1>2. TraceShareChain(records, mint, leaf) = w[<<{}, leaf>>]
  BY DEF TraceShareChain, IsWalk, States
<1> QED
  BY <1>1, <1>2
-----------------------------------------------------------------------------
LEMMA WalkGoesOn ==
  ASSUME NEW records, NEW mint, NEW leaf, NEW walk, IsWalk(walk, records, mint, leaf),
         NEW at \in States(records, leaf)
  PROVE  walk[at] = IF GoesOn(records, mint, at) THEN walk[Onward(records, mint, at)]
                    ELSE IF EndsValid(records, mint, at) THEN "valid"
                    ELSE IF EndsMissing(records, mint, at) THEN "missing" ELSE "cycle"
<1>1. walk[at] = Turn(walk, records, mint, at[1], at[2])
  BY DEF IsWalk
<1> QED
  BY <1>1, TurnCases

\* A state of the finite walk whose answer is "valid" leads to one that
\* returns it: going on visits more, and there is only so much to visit.
LEMMA ValidLeads ==
  ASSUME NEW records, NEW mint, NEW leaf, IsFiniteSet(Visitable(records, leaf)),
         NEW walk, IsWalk(walk, records, mint, leaf),
         NEW at \in States(records, leaf), walk[at] = "valid"
  PROVE  at \in LeadTo(records, mint, leaf,
                      {g \in States(records, leaf) : EndsValid(records, mint, g)})
<1> DEFINE All == States(records, leaf)
           V == Visitable(records, leaf)
           E == {g \in All : EndsValid(records, mint, g)}
           Good == LeadTo(records, mint, leaf, E)
           Bad == {g \in All : walk[g] = "valid" /\ g \notin Good}
           Left == {V \ g[1] : g \in Bad}
           R == StrictSubsetOrdering(V)
<1> SUFFICES ASSUME at \notin Good PROVE FALSE
  OBVIOUS
<1>1. IsWellFoundedOn(R, FiniteSubsetsOf(V))
  BY FS_StrictSubsetOrderingWellFounded
<1>2. Left \in SUBSET FiniteSubsetsOf(V)
  <2>1. FiniteSubsetsOf(V) = SUBSET V
    BY FS_FiniteSubsetsOfFinite
  <2> QED
    BY <2>1
<1>3. Left # {}
  OBVIOUS
<1>4. PICK left \in Left : \A other \in Left : ~(<<other, left>> \in R)
  <2> HIDE DEF Left, R, V
  <2> QED
    BY <1>1, <1>2, <1>3, WFMin
<1>5. PICK g \in Bad : left = V \ g[1]
  OBVIOUS
<1>6. E \in SUBSET All /\ g \in All /\ g \notin Good /\ walk[g] = "valid"
  OBVIOUS
<1>7. E \subseteq Good
  BY <1>6, LeadToHas
<1>8. GoesOn(records, mint, g)
  BY <1>6, <1>7, WalkGoesOn
<1>9. Onward(records, mint, g) \in Bad
  <2>1. Onward(records, mint, g) \in All
    BY <1>6, <1>8, OnwardType
  <2>2. Onward(records, mint, g) \notin Good
    BY <1>6, <1>8, LeadToHas
  <2>3. walk[Onward(records, mint, g)] = "valid"
    BY <1>6, <1>8, WalkGoesOn
  <2> QED
    BY <2>1, <2>2, <2>3
<1>10. V \ Onward(records, mint, g)[1] \in Left
  BY <1>9
<1>11. g[2] \in V \ g[1] /\ Onward(records, mint, g)[1] = g[1] \cup {g[2]}
  BY <1>6, <1>8 DEF States, GoesOn, Onward
<1>12. <<V \ Onward(records, mint, g)[1], left>> \in R
  <2>1. V \ Onward(records, mint, g)[1] \subseteq left
    BY <1>5, <1>11
  <2>2. V \ Onward(records, mint, g)[1] # left
    BY <1>5, <1>11
  <2> QED
    BY <1>5, <2>1, <2>2 DEF StrictSubsetOrdering
<1> QED
  BY <1>4, <1>10, <1>12

\* Finitely many records have finitely many outpoints.
LEMMA VisitableFinite ==
  ASSUME NEW records, NEW leaf, IsFiniteSet(records)
  PROVE  IsFiniteSet(Visitable(records, leaf))
<1> DEFINE A == {s.transferTxid : s \in records}
           B == {s.parentTxid : s \in records}
<1>1. [s \in records |-> s.transferTxid] \in Surjection(records, A)
  BY DEF Surjection
<1>2. [s \in records |-> s.parentTxid] \in Surjection(records, B)
  BY DEF Surjection
<1>3. IsFiniteSet(A) /\ IsFiniteSet(B)
  BY <1>1, <1>2, FS_Surjection
<1>4. IsFiniteSet({leaf})
  BY FS_Singleton
<1> HIDE DEF A, B
<1>5. IsFiniteSet({leaf} \cup A)
  BY <1>3, <1>4, FS_Union
<1>6. IsFiniteSet(({leaf} \cup A) \cup B)
  BY <1>3, <1>5, FS_Union
<1> QED
  BY <1>6 DEF Visitable, A, B

\* Where the walk goes on to is the parent of a record that made the
\* outpoint it is at, or the change beside it.
LEMMA BehindMade ==
  ASSUME NEW records, NEW mint, NEW at, WellFormed(records, mint), GoesOn(records, mint, at),
         at[2] = <<at[2][1], at[2][2]>>
  PROVE  LET s == RecordBehind(records, mint, at[2])
         IN  s \in records /\ (s.transferTxid = at[2] \/ <<s.transferTxid[1], 1>> = at[2])
<1>1. CASE HasRecord(records, at[2])
  BY <1>1, RecordOfIt DEF RecordBehind
<1>2. CASE ~HasRecord(records, at[2])
  <2>1. at[2][2] = 1 /\ HasRecord(records, <<at[2][1], 0>>)
    BY <1>2 DEF GoesOn, IsChangeOfRecord, TransferBeside
  <2>2. RecordBehind(records, mint, at[2]) = RecordOf(records, <<at[2][1], 0>>)
    BY <1>2 DEF RecordBehind, TransferBeside
  <2>3. /\ RecordBehind(records, mint, at[2]) \in records
        /\ RecordBehind(records, mint, at[2]).transferTxid = <<at[2][1], 0>>
    BY <2>1, <2>2, RecordOfIt
  <2> QED
    BY <2>1, <2>3
<1> QED
  BY <1>1, <1>2
-----------------------------------------------------------------------------
\* traceShareChain(leaf) accepts only what descends from the mint: whatever
\* holds the leaf and is closed holds what the walk visits up to the mint.
LEMMA TracedDescends ==
  ASSUME NEW records, IsFiniteSet(records), NEW mint, NEW leaf, NEW U,
         WellFormed(records, mint), leaf = <<leaf[1], leaf[2]>>,
         \A s \in records : s.parentTxid = <<s.parentTxid[1], s.parentTxid[2]>>,
         IsTraced(records, mint, leaf)
  PROVE  Descends(records, mint, leaf, U)
<1> SUFFICES ASSUME NEW S \in SUBSET U, leaf \in S, Closed(records, S)
             PROVE  mint \in S
  BY DEF Descends
<1> DEFINE All == States(records, leaf)
           E == {g \in All : EndsValid(records, mint, g)}
           G == {g \in All : g[2] \in S => mint \in S}
<1>1. PICK walk : /\ IsWalk(walk, records, mint, leaf)
                  /\ TraceShareChain(records, mint, leaf) = walk[<<{}, leaf>>]
  BY TraceIsWalk
<1>2. IsFiniteSet(Visitable(records, leaf))
  BY VisitableFinite
<1>3. <<{}, leaf>> \in LeadTo(records, mint, leaf, E)
  BY <1>1, <1>2, FirstState, ValidLeads DEF IsTraced
<1>4. ASSUME NEW g \in All PROVE g[2] = <<g[2][1], g[2][2]>>
  <2>1. g[2] \in Visitable(records, leaf)
    BY DEF States
  <2> QED
    BY <2>1 DEF Visitable, WellFormed
<1>5. ASSUME NEW g \in E PROVE g \in G
  <2>1. CASE ~HasRecord(records, g[2])
    BY <2>1 DEF EndsValid
  <2>2. CASE HasRecord(records, g[2])
    <3>1. RecordOf(records, g[2]) \in records /\ RecordOf(records, g[2]).transferTxid = g[2]
      BY <2>2, RecordOfIt
    <3>2. RecordOf(records, g[2]).parentTxid = mint
      BY <2>2 DEF EndsValid
    <3> QED
      BY <3>1, <3>2 DEF Closed
  <2> QED
    BY <2>1, <2>2
<1>6. ASSUME NEW g \in All, GoesOn(records, mint, g), Onward(records, mint, g) \in G
      PROVE  g \in G
  <2> DEFINE s == RecordBehind(records, mint, g[2])
  <2>1. s \in records /\ (s.transferTxid = g[2] \/ <<s.transferTxid[1], 1>> = g[2])
    BY <1>4, <1>6, BehindMade
  <2>2. g[2] \in S => s.parentTxid \in S
    BY <2>1 DEF Closed
  <2>3. Onward(records, mint, g)[2] = s.parentTxid
    BY DEF Onward
  <2> QED
    BY <1>6, <2>2, <2>3
<1>7. <<{}, leaf>> \in G
  <2>1. E \subseteq G /\ G \subseteq States(records, leaf)
    BY <1>5
  <2> HIDE DEF E, G
  <2> QED
    BY <1>3, <1>6, <2>1 DEF LeadTo
<1> QED
  BY <1>7

\* What is reached is closed under going on.
LEMMA ReachedGoesOn ==
  ASSUME NEW records, NEW mint, NEW leaf
  PROVE  /\ Reached(records, mint, leaf) \subseteq States(records, leaf)
         /\ <<{}, leaf>> \in Reached(records, mint, leaf)
         /\ \A at \in Reached(records, mint, leaf) :
              GoesOn(records, mint, at)
              => Onward(records, mint, at) \in Reached(records, mint, leaf)
<1>1. Reached(records, mint, leaf) \subseteq States(records, leaf)
  BY DEF Reached
<1>2. <<{}, leaf>> \in Reached(records, mint, leaf)
  BY FirstState DEF Reached
<1>3. ASSUME NEW at \in Reached(records, mint, leaf), GoesOn(records, mint, at)
      PROVE  Onward(records, mint, at) \in Reached(records, mint, leaf)
  <2>1. Onward(records, mint, at) \in States(records, leaf)
    BY <1>1, <1>3, OnwardType
  <2> QED
    BY <1>3, <2>1 DEF Reached
<1> QED
  BY <1>1, <1>2, <1>3

\* All states that are reached have the answer of the first, and what they
\* visited was reached before it was visited.
LEMMA ReachedAlike ==
  ASSUME NEW records, NEW mint, NEW leaf, NEW walk, IsWalk(walk, records, mint, leaf),
         NEW at \in Reached(records, mint, leaf)
  PROVE  /\ walk[at] = walk[<<{}, leaf>>]
         /\ \A c \in at[1] : \E v : c \notin v /\ <<v, c>> \in Reached(records, mint, leaf)
<1> DEFINE R == Reached(records, mint, leaf)
           Fresh(g) == \A c \in g[1] : \E v : c \notin v /\ <<v, c>> \in R
           G == {g \in R : walk[g] = walk[<<{}, leaf>>] /\ Fresh(g)}
<1>1. G \subseteq States(records, leaf) /\ <<{}, leaf>> \in G
  BY ReachedGoesOn
<1>2. ASSUME NEW g \in G, GoesOn(records, mint, g) PROVE Onward(records, mint, g) \in G
  <2>1. g \in R /\ g \in States(records, leaf) /\ Onward(records, mint, g) \in R
    BY <1>2, ReachedGoesOn
  <2>2. walk[Onward(records, mint, g)] = walk[<<{}, leaf>>]
    BY <1>2, <2>1, WalkGoesOn
  <2>3. g = <<g[1], g[2]>> /\ g[2] \notin g[1] /\ Onward(records, mint, g)[1] = g[1] \cup {g[2]}
    BY <1>2, <2>1 DEF States, GoesOn, Onward
  <2>4. Fresh(Onward(records, mint, g))
    <3> SUFFICES ASSUME NEW c \in g[1] \cup {g[2]}
                 PROVE  \E v : c \notin v /\ <<v, c>> \in R
      BY <2>3
    <3>1. CASE c = g[2]
      BY <2>1, <2>3, <3>1
    <3>2. CASE c \in g[1]
      BY <3>2
    <3> QED
      BY <3>1, <3>2
  <2> HIDE DEF Fresh, R
  <2> QED
    BY <2>1, <2>2, <2>4
<1>3. at \in G
  <2> HIDE DEF G
  <2> QED
    BY <1>1, <1>2 DEF Reached
<1> QED
  BY <1>3

\* And it accepts whatever does: the outpoints that a walk without that
\* answer reaches are closed, and the mint is not among them.
LEMMA DescendsTraced ==
  ASSUME NEW records, NEW mint, NEW leaf, NEW U,
         WellFormed(records, mint), Visitable(records, leaf) \subseteq U,
         Descends(records, mint, leaf, U)
  PROVE  IsTraced(records, mint, leaf)
<1> SUFFICES ASSUME ~IsTraced(records, mint, leaf) PROVE FALSE
  OBVIOUS
<1>1. PICK walk : /\ IsWalk(walk, records, mint, leaf)
                  /\ TraceShareChain(records, mint, leaf) = walk[<<{}, leaf>>]
  BY TraceIsWalk
<1> DEFINE R == Reached(records, mint, leaf)
           S == {c \in Visitable(records, leaf) : \E v : <<v, c>> \in R}
<1>2. R \subseteq States(records, leaf) /\ <<{}, leaf>> \in R
  BY ReachedGoesOn
<1>3. ASSUME NEW c \in S
      PROVE  \E v : /\ c \notin v /\ <<v, c>> \in R
                    /\ walk[<<v, c>>] # "valid" /\ <<v, c>> \in States(records, leaf)
  <2>1. PICK u : <<u, c>> \in R
    OBVIOUS
  <2>2. \E v : c \notin v /\ <<v, c>> \in R
    BY <1>1, <2>1, ReachedAlike
  <2> QED
    BY <1>1, <1>2, <2>2, ReachedAlike DEF IsTraced
<1>4. S \in SUBSET U /\ leaf \in S
  BY <1>2 DEF Visitable
<1>5. mint \notin S
  <2> SUFFICES ASSUME mint \in S PROVE FALSE
    OBVIOUS
  <2>1. PICK v : /\ mint \notin v /\ walk[<<v, mint>>] # "valid"
                 /\ <<v, mint>> \in States(records, leaf)
    BY <1>3
  <2>2. ~HasRecord(records, mint)
    BY DEF HasRecord, WellFormed
  <2>3. EndsValid(records, mint, <<v, mint>>) /\ ~GoesOn(records, mint, <<v, mint>>)
    BY <2>1, <2>2 DEF EndsValid, GoesOn
  <2> QED
    BY <1>1, <2>1, <2>3, WalkGoesOn
<1>6. ASSUME NEW s \in records, NEW c \in S, s.transferTxid = c \/ <<s.transferTxid[1], 1>> = c
      PROVE  s.parentTxid \in S
  <2>1. PICK v : /\ c \notin v /\ <<v, c>> \in R
                 /\ walk[<<v, c>>] # "valid" /\ <<v, c>> \in States(records, leaf)
    BY <1>3
  <2>2. ~EndsValid(records, mint, <<v, c>>)
    BY <1>1, <2>1, EndsOnce, WalkGoesOn
  <2>3. GoesOn(records, mint, <<v, c>>) /\ RecordBehind(records, mint, c) = s
    <3>1. CASE s.transferTxid = c
      <4>1. HasRecord(records, c) /\ RecordOf(records, c) = s
        BY <3>1, RecordOfIt DEF HasRecord, WellFormed
      <4> QED
        BY <2>1, <2>2, <4>1 DEF GoesOn, EndsValid, RecordBehind
    <3>2. CASE <<s.transferTxid[1], 1>> = c
      <4>1. c[1] = s.transferTxid[1] /\ c[2] = 1
        BY <3>2
      <4>2. TransferBeside(c) = s.transferTxid
        BY <4>1 DEF TransferBeside, WellFormed
      <4>3. HasRecord(records, s.transferTxid) /\ RecordOf(records, s.transferTxid) = s
        BY RecordOfIt DEF HasRecord, WellFormed
      <4>4. ~HasRecord(records, c) /\ c # mint
        BY <4>1 DEF HasRecord, WellFormed
      <4>5. IsChangeOfRecord(records, c) /\ RecordBehind(records, mint, c) = s
        BY <4>1, <4>2, <4>3, <4>4 DEF IsChangeOfRecord, RecordBehind
      <4> QED
        BY <2>1, <4>4, <4>5 DEF GoesOn
    <3> QED
      BY <1>6, <3>1, <3>2
  <2>4. Onward(records, mint, <<v, c>>) = <<v \cup {c}, s.parentTxid>>
    BY <2>3 DEF Onward
  <2>5. <<v \cup {c}, s.parentTxid>> \in R
    BY <2>1, <2>3, <2>4, ReachedGoesOn
  <2> QED
    BY <1>2, <2>5 DEF Visitable
<1>7. Closed(records, S)
  <2> HIDE DEF S
  <2> QED
    BY <1>6 DEF Closed
<1> QED
  BY <1>4, <1>5, <1>7 DEF Descends
-----------------------------------------------------------------------------
\* However the records of a property look, with gaps, cycles and change
\* outputs, traceShareChain (shareChain.ts:23) accepts an outpoint exactly
\* when the mint is among its ancestors.
THEOREM TraceFinds ==
  ASSUME NEW records, IsFiniteSet(records), NEW mint, NEW leaf, NEW U,
         WellFormed(records, mint), leaf = <<leaf[1], leaf[2]>>,
         \A s \in records : s.parentTxid = <<s.parentTxid[1], s.parentTxid[2]>>,
         Visitable(records, leaf) \subseteq U
  PROVE  IsTraced(records, mint, leaf) <=> Descends(records, mint, leaf, U)
BY TracedDescends, DescendsTraced

\* More records have the same leaves descend from the mint, and others too.
LEMMA DescendsMonotone ==
  ASSUME NEW records, NEW more, records \subseteq more, NEW mint, NEW leaf, NEW U,
         Descends(records, mint, leaf, U)
  PROVE  Descends(more, mint, leaf, U)
PROOF BY DEF Descends, Closed

\* An outpoint descends from the mint when its ancestors do not run in
\* circles: each that was issued is the mint, or was made by a record from
\* one that was issued and ranks lower.
LEMMA RankedDescends ==
  ASSUME NEW records, NEW mint, NEW leaf, NEW U, NEW issued, leaf \in issued,
         NEW rank \in [issued -> Nat],
         \A o \in issued :
           o = mint \/ \E s \in records : /\ o = s.transferTxid \/ o = <<s.transferTxid[1], 1>>
                                         /\ s.parentTxid \in issued
                                         /\ rank[s.parentTxid] < rank[o]
  PROVE  Descends(records, mint, leaf, U)
<1> SUFFICES ASSUME NEW S \in SUBSET U, leaf \in S, Closed(records, S), mint \notin S
             PROVE  FALSE
  BY DEF Descends
<1> DEFINE Ranks == {rank[o] : o \in S \cap issued}
<1>1. Ranks \in SUBSET Nat /\ Ranks # {}
  OBVIOUS
<1>2. PICK r \in Ranks : \A q \in Ranks : ~(<<q, r>> \in OpToRel(<, Nat))
  <2> HIDE DEF Ranks
  <2> QED
    BY <1>1, NatLessThanWellFounded, WFMin
<1>3. PICK o \in S \cap issued : r = rank[o]
  OBVIOUS
<1>4. PICK s \in records : /\ o = s.transferTxid \/ o = <<s.transferTxid[1], 1>>
                          /\ s.parentTxid \in issued
                          /\ rank[s.parentTxid] < rank[o]
  BY <1>3
<1>5. s.parentTxid \in S \cap issued
  BY <1>3, <1>4 DEF Closed
<1>6. rank[s.parentTxid] \in Ranks /\ rank[s.parentTxid] \in Nat /\ r \in Nat
  BY <1>1, <1>5
<1> QED
  BY <1>2, <1>3, <1>4, <1>6 DEF OpToRel
=============================================================================
