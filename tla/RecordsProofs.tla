---------------------------- MODULE RecordsProofs ----------------------------
(***************************************************************************)
(* Theorems about Records for any number of clients, rows, models and      *)
(* calls, any batch size and any dialect.                                  *)
(***************************************************************************)
EXTENDS Records, SequenceTheorems, FiniteSetTheorems, TLAPS

\* The values that a client holds in its models.
HeldVals(c) == {held[c][k].val : k \in DOMAIN held[c]}

\* What the proofs need of types: the shape of rows and models, no value above
\* the last one given out, and a transaction wherever one is committed.
IsRow(r) == r = [val |-> r.val, del |-> r.del] /\ r.val \in Int /\ r.val <= val
IsModel(m) == m = [id |-> m.id, val |-> m.val, del |-> m.del] /\ m.val \in Int /\ m.val <= val

Shape ==
  /\ val \in Nat
  /\ DOMAIN rows = Ids /\ \A i \in Ids : IsRow(rows[i])
  /\ DOMAIN held = Clients /\ \A c \in Clients : \A k \in DOMAIN held[c] : IsModel(held[c][k])
  /\ \A c \in Clients : Len(held[c]) \in Nat /\ DOMAIN held[c] = 1 .. Len(held[c])
  /\ DOMAIN undo = Clients
  /\ \A c \in Clients : \A i \in DOMAIN undo[c] : i \in Ids /\ IsRow(undo[c][i])
  /\ DOMAIN pc = Clients /\ DOMAIN op = Clients /\ DOMAIN at = Clients
  /\ DOMAIN tx = Clients /\ DOMAIN aborted = Clients
  /\ mine \in [Clients -> SUBSET (1 .. val)]
  /\ undone \subseteq 1 .. val
  /\ \A c \in Clients : pc[c] = "commit" => tx[c] # "none"
  /\ \A c \in Clients : pc[c] = "idle" /\ tx[c] = "none" => mine[c] = {}

\* A value that an open transaction has at stake is in no row but those it has
\* locked, in nothing that a transaction would put back, and in no model of
\* another client.
AtStake ==
  \A c \in Clients : tx[c] # "none" =>
    /\ \A i \in Ids : rows[i].val \in mine[c] => i \in DOMAIN undo[c]
    /\ \A d \in Clients : \A i \in DOMAIN undo[d] : undo[d][i].val \notin mine[c]
    /\ \A d \in Clients \ {c} : HeldVals(d) \cap mine[c] = {}

\* A value undone is in no row, in nothing that would be put back, in no model
\* of a call under way, and in the models of one client at most.
Undone ==
  /\ UndoneLeavesNoTrace
  /\ \A d \in Clients : \A i \in DOMAIN undo[d] : undo[d][i].val \notin undone
  /\ \A c \in Clients : pc[c] \in {"before", "marked", "after"} => HeldVals(c) \cap undone = {}
  /\ \A c, d \in Clients : c # d => HeldVals(c) \cap HeldVals(d) \cap undone = {}

ValueInv == Shape /\ AtStake /\ Undone

\* The length of a sequence given element by element.
LEMMA LenOfFunction ==
  ASSUME NEW n \in Nat, NEW s, DOMAIN s = 1 .. n, s = [k \in DOMAIN s |-> s[k]]
  PROVE  Len(s) = n
<1> DEFINE S == {s[k] : k \in 1 .. n}
<1>1. s \in [1 .. n -> S]
    OBVIOUS
<1>2. s \in Seq(S)
    BY <1>1, SeqDef
<1>3. Len(s) \in Nat /\ 1 .. Len(s) = 1 .. n
    BY <1>2, LenProperties
<1> QED BY <1>3

LEMMA InitValues == Init => ValueInv
<1> SUFFICES ASSUME Init PROVE ValueInv
    OBVIOUS
<1> USE DEF Init, HeldVals
<1>1. \A i \in Ids : rows[i].val \in {0, -1}
    BY DEF NoRow
<1>2. Shape
    <2>1. \A i \in Ids : IsRow(rows[i])
        <3>1. \A i \in Ids : rows[i] = [val |-> rows[i].val, del |-> rows[i].del]
            BY DEF NoRow
        <3>2. \A i \in Ids : rows[i].val \in Int /\ rows[i].val <= val
            BY <1>1
        <3> QED BY ONLY <3>1, <3>2 DEF IsRow
    <2>2. mine \in [Clients -> SUBSET (1 .. val)] /\ undone \subseteq 1 .. val
        OBVIOUS
    <2> QED BY <2>1, <2>2 DEF Shape
<1>3. AtStake
    BY DEF AtStake
<1>4. Undone
    BY DEF Undone, UndoneLeavesNoTrace
<1> QED BY <1>2, <1>3, <1>4 DEF ValueInv

\* A call begins with values at stake that are new, or that were undone and
\* are in the client's own models: nothing visible has them.
LEMMA CallEffect ==
  ASSUME ValueInv, NEW c \in Clients, NEW M, pc[c] = "idle",
         rows' = rows, undo' = undo, pc' = [pc EXCEPT ![c] = "before"],
         DOMAIN op' = Clients, DOMAIN at' = Clients, DOMAIN aborted' = Clients,
         DOMAIN tx' = Clients, \A x \in Clients \ {c} : tx'[x] = tx[x],
         tx'[c] = tx[c] \/ (tx[c] = "none" /\ tx'[c] = "own"),
         val' \in Nat, val' >= val, M \subseteq 1 .. val',
         mine' = [mine EXCEPT ![c] = @ \cup M], undone' = undone \ M,
         DOMAIN held' = Clients, \A x \in Clients \ {c} : held'[x] = held[x],
         Len(held'[c]) \in Nat, DOMAIN held'[c] = 1 .. Len(held'[c]),
         \A k \in DOMAIN held'[c] : IsModel(held[c][k])',
         HeldVals(c)' \cap undone' = {},
         \/ (\A v \in M : v > val) /\ HeldVals(c)' \subseteq M
         \/ M = undone \cap HeldVals(c) /\ HeldVals(c)' = HeldVals(c)
  PROVE  ValueInv'
<1> USE DEF ValueInv
<1>1. Shape'
    <2>1. \A i \in Ids : IsRow(rows[i])'
        BY DEF Shape, IsRow
    <2>2. \A d \in Clients : \A i \in DOMAIN undo'[d] : i \in Ids /\ IsRow(undo[d][i])'
        BY DEF Shape, IsRow
    <2>3. \A d \in Clients : \A k \in DOMAIN held'[d] : IsModel(held[d][k])'
        <3>1. \A d \in Clients \ {c} : \A k \in DOMAIN held'[d] : IsModel(held[d][k])'
            BY DEF Shape, IsModel
        <3> QED BY <3>1
    <2>4. mine' \in [Clients -> SUBSET (1 .. val')] /\ undone' \subseteq 1 .. val'
        <3>1. 1 .. val \subseteq 1 .. val'
            BY DEF Shape
        <3>2. undone \subseteq 1 .. val /\ mine \in [Clients -> SUBSET (1 .. val)]
            BY DEF Shape
        <3> QED BY <3>1, <3>2
    <2>5. /\ DOMAIN pc' = Clients /\ DOMAIN tx' = Clients
          /\ \A x \in Clients : pc'[x] = "commit" => tx'[x] # "none"
          /\ \A x \in Clients : pc'[x] = "idle" /\ tx'[x] = "none" => mine'[x] = {}
        BY DEF Shape
    <2> QED BY <2>1, <2>2, <2>3, <2>4, <2>5 DEF Shape
<1>2. \A x \in Clients : HeldVals(x) \subseteq Int /\ \A v \in HeldVals(x) : v <= val
    BY DEF Shape, IsModel, HeldVals
<1>3. \A x \in Clients \ {c} : HeldVals(x)' = HeldVals(x)
    BY DEF HeldVals
\* The values added to those at stake.
<1>4. ASSUME NEW v \in M
      PROVE  /\ \A i \in Ids : rows[i].val # v
             /\ \A d \in Clients : \A i \in DOMAIN undo[d] : undo[d][i].val # v
             /\ \A d \in Clients \ {c} : v \notin HeldVals(d)
    <2>1. CASE v > val
        BY <1>2, <2>1 DEF Shape, IsRow
    <2>2. CASE v \in undone \cap HeldVals(c)
        BY <2>2 DEF Undone, UndoneLeavesNoTrace
    <2> QED BY <2>1, <2>2
<1>5. ASSUME NEW e \in Clients, tx'[e] # "none"
      PROVE  /\ \A i \in Ids : rows'[i].val \in mine'[e] => i \in DOMAIN undo'[e]
             /\ \A d \in Clients : \A i \in DOMAIN undo'[d] : undo'[d][i].val \notin mine'[e]
             /\ \A d \in Clients \ {e} : HeldVals(d)' \cap mine'[e] = {}
    <2>1. CASE e = c
        <3>1. mine'[c] = mine[c] \cup M
            BY DEF Shape
        <3>2. tx[c] # "none" \/ mine[c] = {}
            BY DEF Shape
        <3>3. \A i \in Ids : rows[i].val \in mine[c] \cup M => i \in DOMAIN undo[c]
            BY ONLY ValueInv, <1>4, <3>2 DEF ValueInv, AtStake
        <3>4. \A d \in Clients : \A i \in DOMAIN undo[d] : undo[d][i].val \notin mine[c] \cup M
            BY ONLY ValueInv, <1>4, <3>2 DEF ValueInv, AtStake
        <3>5. \A d \in Clients \ {c} : HeldVals(d) \cap (mine[c] \cup M) = {}
            BY ONLY ValueInv, <1>4, <3>2 DEF ValueInv, AtStake
        <3> QED BY <1>3, <2>1, <3>1, <3>3, <3>4, <3>5
    <2>2. CASE e # c
        <3>1. mine'[e] = mine[e] /\ tx[e] # "none"
            BY <1>5, <2>2 DEF Shape
        <3>2. HeldVals(c)' \cap mine[e] = {}
            <4>1. HeldVals(c) \cap mine[e] = {}
                BY <2>2, <3>1 DEF AtStake
            <4>2. \A v \in mine[e] : v <= val /\ v \in Int
                BY DEF Shape
            <4>3. M \subseteq Int /\ val \in Int
                BY DEF Shape
            <4> QED BY <4>1, <4>2, <4>3
        <3> QED BY <1>3, <2>2, <3>1, <3>2 DEF AtStake
    <2> QED BY <2>1, <2>2
<1>6. undone' \subseteq undone
    OBVIOUS
<1>7. ASSUME NEW x \in Clients, pc'[x] \in {"before", "marked", "after"}
      PROVE  HeldVals(x)' \cap undone' = {}
    <2>1. CASE x # c
        BY <1>3, <1>6, <1>7, <2>1 DEF Undone, Shape
    <2> QED BY <2>1
<1>8. ASSUME NEW x \in Clients, NEW d \in Clients, x # d
      PROVE  HeldVals(x)' \cap HeldVals(d)' \cap undone' = {}
    BY <1>3, <1>6, <1>8 DEF Undone
<1>9. Undone'
    BY <1>6, <1>7, <1>8 DEF Undone, UndoneLeavesNoTrace
<1> QED BY <1>1, <1>5, <1>9 DEF AtStake

\* A statement writes values of the client's models, values that the rows had
\* before, or removes rows; its transaction keeps what was there.
LEMMA WriteEffect ==
  ASSUME ValueInv, NEW c \in Clients, NEW new, Write(c, new),
         pc[c] \in {"before", "marked"},
         \A i \in DOMAIN new :
           /\ i \in Ids /\ IsRow(new[i])
           /\ new[i].val = -1 \/ new[i].val \in HeldVals(c) \/ new[i].val = rows[i].val,
         DOMAIN held' = Clients, \A x \in Clients \ {c} : held'[x] = held[x],
         Len(held'[c]) \in Nat, DOMAIN held'[c] = 1 .. Len(held'[c]),
         \A k \in DOMAIN held'[c] : IsModel(held[c][k])',
         HeldVals(c)' = HeldVals(c)
  PROVE  ValueInv'
<1> USE DEF ValueInv
<1>1. /\ rows' = [i \in Ids |-> IF i \in DOMAIN new THEN new[i] ELSE rows[i]]
      /\ \A x \in Clients \ {c} : undo'[x] = undo[x]
      /\ pc' = [pc EXCEPT ![c] = "after"]
      /\ UNCHANGED <<op, at, tx, aborted, val, mine, undone>>
      /\ DOMAIN new \cap Locked(c) = {}
      /\ DOMAIN undo' = Clients
      /\ undo'[c] = IF tx[c] = "none" THEN undo[c] ELSE
           [i \in DOMAIN undo[c] \cup DOMAIN new |->
              IF i \in DOMAIN undo[c] THEN undo[c][i] ELSE rows[i]]
    BY DEF Write, Shape
<1>2. \A d \in Clients : \A i \in DOMAIN undo'[d] :
        \/ i \in DOMAIN undo[d] /\ undo'[d][i] = undo[d][i]
        \/ /\ d = c /\ i \in DOMAIN new /\ i \in Ids /\ i \notin DOMAIN undo[d]
           /\ undo'[d][i] = rows[i]
    BY <1>1
<1>3. \A i \in Ids : \/ i \in DOMAIN new /\ rows'[i] = new[i]
                     \/ i \notin DOMAIN new /\ rows'[i] = rows[i]
    BY <1>1
<1>4. Shape'
    <2>1. DOMAIN rows' = Ids /\ \A i \in Ids : IsRow(rows[i])'
        BY <1>1 DEF Shape, IsRow
    <2>2. \A d \in Clients : \A i \in DOMAIN undo'[d] : i \in Ids /\ IsRow(undo[d][i])'
        BY <1>1, <1>2 DEF Shape, IsRow
    <2>3. \A d \in Clients : \A k \in DOMAIN held'[d] : IsModel(held[d][k])'
        <3>1. \A d \in Clients \ {c} : \A k \in DOMAIN held'[d] : IsModel(held[d][k])'
            BY <1>1 DEF Shape, IsModel
        <3> QED BY <3>1
    <2> QED BY <1>1, <2>1, <2>2, <2>3 DEF Shape
<1>5. \A x \in Clients : HeldVals(x)' = HeldVals(x)
    <2>1. \A x \in Clients \ {c} : HeldVals(x)' = HeldVals(x)
        BY DEF HeldVals
    <2> QED BY <2>1
<1>6. -1 \notin undone /\ \A e \in Clients : -1 \notin mine[e]
    BY DEF Shape
<1>7. ASSUME NEW e \in Clients, tx[e] # "none"
      PROVE  /\ \A i \in Ids : rows'[i].val \in mine[e] => i \in DOMAIN undo'[e]
             /\ \A d \in Clients : \A i \in DOMAIN undo'[d] : undo'[d][i].val \notin mine[e]
    <2>1. DOMAIN undo[e] \subseteq DOMAIN undo'[e]
        BY <1>1
    <2>2. e = c => DOMAIN new \subseteq DOMAIN undo'[e]
        BY <1>1, <1>7
    <2>3. ASSUME NEW i \in Ids, rows'[i].val \in mine[e]
          PROVE  i \in DOMAIN undo'[e]
        <3>1. CASE i \notin DOMAIN new \/ new[i].val = rows[i].val
            BY <1>3, <1>7, <2>1, <2>3, <3>1 DEF AtStake
        <3>2. CASE i \in DOMAIN new /\ new[i].val \in HeldVals(c)
            BY <1>3, <1>7, <2>2, <2>3, <3>2 DEF AtStake
        <3> QED BY <1>3, <1>6, <2>3, <3>1, <3>2
    <2>4. ASSUME NEW d \in Clients, NEW i \in DOMAIN undo'[d]
          PROVE  undo'[d][i].val \notin mine[e]
        <3>1. CASE i \in DOMAIN undo[d] /\ undo'[d][i] = undo[d][i]
            BY <1>7, <3>1 DEF AtStake
        <3>2. CASE /\ d = c /\ i \in DOMAIN new /\ i \in Ids /\ i \notin DOMAIN undo[d]
                   /\ undo'[d][i] = rows[i]
            <4> SUFFICES ASSUME rows[i].val \in mine[e] PROVE FALSE
                BY <3>2
            <4>1. i \in DOMAIN undo[e]
                BY <1>7, <3>2 DEF AtStake
            <4>2. e = c
                BY <1>1, <3>2, <4>1 DEF Locked
            <4> QED BY <3>2, <4>1, <4>2
        <3> QED BY <1>2, <3>1, <3>2
    <2> QED BY <2>3, <2>4
<1>8. AtStake'
    BY <1>1, <1>5, <1>7 DEF AtStake
<1>9. Undone'
    <2>1. \A i \in Ids : rows'[i].val \notin undone
        BY <1>3, <1>6 DEF Undone, UndoneLeavesNoTrace
    <2>2. \A d \in Clients : \A i \in DOMAIN undo'[d] : undo'[d][i].val \notin undone
        BY <1>2 DEF Undone, UndoneLeavesNoTrace
    <2>3. \A x \in Clients : pc'[x] \in {"before", "marked", "after"} =>
                               pc[x] \in {"before", "marked", "after"}
        BY <1>1 DEF Shape
    <2> QED BY <1>1, <1>5, <2>1, <2>2, <2>3 DEF Undone, UndoneLeavesNoTrace
<1> QED BY <1>4, <1>8, <1>9

\* A transaction is rolled back: the rows it had locked get back what they had,
\* which no open transaction has at stake, and its values are in none of them.
LEMMA RollbackEffect ==
  ASSUME ValueInv, NEW c \in Clients, Rollback(c), tx[c] # "none",
         held' = held, val' = val, DOMAIN op' = Clients, DOMAIN at' = Clients,
         DOMAIN pc' = Clients, \A x \in Clients : pc'[x] = IF x = c THEN "idle" ELSE pc[x]
  PROVE  ValueInv'
<1> USE DEF ValueInv
<1>1. /\ rows' = [i \in Ids |-> IF i \in DOMAIN undo[c] THEN undo[c][i] ELSE rows[i]]
      /\ undone' = undone \cup mine[c]
      /\ tx' = [tx EXCEPT ![c] = "none"]
      /\ undo' = [undo EXCEPT ![c] = << >>]
      /\ aborted' = [aborted EXCEPT ![c] = FALSE]
      /\ mine' = [mine EXCEPT ![c] = {}]
    BY DEF Rollback, EndTx
<1>2. \A d \in Clients : undo'[d] = undo[d] \/ undo'[d] = << >>
    BY <1>1 DEF Shape
<1>3. \A x \in Clients : HeldVals(x)' = HeldVals(x)
    BY DEF HeldVals
<1>4. Shape'
    <2>1. DOMAIN rows' = Ids /\ \A i \in Ids : IsRow(rows[i])'
        BY <1>1 DEF Shape, IsRow
    <2>2. \A d \in Clients : \A i \in DOMAIN undo'[d] : i \in Ids /\ IsRow(undo[d][i])'
        <3>1. \A d \in Clients : \A i \in DOMAIN undo'[d] : i \in DOMAIN undo[d] /\ undo'[d] = undo[d]
            BY <1>2
        <3> QED BY <3>1 DEF Shape, IsRow
    <2>3. \A d \in Clients : \A k \in DOMAIN held'[d] : IsModel(held[d][k])'
        BY DEF Shape, IsModel
    <2>4. mine' \in [Clients -> SUBSET (1 .. val')] /\ undone' \subseteq 1 .. val'
        BY <1>1 DEF Shape
    <2>5. /\ \A x \in Clients : pc'[x] = "commit" => tx'[x] # "none"
          /\ \A x \in Clients : pc'[x] = "idle" /\ tx'[x] = "none" => mine'[x] = {}
        BY <1>1 DEF Shape
    <2> QED BY <1>1, <2>1, <2>2, <2>3, <2>4, <2>5 DEF Shape
<1>5. ASSUME NEW e \in Clients, tx'[e] # "none"
      PROVE  /\ \A i \in Ids : rows'[i].val \in mine'[e] => i \in DOMAIN undo'[e]
             /\ \A d \in Clients : \A i \in DOMAIN undo'[d] : undo'[d][i].val \notin mine'[e]
             /\ \A d \in Clients \ {e} : HeldVals(d)' \cap mine'[e] = {}
    <2>1. e # c /\ mine'[e] = mine[e] /\ tx[e] # "none" /\ undo'[e] = undo[e]
        BY <1>1, <1>5 DEF Shape
    <2> QED BY <1>1, <1>2, <1>3, <2>1 DEF AtStake
<1>6. \A i \in Ids : rows'[i].val \notin undone'
    <2> TAKE i \in Ids
    <2>1. CASE i \in DOMAIN undo[c]
        BY <1>1, <2>1 DEF AtStake, Undone
    <2>2. CASE i \notin DOMAIN undo[c]
        BY <1>1, <2>2 DEF AtStake, Undone, UndoneLeavesNoTrace
    <2> QED BY <2>1, <2>2
<1>7. \A d \in Clients : \A i \in DOMAIN undo'[d] : undo'[d][i].val \notin undone'
    BY <1>1, <1>2 DEF AtStake, Undone
<1>8. \A x \in Clients : pc'[x] \in {"before", "marked", "after"} => HeldVals(x)' \cap undone' = {}
    BY <1>1, <1>3 DEF AtStake, Undone
<1>9. \A x, d \in Clients : x # d => HeldVals(x)' \cap HeldVals(d)' \cap undone' = {}
    <2> TAKE x, d \in Clients
    <2> HAVE x # d
    <2>1. HeldVals(x) \cap HeldVals(d) \cap undone = {}
        BY DEF Undone
    <2>2. HeldVals(x) \cap mine[c] = {} \/ HeldVals(d) \cap mine[c] = {}
        BY DEF AtStake
    <2> QED BY <1>1, <1>3, <2>1, <2>2
<1>10. AtStake' /\ Undone'
    BY <1>5, <1>6, <1>7, <1>8, <1>9 DEF AtStake, Undone, UndoneLeavesNoTrace
<1> QED BY <1>4, <1>10

\* A step that writes no row, undoes nothing and gives no value out: what it
\* may change is which transactions are open and what they have at stake.
LEMMA QuietEffect ==
  ASSUME ValueInv, rows' = rows, undone' = undone, val' = val,
         DOMAIN held' = Clients, DOMAIN undo' = Clients, DOMAIN pc' = Clients,
         DOMAIN op' = Clients, DOMAIN at' = Clients, DOMAIN tx' = Clients,
         DOMAIN aborted' = Clients,
         \A x \in Clients : /\ Len(held'[x]) \in Nat /\ DOMAIN held'[x] = 1 .. Len(held'[x])
                            /\ \A k \in DOMAIN held'[x] : IsModel(held[x][k])',
         \A x \in Clients : HeldVals(x)' = HeldVals(x),
         mine' \in [Clients -> SUBSET (1 .. val)],
         \A x \in Clients :
           /\ undo'[x] = undo[x] \/ undo'[x] = << >>
           /\ tx'[x] # "none" =>
                /\ undo'[x] = undo[x] /\ mine'[x] \subseteq mine[x]
                /\ tx[x] # "none" \/ mine'[x] = {}
           /\ pc'[x] \in {"before", "marked", "after"} => pc[x] \in {"before", "marked", "after"}
           /\ pc'[x] = "commit" => tx'[x] # "none"
           /\ pc'[x] = "idle" /\ tx'[x] = "none" => mine'[x] = {}
  PROVE  ValueInv'
<1> USE DEF ValueInv
<1>1. Shape'
    BY DEF Shape, IsRow
<1>2. ASSUME NEW e \in Clients, tx'[e] # "none"
      PROVE  /\ \A i \in Ids : rows'[i].val \in mine'[e] => i \in DOMAIN undo'[e]
             /\ \A d \in Clients : \A i \in DOMAIN undo'[d] : undo'[d][i].val \notin mine'[e]
             /\ \A d \in Clients \ {e} : HeldVals(d)' \cap mine'[e] = {}
    <2>1. CASE mine'[e] = {}
        BY <2>1
    <2>2. CASE tx[e] # "none" /\ mine'[e] \subseteq mine[e] /\ undo'[e] = undo[e]
        BY <2>2, SMTT(30) DEF AtStake
    <2> QED BY <1>2, <2>1, <2>2
<1>3. Undone'
    BY DEF Undone, UndoneLeavesNoTrace
<1> QED BY <1>1, <1>2, <1>3 DEF AtStake

\* The ids that an INSERT gives change nothing else of the models.
LEMMA SetIDsKeepsData ==
  ASSUME Shape, NEW c \in Clients
  PROVE  /\ DOMAIN SetIDs(c) = DOMAIN held[c]
         /\ \A k \in DOMAIN held[c] :
              /\ SetIDs(c)[k] = [id |-> SetIDs(c)[k].id, val |-> held[c][k].val, del |-> held[c][k].del]
<1> DEFINE n == LastInsertId(c)
<1>1. DOMAIN SetIDs(c) = DOMAIN held[c]
    BY DEF SetIDs
<1>2. ASSUME NEW k \in DOMAIN held[c]
      PROVE  SetIDs(c)[k] = [id |-> SetIDs(c)[k].id, val |-> held[c][k].val, del |-> held[c][k].del]
    <2>1. held[c][k] = [id |-> held[c][k].id, val |-> held[c][k].val, del |-> held[c][k].del]
        BY <1>2 DEF Shape, IsModel
    <2>2. \A j : [held[c][k] EXCEPT !.id = j] = [id |-> j, val |-> held[c][k].val, del |-> held[c][k].del]
        BY <2>1
    <2>3. \/ SetIDs(c)[k] = held[c][k]
          \/ \E j : SetIDs(c)[k] = [held[c][k] EXCEPT !.id = j]
        BY DEF SetIDs
    <2> QED BY <2>1, <2>2, <2>3
<1> QED BY <1>1, <1>2

LEMMA FetchKeepsValues ==
  ASSUME ValueInv, NEW c \in Clients, Fetch(c)
  PROVE  ValueInv'
<1> USE DEF ValueInv
<1>1. /\ UNCHANGED <<table, pc, op, at, txVars, calls, val, history>>
      /\ DOMAIN held' = Clients /\ \A x \in Clients \ {c} : held'[x] = held[x]
    BY DEF Fetch, Shape
\* Whatever a client can see of the table is a committed value or its own.
<1>2. ASSUME NEW i \in Ids
      PROVE  \/ Committed(c, i) = rows[i] /\ i \notin Locked(c)
             \/ \E d \in Clients : i \in DOMAIN undo[d] /\ Committed(c, i) = undo[d][i]
    BY DEF Committed, Locked
<1>3. ASSUME NEW i \in Ids
      PROVE  /\ Committed(c, i).val \in Int /\ Committed(c, i).val <= val
             /\ Committed(c, i).val \notin undone
             /\ \A e \in Clients \ {c} : tx[e] # "none" => Committed(c, i).val \notin mine[e]
    <2>1. CASE Committed(c, i) = rows[i] /\ i \notin Locked(c)
        BY <2>1 DEF Shape, IsRow, Undone, UndoneLeavesNoTrace, AtStake, Locked
    <2>2. ASSUME NEW d \in Clients, i \in DOMAIN undo[d], Committed(c, i) = undo[d][i]
          PROVE  /\ Committed(c, i).val \in Int /\ Committed(c, i).val <= val
                 /\ Committed(c, i).val \notin undone
                 /\ \A e \in Clients \ {c} : tx[e] # "none" => Committed(c, i).val \notin mine[e]
        BY <2>2 DEF Shape, IsRow, Undone, AtStake
    <2> QED BY <1>2, <2>1, <2>2
<1>4. /\ Len(held'[c]) \in Nat /\ DOMAIN held'[c] = 1 .. Len(held'[c])
      /\ \A k \in DOMAIN held'[c] :
           \E i \in Ids : held'[c][k] = [id |-> i, val |-> Committed(c, i).val, del |-> FALSE]
    <2> DEFINE seen == {i \in Ids : Committed(c, i) # NoRow /\ ~Committed(c, i).del}
    <2>1. PICK n \in 1 .. MaxModels : \E ids \in [1 .. n -> seen] :
            held' = [held EXCEPT ![c] =
              [j \in 1 .. n |-> [id |-> ids[j], val |-> Committed(c, ids[j]).val, del |-> FALSE]]]
        BY DEF Fetch
    <2>2. PICK ids \in [1 .. n -> seen] :
            held'[c] =
              [j \in 1 .. n |-> [id |-> ids[j], val |-> Committed(c, ids[j]).val, del |-> FALSE]]
        BY <2>1 DEF Shape
    <2>3. Len(held'[c]) = n /\ n \in Nat
        BY <2>2, LenOfFunction
    <2>4. \A k \in 1 .. n : ids[k] \in Ids
        OBVIOUS
    <2> QED BY <2>2, <2>3, <2>4
<1>5. \A v \in HeldVals(c)' : /\ v \notin undone
                              /\ \A e \in Clients \ {c} : tx[e] # "none" => v \notin mine[e]
    <2> TAKE v \in HeldVals(c)'
    <2>1. PICK k \in DOMAIN held'[c] : v = held'[c][k].val
        BY DEF HeldVals
    <2>2. PICK i \in Ids : held'[c][k] = [id |-> i, val |-> Committed(c, i).val, del |-> FALSE]
        BY <1>4
    <2>3. v = Committed(c, i).val
        BY <2>1, <2>2
    <2> QED BY <1>3, <2>3
<1>6. \A k \in DOMAIN held'[c] : IsModel(held[c][k])'
    <2> TAKE k \in DOMAIN held'[c]
    <2>1. PICK i \in Ids : held'[c][k] = [id |-> i, val |-> Committed(c, i).val, del |-> FALSE]
        BY <1>4
    <2>2. val' = val
        BY <1>1
    <2> QED BY <1>3, <2>1, <2>2 DEF IsModel
<1>7. \A x \in Clients \ {c} : HeldVals(x)' = HeldVals(x)
    BY <1>1 DEF HeldVals
<1>8. pc[c] = "idle" /\ UNCHANGED <<rows, pc, op, at, tx, undo, aborted, val, mine, undone>>
    BY <1>1 DEF Fetch, table, txVars, history
<1>9. Shape'
    <2>1. \A d \in Clients : \A k \in DOMAIN held'[d] : IsModel(held[d][k])'
        BY <1>1, <1>6, <1>8 DEF Shape, IsModel
    <2>2. Len(held'[c]) \in Nat /\ DOMAIN held'[c] = 1 .. Len(held'[c])
        BY <1>4
    <2> QED BY <1>1, <1>8, <2>1, <2>2 DEF Shape, IsRow
<1>10. AtStake'
    BY <1>5, <1>7, <1>8 DEF AtStake
<1>11. Undone'
    BY <1>5, <1>7, <1>8 DEF Undone, UndoneLeavesNoTrace
<1> QED BY <1>9, <1>10, <1>11

\* Create, BatchInsert, Update and BatchUpdate begin with fresh values.
LEMMA FreshCall ==
  ASSUME ValueInv, NEW c \in Clients, NEW o, CallInsert(c, o) \/ CallUpdate(c, o)
  PROVE  /\ ValueInv'
<1> USE DEF ValueInv
<1>1. PICK n \in Nat :
        /\ Fresh(c, n)
        /\ DOMAIN held' = Clients /\ \A x \in Clients \ {c} : held'[x] = held[x]
        /\ Len(held'[c]) = n /\ DOMAIN held'[c] = 1 .. n
        /\ \A k \in 1 .. n :
             held'[c][k] = [id |-> held'[c][k].id, val |-> val + k, del |-> held'[c][k].del]
    <2>1. CASE CallInsert(c, o)
        <3>1. PICK n \in 1 .. (IF o = "create" THEN 1 ELSE MaxModels) :
                \E ids \in [1 .. n -> Ids] :
                  /\ Fresh(c, n)
                  /\ held' = [held EXCEPT ![c] =
                       [k \in 1 .. n |-> [id |-> ids[k], val |-> val + k, del |-> FALSE]]]
            BY <2>1 DEF CallInsert
        <3>2. n \in Nat
            BY <3>1, BoundsAssumption
        <3>3. PICK ids \in [1 .. n -> Ids] :
                held'[c] = [k \in 1 .. n |-> [id |-> ids[k], val |-> val + k, del |-> FALSE]]
            BY <3>1 DEF Shape
        <3>4. Len(held'[c]) = n
            BY <3>2, <3>3, LenOfFunction
        <3> QED BY <3>1, <3>2, <3>3, <3>4 DEF Shape
    <2>2. CASE CallUpdate(c, o)
        <3> DEFINE n == Len(held[c])
        <3>1. /\ Fresh(c, n) /\ n \in Nat /\ DOMAIN held[c] = 1 .. n
              /\ held' = [held EXCEPT ![c] = [k \in 1 .. n |-> [held[c][k] EXCEPT !.val = val + k]]]
            BY <2>2 DEF CallUpdate, Shape
        <3>2. held'[c] = [k \in 1 .. n |-> [held[c][k] EXCEPT !.val = val + k]]
            BY <3>1 DEF Shape
        <3>3. Len(held'[c]) = n
            BY <3>1, <3>2, LenOfFunction
        <3>4. \A k \in 1 .. n :
                held'[c][k] = [id |-> held'[c][k].id, val |-> val + k, del |-> held'[c][k].del]
            <4> TAKE k \in 1 .. n
            <4>1. held[c][k] = [id |-> held[c][k].id, val |-> held[c][k].val, del |-> held[c][k].del]
                BY <3>1 DEF Shape, IsModel
            <4> QED BY <3>2, <4>1
        <3> QED BY <3>1, <3>2, <3>3, <3>4 DEF Shape
    <2> QED BY <2>1, <2>2
<1> DEFINE M == val + 1 .. val + n
<1>2. /\ val' = val + n /\ val \in Nat /\ M \subseteq 1 .. val' /\ \A v \in M : v > val
      /\ mine' = [mine EXCEPT ![c] = @ \cup M]
    BY <1>1 DEF Fresh, Shape
<1>3. HeldVals(c)' \subseteq M
    BY <1>1, <1>2 DEF HeldVals
<1>4. \A k \in DOMAIN held'[c] : IsModel(held[c][k])'
    BY <1>1, <1>2 DEF IsModel
<1>5. /\ undone' = undone /\ undone = undone \ M
      /\ HeldVals(c)' \cap undone' = {}
    <2>1. undone' = undone
        BY DEF CallInsert, CallUpdate
    <2>2. undone \cap M = {}
        BY <1>2 DEF Shape
    <2> QED BY <1>3, <2>1, <2>2
<1>6. /\ pc[c] = "idle" /\ pc' = [pc EXCEPT ![c] = "before"]
      /\ op' = [op EXCEPT ![c] = o] /\ at' = [at EXCEPT ![c] = 0]
      /\ UNCHANGED <<rows, undo, aborted>>
    BY DEF CallInsert, CallUpdate, Begin, table
<1>7. /\ DOMAIN tx' = Clients /\ \A x \in Clients \ {c} : tx'[x] = tx[x]
      /\ tx'[c] = tx[c] \/ (tx[c] = "none" /\ tx'[c] = "own")
    <2>1. tx' = [tx EXCEPT ![c] = IF o = "batchUpdate" /\ tx[c] = "none" THEN "own" ELSE tx[c]]
        BY DEF CallInsert, CallUpdate, Begin
    <2> QED BY <2>1 DEF Shape
<1>8. /\ DOMAIN op' = Clients /\ DOMAIN at' = Clients /\ DOMAIN aborted' = Clients
      /\ undone' = undone \ M /\ val' \in Nat /\ val' >= val
      /\ Len(held'[c]) \in Nat /\ DOMAIN held'[c] = 1 .. Len(held'[c])
    BY <1>1, <1>2, <1>5, <1>6 DEF Shape
<1> HIDE DEF M
<1> QED BY <1>1, <1>2, <1>3, <1>4, <1>5, <1>6, <1>7, <1>8, CallEffect

\* Delete, ForceDelete and the batch deletions begin with what the client holds:
\* values of it that were undone are at stake once more.
LEMMA DeleteCall ==
  ASSUME ValueInv, NEW c \in Clients, NEW o, CallDelete(c, o)
  PROVE  ValueInv'
<1> USE DEF ValueInv
<1> DEFINE M == undone \cap HeldVals(c)
<1>1. /\ mine' = [mine EXCEPT ![c] = @ \cup M] /\ undone' = undone \ M
      /\ held' = held /\ val' = val
      /\ pc[c] = "idle" /\ pc' = [pc EXCEPT ![c] = "before"]
      /\ op' = [op EXCEPT ![c] = o] /\ at' = [at EXCEPT ![c] = 0]
      /\ UNCHANGED <<rows, undo, aborted>>
    BY DEF CallDelete, Begin, table, HeldVals
<1>2. /\ DOMAIN tx' = Clients /\ \A x \in Clients \ {c} : tx'[x] = tx[x]
      /\ tx'[c] = tx[c] \/ (tx[c] = "none" /\ tx'[c] = "own")
    <2>1. tx' = [tx EXCEPT ![c] = IF o = "batchUpdate" /\ tx[c] = "none" THEN "own" ELSE tx[c]]
        BY DEF CallDelete, Begin
    <2> QED BY <2>1 DEF Shape
<1>3. HeldVals(c)' = HeldVals(c)
    BY <1>1 DEF HeldVals
<1>4. /\ \A k \in DOMAIN held'[c] : IsModel(held[c][k])'
      /\ Len(held'[c]) \in Nat /\ DOMAIN held'[c] = 1 .. Len(held'[c])
    BY <1>1 DEF Shape, IsModel
<1>5. /\ DOMAIN op' = Clients /\ DOMAIN at' = Clients /\ DOMAIN aborted' = Clients
      /\ DOMAIN held' = Clients
      /\ M \subseteq 1 .. val' /\ val' \in Nat /\ val' >= val
    <2>1. val \in Nat /\ undone \subseteq 1 .. val
        BY DEF Shape
    <2>2. M \subseteq undone
        OBVIOUS
    <2> HIDE DEF M
    <2> QED BY <1>1, <2>1, <2>2 DEF Shape
<1> HIDE DEF M
<1>6. M = undone \cap HeldVals(c) /\ HeldVals(c)' \cap undone' = {}
    BY <1>1, <1>3 DEF M
<1> QED BY <1>1, <1>2, <1>3, <1>4, <1>5, <1>6, CallEffect

\* Every statement is a write of the client's data, of rows as they were but
\* marked, or of no row.
LEMMA StatementWrites ==
  ASSUME ValueInv, NEW c \in Clients,
         \/ InsertRows(c) /\ pc[c] \in {"before", "marked"}
         \/ SendColumns(c) /\ pc[c] \in {"before", "marked"}
         \/ SoftDeleteRows(c)
         \/ RemoveRows(c) /\ pc[c] \in {"before", "marked"}
  PROVE  ValueInv'
<1> USE DEF ValueInv
<1>1. Window(c) \subseteq DOMAIN held[c]
    BY DEF Window
<1>2. \A k \in DOMAIN held[c] : IsModel(held[c][k])
    BY DEF Shape
<1>3. CASE InsertRows(c) /\ pc[c] \in {"before", "marked"}
    <2> DEFINE keys == {Key(c, k) : k \in Window(c)}
               new == [i \in keys |->
                  LET k == CHOOSE l \in Window(c) : Key(c, l) = i
                  IN  [val |-> held[c][k].val, del |-> held[c][k].del]]
    <2>1. keys \subseteq Ids /\ Write(c, new) /\ held' = [held EXCEPT ![c] = SetIDs(c)]
        BY <1>3 DEF InsertRows
    <2>2. ASSUME NEW i \in keys
          PROVE  \E k \in DOMAIN held[c] : new[i] = [val |-> held[c][k].val, del |-> held[c][k].del]
        BY <1>1
    <2>3. ASSUME NEW i \in DOMAIN new
          PROVE  i \in Ids /\ IsRow(new[i]) /\ new[i].val \in HeldVals(c)
        <3>1. PICK k \in DOMAIN held[c] : new[i] = [val |-> held[c][k].val, del |-> held[c][k].del]
            BY <2>2
        <3> HIDE DEF new
        <3> QED BY <1>2, <2>1, <3>1 DEF IsRow, IsModel, HeldVals, new
    <2> HIDE DEF new
    <2>4. /\ DOMAIN held' = Clients /\ \A x \in Clients \ {c} : held'[x] = held[x]
          /\ held'[c] = SetIDs(c)
        BY <2>1 DEF Shape
    <2>5. /\ DOMAIN held'[c] = DOMAIN held[c]
          /\ \A k \in DOMAIN held[c] :
               held'[c][k] = [id |-> held'[c][k].id, val |-> held[c][k].val, del |-> held[c][k].del]
        BY <2>4, SetIDsKeepsData
    <2>6. Len(held'[c]) \in Nat /\ DOMAIN held'[c] = 1 .. Len(held'[c])
        <3>1. held'[c] = [k \in DOMAIN held'[c] |-> held'[c][k]]
            BY <2>4 DEF SetIDs
        <3>2. Len(held[c]) \in Nat /\ DOMAIN held'[c] = 1 .. Len(held[c])
            BY <2>5 DEF Shape
        <3>3. Len(held'[c]) = Len(held[c])
            BY <3>1, <3>2, LenOfFunction
        <3> QED BY <3>2, <3>3
    <2>7. val' = val
        BY <2>1 DEF Write
    <2>8. \A k \in DOMAIN held'[c] : IsModel(held[c][k])'
        <3> SUFFICES ASSUME NEW k \in DOMAIN held[c] PROVE IsModel(held[c][k])'
            BY <2>5
        <3>1. held'[c][k] = [id |-> held'[c][k].id, val |-> held[c][k].val, del |-> held[c][k].del]
            BY <2>5
        <3>2. held[c][k].val \in Int /\ held[c][k].val <= val
            BY <1>2 DEF IsModel
        <3> QED BY ONLY <2>7, <3>1, <3>2 DEF IsModel
    <2>9. HeldVals(c)' = HeldVals(c)
        <3>1. \A k \in DOMAIN held[c] : held'[c][k].val = held[c][k].val
            <4> TAKE k \in DOMAIN held[c]
            <4>1. held'[c][k] = [id |-> held'[c][k].id, val |-> held[c][k].val, del |-> held[c][k].del]
                BY <2>5
            <4> QED BY ONLY <4>1
        <3> QED BY ONLY <2>5, <3>1 DEF HeldVals
    <2> QED BY <1>3, <2>1, <2>3, <2>4, <2>6, <2>8, <2>9, WriteEffect
<1>4. ASSUME NEW new, Write(c, new), held' = held, pc[c] \in {"before", "marked"},
             \A i \in DOMAIN new :
               /\ i \in Ids /\ IsRow(new[i])
               /\ new[i].val = -1 \/ new[i].val \in HeldVals(c) \/ new[i].val = rows[i].val
      PROVE  ValueInv'
    <2>1. HeldVals(c)' = HeldVals(c) /\ val' = val
        BY <1>4 DEF HeldVals, Write
    <2>2. /\ Len(held'[c]) \in Nat /\ DOMAIN held'[c] = 1 .. Len(held'[c])
          /\ \A k \in DOMAIN held'[c] : IsModel(held[c][k])'
          /\ DOMAIN held' = Clients /\ \A x \in Clients \ {c} : held'[x] = held[x]
        BY <1>4, <2>1 DEF Shape, IsModel
    <2> QED BY <1>4, <2>1, <2>2, WriteEffect
<1>5. CASE SendColumns(c) /\ pc[c] \in {"before", "marked"}
    <2> DEFINE new == [i \in Target(c) \cap Existing(c) |->
                 LET k == CHOOSE l \in Window(c) : held[c][l].id = i
                 IN  [val |-> held[c][k].val, del |-> held[c][k].del]]
    <2>1. Write(c, new) /\ held' = held
        BY <1>5 DEF SendColumns
    <2>2. ASSUME NEW i \in DOMAIN new
          PROVE  i \in Ids /\ IsRow(new[i]) /\ new[i].val \in HeldVals(c)
        <3>1. \E l \in Window(c) : held[c][l].id = i
            BY DEF Target
        <3>2. PICK k \in DOMAIN held[c] : new[i] = [val |-> held[c][k].val, del |-> held[c][k].del]
            BY <1>1, <3>1
        <3> HIDE DEF new
        <3>3. i \in Ids
            BY DEF Existing, new
        <3>4. held[c][k].val \in Int /\ held[c][k].val <= val
            BY <1>2 DEF IsModel
        <3> QED BY ONLY <3>2, <3>3, <3>4 DEF IsRow, HeldVals
    <2> HIDE DEF new
    <2> QED BY <1>4, <1>5, <2>1, <2>2
<1>6. CASE SoftDeleteRows(c)
    <2> DEFINE new == [i \in Target(c) \cap Existing(c) |-> [rows[i] EXCEPT !.del = TRUE]]
    <2>1. Write(c, new) /\ held' = held /\ pc[c] = "marked"
        BY <1>6 DEF SoftDeleteRows
    <2>2. ASSUME NEW i \in DOMAIN new
          PROVE  i \in Ids /\ IsRow(new[i]) /\ new[i].val = rows[i].val
        <3>1. i \in Ids /\ new[i] = [rows[i] EXCEPT !.del = TRUE]
            BY DEF Existing
        <3>2. IsRow(rows[i])
            BY <3>1 DEF Shape
        <3>3. new[i] = [val |-> rows[i].val, del |-> TRUE]
            BY <3>1, <3>2 DEF IsRow
        <3> HIDE DEF new
        <3> QED BY <3>1, <3>2, <3>3 DEF IsRow
    <2> HIDE DEF new
    <2> QED BY <1>4, <2>1, <2>2
<1>7. CASE RemoveRows(c) /\ pc[c] \in {"before", "marked"}
    <2> DEFINE new == [i \in Target(c) \cap Existing(c) |-> NoRow]
    <2>1. Write(c, new) /\ held' = held
        BY <1>7 DEF RemoveRows
    <2>2. ASSUME NEW i \in DOMAIN new
          PROVE  i \in Ids /\ IsRow(new[i]) /\ new[i].val = -1
        BY DEF Existing, NoRow, IsRow, Shape
    <2> HIDE DEF new
    <2> QED BY <1>4, <1>7, <2>1, <2>2
<1> QED BY <1>3, <1>5, <1>6, <1>7

\* Steps that write no row: Mark, the ends of calls and of transactions that do
\* not roll back, and what is between the batches of a call.
LEMMA OtherSteps ==
  ASSUME ValueInv, NEW c \in Clients,
         \/ Mark(c) \/ NextBatch(c) \/ Finish(c) \/ WithTx(c) \/ FnReturns(c) \/ Commit(c)
         \/ HookFails(c) /\ tx[c] # "own"
         \/ StatementFails(c) /\ tx[c] # "own"
  PROVE  ValueInv'
<1> USE DEF ValueInv
<1>1. /\ rows' = rows /\ undone' = undone /\ val' = val
      /\ DOMAIN undo' = Clients /\ DOMAIN pc' = Clients
      /\ DOMAIN op' = Clients /\ DOMAIN at' = Clients /\ DOMAIN tx' = Clients
      /\ DOMAIN aborted' = Clients
    BY DEF Mark, NextBatch, Finish, WithTx, FnReturns, Commit, HookFails, StatementFails,
           Return, EndTx, table, call, txVars, history, Shape
<1>2. \/ held' = held
      \/ held' = [held EXCEPT ![c] = [k \in DOMAIN held[c] |-> [held[c][k] EXCEPT !.del = TRUE]]]
    BY DEF Mark, NextBatch, Finish, WithTx, FnReturns, Commit, HookFails, StatementFails,
           Return, call
<1>3. DOMAIN held' = Clients /\ \A x \in Clients : DOMAIN held'[x] = DOMAIN held[x]
    BY <1>2 DEF Shape
<1>4. ASSUME NEW x \in Clients, NEW k \in DOMAIN held[x]
      PROVE  held'[x][k].val = held[x][k].val /\ IsModel(held[x][k])'
    <2>1. IsModel(held[x][k])
        BY DEF Shape
    <2>2. CASE held'[x] = held[x]
        BY <1>1, <2>1, <2>2 DEF IsModel
    <2>3. CASE held'[x][k] = [held[x][k] EXCEPT !.del = TRUE]
        <3>1. held'[x][k] = [id |-> held[x][k].id, val |-> held[x][k].val, del |-> TRUE]
            BY ONLY <2>1, <2>3 DEF IsModel
        <3> QED BY ONLY <1>1, <2>1, <3>1 DEF IsModel
    <2>4. held'[x] = held[x] \/ held'[x] = [j \in DOMAIN held[x] |-> [held[x][j] EXCEPT !.del = TRUE]]
        <3>1. DOMAIN held = Clients
            BY DEF Shape
        <3> QED BY ONLY x \in Clients, c \in Clients, <1>2, <3>1
    <2> QED BY <2>2, <2>3, <2>4
<1>5. \A x \in Clients : HeldVals(x)' = HeldVals(x)
    BY <1>3, <1>4 DEF HeldVals
<1>6. ASSUME NEW x \in Clients PROVE Len(held'[x]) \in Nat /\ DOMAIN held'[x] = 1 .. Len(held'[x])
    <2>1. Len(held[x]) \in Nat /\ DOMAIN held[x] = 1 .. Len(held[x])
        BY DEF Shape
    <2>2. CASE held'[x] = held[x]
        BY <2>1, <2>2
    <2>3. CASE held'[x] = [k \in DOMAIN held[x] |-> [held[x][k] EXCEPT !.del = TRUE]]
        <3>1. Len(held'[x]) = Len(held[x])
            BY <2>1, <2>3, LenOfFunction
        <3> QED BY <1>3, <2>1, <3>1
    <2> QED BY <1>2, <2>2, <2>3 DEF Shape
<1>7. \A x \in Clients \ {c} : /\ mine'[x] = mine[x] /\ undo'[x] = undo[x] /\ tx'[x] = tx[x]
                               /\ pc'[x] = pc[x]
    BY DEF Mark, NextBatch, Finish, WithTx, FnReturns, Commit, HookFails, StatementFails,
           Return, Forget, EndTx, table, call, txVars, history, Shape
<1>8. /\ mine' \in [Clients -> SUBSET (1 .. val)] /\ mine'[c] \subseteq mine[c]
      /\ undo'[c] = undo[c] \/ undo'[c] = << >>
      /\ tx'[c] # "none" => undo'[c] = undo[c] /\ (tx[c] # "none" \/ mine'[c] = {})
      /\ pc'[c] \in {"before", "marked", "after"} => pc[c] \in {"before", "marked", "after"}
      /\ pc'[c] = "commit" => tx'[c] # "none"
      /\ pc'[c] = "idle" /\ tx'[c] = "none" => mine'[c] = {}
    <2>1. CASE Mark(c) \/ NextBatch(c)
        BY <2>1 DEF Mark, NextBatch, table, call, txVars, history, Shape
    <2>2. CASE Finish(c) \/ (HookFails(c) /\ tx[c] # "own") \/ (StatementFails(c) /\ tx[c] # "own")
        <3>1. /\ undo' = undo /\ tx' = tx
              /\ \/ pc'[c] = "commit" /\ tx[c] = "own" /\ mine' = mine
                 \/ /\ pc'[c] = "idle"
                    /\ mine' = [mine EXCEPT ![c] = IF tx[c] = "none" THEN {} ELSE mine[c]]
            BY <2>2 DEF Finish, HookFails, StatementFails, Return, Forget, txVars, Shape
        <3> QED BY <3>1 DEF Shape
    <2>3. CASE WithTx(c) \/ FnReturns(c)
        BY <2>3 DEF WithTx, FnReturns, table, call, txVars, history, Shape
    <2>4. CASE Commit(c)
        BY <2>4 DEF Commit, EndTx, Return, Shape
    <2> QED BY <2>1, <2>2, <2>3, <2>4
<1>9. \A x \in Clients :
           /\ undo'[x] = undo[x] \/ undo'[x] = << >>
           /\ tx'[x] # "none" =>
                /\ undo'[x] = undo[x] /\ mine'[x] \subseteq mine[x]
                /\ tx[x] # "none" \/ mine'[x] = {}
           /\ pc'[x] \in {"before", "marked", "after"} => pc[x] \in {"before", "marked", "after"}
           /\ pc'[x] = "commit" => tx'[x] # "none"
           /\ pc'[x] = "idle" /\ tx'[x] = "none" => mine'[x] = {}
    BY <1>7, <1>8 DEF Shape
<1> QED BY <1>1, <1>3, <1>4, <1>5, <1>6, <1>8, <1>9, QuietEffect

\* Error paths that end a transaction.
LEMMA FailingSteps ==
  ASSUME ValueInv, NEW c \in Clients,
         \/ (HookFails(c) \/ StatementFails(c)) /\ tx[c] = "own"
         \/ FnFails(c) \/ CommitFails(c)
  PROVE  ValueInv'
<1> USE DEF ValueInv
<1>1. Rollback(c) /\ tx[c] # "none" /\ held' = held /\ val' = val
    BY DEF HookFails, StatementFails, FnFails, CommitFails, Return, call, Shape
<1>2. /\ DOMAIN op' = Clients /\ DOMAIN at' = Clients /\ DOMAIN pc' = Clients
      /\ \A x \in Clients : pc'[x] = IF x = c THEN "idle" ELSE pc[x]
    BY DEF HookFails, StatementFails, FnFails, CommitFails, Return, call, Shape
<1> QED BY <1>1, <1>2, RollbackEffect

LEMMA ValueStep ==
  ASSUME ValueInv, [Next]_vars
  PROVE  ValueInv'
<1>1. CASE UNCHANGED vars
    <2>1. /\ UNCHANGED <<rows, undone, val, held, undo, pc, op, at, tx, aborted, mine>>
          /\ \A x \in Clients : HeldVals(x)' = HeldVals(x)
        BY <1>1 DEF vars, table, call, txVars, history, HeldVals
    <2>2. \A x \in Clients : \A k \in DOMAIN held'[x] : IsModel(held[x][k])'
        BY <2>1 DEF ValueInv, Shape, IsModel
    <2> QED BY <2>1, <2>2, QuietEffect DEF ValueInv, Shape
<1>2. ASSUME NEW c \in Clients, Step(c) PROVE ValueInv'
    <2>1. CASE CreateRow(c) \/ InsertBatch(c)
        BY <2>1, StatementWrites DEF CreateRow, InsertBatch
    <2>2. CASE UpdateRow(c) \/ BatchUpdateRow(c)
        BY <2>2, StatementWrites DEF UpdateRow, BatchUpdateRow
    <2>3. CASE DeleteRow(c) \/ ForceDeleteRow(c) \/ BatchDeleteRows(c) \/ DeleteByIDs(c)
        BY <2>3, StatementWrites DEF DeleteRow, ForceDeleteRow, BatchDeleteRows, DeleteByIDs
    <2> QED BY <1>2, <2>1, <2>2, <2>3, StatementWrites, OtherSteps, FailingSteps DEF Step
<1>3. ASSUME NEW c \in Clients, Call(c) PROVE ValueInv'
    BY <1>3, FreshCall, DeleteCall DEF Call
<1> QED BY <1>1, <1>2, <1>3, FetchKeepsValues, OtherSteps, FailingSteps DEF Next

\* When a transaction fails, whatever else clients do meanwhile and whichever
\* way it fails, no row keeps a value it wrote; nor does one reappear later.
THEOREM FailedLeavesNoTrace == Spec => []UndoneLeavesNoTrace
<1>1. ValueInv => UndoneLeavesNoTrace
    BY DEF ValueInv, Undone
<1> QED BY <1>1, InitValues, ValueStep, PTL DEF Spec

-----------------------------------------------------------------------------
\* Deletion marks are found only where deletion was asked for: in rows, in what
\* a rollback would put back and in the models of clients.
MarkInv ==
  /\ MarkedOnRequest
  /\ \A d \in Clients : \A i \in DOMAIN undo[d] : undo[d][i].del => i \in asked
  /\ \A c \in Clients : \A k \in DOMAIN held[c] :
       /\ held[c][k].del => held[c][k].id \in asked /\ op[c] \notin Inserts
       /\ op[c] \in Deletes => held[c][k].id \in asked
  /\ \A c \in Clients : pc[c] = "idle" => op[c] = "none"

\* A statement that marks, or writes marked models, marks rows asked for.
LEMMA WriteMarks ==
  ASSUME Shape, MarkInv, NEW c \in Clients, NEW new, Write(c, new),
         \A i \in DOMAIN new : i \in Ids /\ (new[i].del => i \in asked),
         DOMAIN held' = Clients, \A x \in Clients \ {c} : held'[x] = held[x],
         \A k \in DOMAIN held'[c] :
           /\ held'[c][k].del => held'[c][k].id \in asked /\ op[c] \notin Inserts
           /\ op[c] \in Deletes => held'[c][k].id \in asked
  PROVE  MarkInv'
<1>1. /\ rows' = [i \in Ids |-> IF i \in DOMAIN new THEN new[i] ELSE rows[i]]
      /\ asked' = asked /\ op' = op /\ pc' = [pc EXCEPT ![c] = "after"]
      /\ \A d \in Clients : \A i \in DOMAIN undo'[d] :
           \/ i \in DOMAIN undo[d] /\ undo'[d][i] = undo[d][i]
           \/ i \in Ids /\ undo'[d][i] = rows[i]
    BY DEF Write, Shape
<1>2. MarkedOnRequest'
    BY <1>1 DEF MarkInv, MarkedOnRequest
<1>3. \A d \in Clients : \A i \in DOMAIN undo'[d] : undo'[d][i].del => i \in asked
    BY <1>1 DEF MarkInv, MarkedOnRequest
<1>4. \A x \in Clients \ {c} : \A k \in DOMAIN held'[x] :
        /\ held'[x][k].del => held'[x][k].id \in asked /\ op[x] \notin Inserts
        /\ op[x] \in Deletes => held'[x][k].id \in asked
    BY DEF MarkInv
<1>5. \A x \in Clients : pc'[x] = "idle" => op'[x] = "none"
    BY <1>1 DEF MarkInv, Shape
<1> QED BY <1>1, <1>2, <1>3, <1>4, <1>5 DEF MarkInv

LEMMA StatementMarks ==
  ASSUME Shape, MarkInv, NEW c \in Clients,
         \/ InsertRows(c) /\ op[c] \in Inserts
         \/ SendColumns(c) \/ SoftDeleteRows(c) \/ RemoveRows(c)
  PROVE  MarkInv'
<1>1. Window(c) \subseteq DOMAIN held[c]
    BY DEF Window
<1>2. CASE InsertRows(c) /\ op[c] \in Inserts
    <2> DEFINE keys == {Key(c, k) : k \in Window(c)}
               new == [i \in keys |->
                  LET k == CHOOSE l \in Window(c) : Key(c, l) = i
                  IN  [val |-> held[c][k].val, del |-> held[c][k].del]]
    <2>1. keys \subseteq Ids /\ Write(c, new) /\ held' = [held EXCEPT ![c] = SetIDs(c)]
        BY <1>2 DEF InsertRows
    <2>2. \A k \in DOMAIN held[c] : ~held[c][k].del
        BY <1>2 DEF MarkInv
    <2>3. ASSUME NEW i \in DOMAIN new
          PROVE  i \in Ids /\ (new[i].del => i \in asked)
        <3>1. \E l \in Window(c) : Key(c, l) = i
            OBVIOUS
        <3>2. PICK k \in DOMAIN held[c] : new[i] = [val |-> held[c][k].val, del |-> held[c][k].del]
            BY <1>1, <3>1
        <3> HIDE DEF new
        <3>3. new[i].del = held[c][k].del
            BY <3>2
        <3>4. i \in Ids
            BY <2>1 DEF new
        <3> QED BY <2>2, <3>3, <3>4
    <2> HIDE DEF new, keys
    <2>4. DOMAIN held' = Clients /\ held'[c] = SetIDs(c) /\ \A x \in Clients \ {c} : held'[x] = held[x]
        BY <2>1 DEF Shape
    <2>5. ASSUME NEW k \in DOMAIN held'[c] PROVE ~held'[c][k].del
        <3>1. k \in DOMAIN held[c]
            BY ONLY Shape, c \in Clients, <2>4, <2>5, SetIDsKeepsData
        <3>2. SetIDs(c)[k] = [id |-> SetIDs(c)[k].id, val |-> held[c][k].val, del |-> held[c][k].del]
            BY ONLY Shape, c \in Clients, <3>1, SetIDsKeepsData
        <3>3. SetIDs(c)[k].del = held[c][k].del
            BY ONLY <3>2
        <3> QED BY ONLY <2>2, <2>4, <3>1, <3>3
    <2>6. op[c] \notin Deletes
        BY <1>2 DEF Inserts, Deletes
    <2> QED BY <2>1, <2>3, <2>4, <2>5, <2>6, WriteMarks
<1>3. ASSUME NEW new, Write(c, new), held' = held,
             \A i \in DOMAIN new : i \in Ids /\ (new[i].del => i \in asked)
      PROVE  MarkInv'
    BY <1>3, WriteMarks DEF MarkInv, Shape
<1>4. CASE SendColumns(c)
    <2> DEFINE new == [i \in Target(c) \cap Existing(c) |->
                 LET k == CHOOSE l \in Window(c) : held[c][l].id = i
                 IN  [val |-> held[c][k].val, del |-> held[c][k].del]]
    <2>1. Write(c, new) /\ held' = held
        BY <1>4 DEF SendColumns
    <2>2. ASSUME NEW i \in DOMAIN new
          PROVE  i \in Ids /\ (new[i].del => i \in asked)
        <3>1. \E l \in Window(c) : held[c][l].id = i
            BY DEF Target
        <3>2. PICK k \in DOMAIN held[c] :
                held[c][k].id = i /\ new[i] = [val |-> held[c][k].val, del |-> held[c][k].del]
            BY <1>1, <3>1
        <3>3. i \in Ids
            BY DEF Existing
        <3> HIDE DEF new
        <3>4. new[i].del = held[c][k].del
            BY <3>2
        <3> QED BY <3>2, <3>3, <3>4 DEF MarkInv
    <2> HIDE DEF new
    <2> QED BY <1>3, <2>1, <2>2
<1>5. CASE SoftDeleteRows(c)
    <2> DEFINE new == [i \in Target(c) \cap Existing(c) |-> [rows[i] EXCEPT !.del = TRUE]]
    <2>1. Write(c, new) /\ held' = held /\ op[c] = "batchDelete"
        BY <1>5 DEF SoftDeleteRows
    <2>2. \A i \in Target(c) : i \in asked
        BY <1>1, <2>1 DEF Target, MarkInv, Deletes
    <2>3. \A i \in DOMAIN new : i \in Ids /\ i \in asked
        BY <2>2 DEF Existing
    <2> HIDE DEF new
    <2> QED BY <1>3, <2>1, <2>3
<1>6. CASE RemoveRows(c)
    <2> DEFINE new == [i \in Target(c) \cap Existing(c) |-> NoRow]
    <2>1. Write(c, new) /\ held' = held
        BY <1>6 DEF RemoveRows
    <2>2. \A i \in DOMAIN new : i \in Ids /\ ~new[i].del
        BY DEF Existing, NoRow
    <2> HIDE DEF new
    <2> QED BY <1>3, <2>1, <2>2
<1> QED BY <1>2, <1>4, <1>5, <1>6

\* The models of a new call are unmarked, or marked at the client's request.
LEMMA CallMarks ==
  ASSUME Shape, MarkInv, NEW c \in Clients, Call(c)
  PROVE  MarkInv'
<1>1. PICK o \in Inserts \cup Updates \cup Deletes :
        (o \in Inserts /\ CallInsert(c, o)) \/ (o \in Updates /\ CallUpdate(c, o))
        \/ (o \in Deletes /\ CallDelete(c, o))
    BY DEF Call
<1>2. /\ rows' = rows /\ undo' = undo /\ asked \subseteq asked'
      /\ op' = [op EXCEPT ![c] = o] /\ pc' = [pc EXCEPT ![c] = "before"]
    BY <1>1 DEF CallInsert, CallUpdate, CallDelete, Begin, table
<1>3. \A x \in Clients \ {c} : held'[x] = held[x] /\ op'[x] = op[x] /\ pc'[x] = pc[x]
    BY <1>1, <1>2 DEF CallInsert, CallUpdate, CallDelete, Shape
<1>4. ASSUME NEW k \in DOMAIN held'[c]
      PROVE  /\ held'[c][k].del => held'[c][k].id \in asked' /\ o \notin Inserts
             /\ o \in Deletes => held'[c][k].id \in asked'
    <2>1. CASE o \in Inserts /\ CallInsert(c, o)
        <3>1. PICK n \in 1 .. (IF o = "create" THEN 1 ELSE MaxModels) :
                \E ids \in [1 .. n -> Ids] :
                  held' = [held EXCEPT ![c] =
                    [j \in 1 .. n |-> [id |-> ids[j], val |-> val + j, del |-> FALSE]]]
            BY <2>1 DEF CallInsert
        <3>2. PICK ids :
                held' = [held EXCEPT ![c] =
                  [j \in 1 .. n |-> [id |-> ids[j], val |-> val + j, del |-> FALSE]]]
            BY <3>1
        <3>3. held'[c] = [j \in 1 .. n |-> [id |-> ids[j], val |-> val + j, del |-> FALSE]]
            BY <3>2 DEF Shape
        <3>4. ~held'[c][k].del
            BY ONLY <1>4, <3>3
        <3> QED BY <2>1, <3>4 DEF Inserts, Deletes
    <2>2. CASE o \in Updates /\ CallUpdate(c, o)
        <3>1. held'[c] = [j \in DOMAIN held[c] |-> [held[c][j] EXCEPT !.val = val + j]]
            BY <2>2 DEF CallUpdate, Shape
        <3>2. k \in DOMAIN held[c] /\ IsModel(held[c][k])
            BY <3>1 DEF Shape
        <3>3. held'[c][k] = [id |-> held[c][k].id, val |-> val + k, del |-> held[c][k].del]
            BY <3>1, <3>2 DEF IsModel
        <3>4. held'[c][k].id = held[c][k].id /\ held'[c][k].del = held[c][k].del
            BY <3>3
        <3> QED BY <1>2, <2>2, <3>2, <3>4 DEF MarkInv, Inserts, Updates, Deletes
    <2>3. CASE o \in Deletes /\ CallDelete(c, o)
        <3>1. held' = held /\ asked' = asked \cup {held[c][j].id : j \in DOMAIN held[c]}
            BY <2>3 DEF CallDelete
        <3> QED BY <2>3, <3>1 DEF Inserts, Deletes
    <2> QED BY <1>1, <2>1, <2>2, <2>3
<1>5. MarkedOnRequest'
    BY <1>2 DEF MarkInv, MarkedOnRequest
<1>6. \A d \in Clients : \A i \in DOMAIN undo'[d] : undo'[d][i].del => i \in asked'
    BY <1>2 DEF MarkInv
<1>7. \A x \in Clients \ {c} : \A k \in DOMAIN held'[x] :
        /\ held'[x][k].del => held'[x][k].id \in asked' /\ op'[x] \notin Inserts
        /\ op'[x] \in Deletes => held'[x][k].id \in asked'
    BY <1>2, <1>3 DEF MarkInv
<1>8. op'[c] = o /\ pc'[c] = "before"
    BY <1>2 DEF Shape
<1>9. \A x \in Clients : pc'[x] = "idle" => op'[x] = "none"
    BY <1>3, <1>8 DEF MarkInv
<1> QED BY <1>4, <1>5, <1>6, <1>7, <1>8, <1>9 DEF MarkInv

LEMMA FetchMarks ==
  ASSUME Shape, MarkInv, NEW c \in Clients, Fetch(c)
  PROVE  MarkInv'
<1>1. UNCHANGED <<rows, undo, asked, op, pc>> /\ op[c] = "none"
    BY DEF Fetch, table, txVars, history, MarkInv
<1>2. PICK n \in 1 .. MaxModels :
        \E ids \in [1 .. n -> {i \in Ids : Committed(c, i) # NoRow /\ ~Committed(c, i).del}] :
          held' = [held EXCEPT ![c] =
            [k \in 1 .. n |-> [id |-> ids[k], val |-> Committed(c, ids[k]).val, del |-> FALSE]]]
    BY DEF Fetch
<1>3. PICK ids :
        held' = [held EXCEPT ![c] =
          [k \in 1 .. n |-> [id |-> ids[k], val |-> Committed(c, ids[k]).val, del |-> FALSE]]]
    BY <1>2
<1>4. /\ \A x \in Clients \ {c} : held'[x] = held[x]
      /\ held'[c] = [k \in 1 .. n |->
           [id |-> ids[k], val |-> Committed(c, ids[k]).val, del |-> FALSE]]
    BY <1>3 DEF Shape
<1>5. \A k \in DOMAIN held'[c] : ~held'[c][k].del
    BY ONLY <1>4
<1>6. op[c] \notin Deletes
    BY <1>1 DEF Deletes
<1> QED BY <1>1, <1>4, <1>5, <1>6 DEF MarkInv, MarkedOnRequest

\* Steps that write no row, and those that put rows back.
LEMMA QuietMarks ==
  ASSUME Shape, MarkInv, NEW c \in Clients,
         \/ Mark(c) \/ HookFails(c) \/ StatementFails(c) \/ NextBatch(c) \/ Finish(c)
         \/ Commit(c) \/ CommitFails(c) \/ WithTx(c) \/ FnReturns(c) \/ FnFails(c)
  PROVE  MarkInv'
<1>1. /\ asked' = asked
      /\ \A d \in Clients : undo'[d] = undo[d] \/ undo'[d] = << >>
      /\ \/ rows' = rows
         \/ rows' = [i \in Ids |-> IF i \in DOMAIN undo[c] THEN undo[c][i] ELSE rows[i]]
    BY DEF Mark, HookFails, StatementFails, NextBatch, Finish, Commit, CommitFails, WithTx,
           FnReturns, FnFails, Return, Rollback, EndTx, table, call, txVars, history, Shape
<1>2. /\ \A x \in Clients : op'[x] = op[x] \/ op'[x] = "none"
      /\ \A x \in Clients : pc'[x] = "idle" => op'[x] = "none"
    BY DEF Mark, HookFails, StatementFails, NextBatch, Finish, Commit, CommitFails, WithTx,
           FnReturns, FnFails, Return, Rollback, EndTx, table, call, txVars, history, Shape,
           MarkInv
<1>3. \/ held' = held
      \/ /\ op[c] \in Deletes
         /\ held' = [held EXCEPT ![c] = [k \in DOMAIN held[c] |-> [held[c][k] EXCEPT !.del = TRUE]]]
    BY DEF Mark, HookFails, StatementFails, NextBatch, Finish, Commit, CommitFails, WithTx,
           FnReturns, FnFails, Return, call, Deletes
<1>4. MarkedOnRequest'
    BY <1>1 DEF MarkInv, MarkedOnRequest
<1>5. \A d \in Clients : \A i \in DOMAIN undo'[d] : undo'[d][i].del => i \in asked
    <2> SUFFICES ASSUME NEW d \in Clients, NEW i \in DOMAIN undo'[d], undo'[d][i].del
                 PROVE  i \in asked
        OBVIOUS
    <2>1. undo'[d] = undo[d]
        BY <1>1
    <2> QED BY <2>1 DEF MarkInv
<1>6. ASSUME NEW x \in Clients, NEW k \in DOMAIN held'[x]
      PROVE  /\ held'[x][k].del => held'[x][k].id \in asked /\ op[x] \notin Inserts
             /\ op[x] \in Deletes => held'[x][k].id \in asked
    <2>1. CASE held' = held
        BY <1>6, <2>1 DEF MarkInv
    <2>2. CASE held' # held
        <3>1. DOMAIN held = Clients /\ op[c] \in Deletes
            BY <1>3, <2>2 DEF Shape
        <3>2. CASE x # c
            <4>1. held'[x] = held[x]
                BY ONLY <1>3, <2>2, <3>1, <3>2, x \in Clients
            <4> QED BY <1>6, <4>1 DEF MarkInv
        <3>3. CASE x = c
            <4>1. held'[c] = [j \in DOMAIN held[c] |-> [held[c][j] EXCEPT !.del = TRUE]]
                BY ONLY <1>3, <2>2, <3>1, c \in Clients
            <4>2. k \in DOMAIN held[c] /\ held'[c][k] = [held[c][k] EXCEPT !.del = TRUE]
                BY ONLY <1>6, <3>3, <4>1
            <4>3. IsModel(held[c][k])
                BY <4>2 DEF Shape
            <4>4. held'[c][k] = [id |-> held[c][k].id, val |-> held[c][k].val, del |-> TRUE]
                BY ONLY <4>2, <4>3 DEF IsModel
            <4>5. held'[c][k].id = held[c][k].id
                BY ONLY <4>4
            <4>6. held[c][k].id \in asked
                BY <3>1, <4>2 DEF MarkInv
            <4>7. op[c] \notin Inserts
                BY <3>1 DEF Inserts, Deletes
            <4> QED BY ONLY <3>3, <4>5, <4>6, <4>7
        <3> QED BY <3>2, <3>3
    <2> QED BY <2>1, <2>2
<1>7. "none" \notin Deletes
    BY DEF Deletes
<1>8. \A x \in Clients : \A k \in DOMAIN held'[x] :
        /\ held'[x][k].del => held'[x][k].id \in asked' /\ op'[x] \notin Inserts
        /\ op'[x] \in Deletes => held'[x][k].id \in asked'
    BY <1>1, <1>2, <1>6, <1>7 DEF Inserts
<1> QED BY <1>1, <1>2, <1>4, <1>5, <1>8 DEF MarkInv

LEMMA MarkStep ==
  ASSUME Shape, MarkInv, [Next]_vars
  PROVE  MarkInv'
<1>1. CASE UNCHANGED vars
    BY <1>1 DEF vars, table, call, txVars, history, MarkInv, MarkedOnRequest
<1>2. ASSUME NEW c \in Clients, Step(c) PROVE MarkInv'
    <2>1. CASE CreateRow(c) \/ InsertBatch(c)
        BY <2>1, StatementMarks DEF CreateRow, InsertBatch, Inserts
    <2>2. CASE UpdateRow(c) \/ BatchUpdateRow(c)
        BY <2>2, StatementMarks DEF UpdateRow, BatchUpdateRow
    <2>3. CASE DeleteRow(c) \/ ForceDeleteRow(c) \/ BatchDeleteRows(c) \/ DeleteByIDs(c)
        BY <2>3, StatementMarks DEF DeleteRow, ForceDeleteRow, BatchDeleteRows, DeleteByIDs
    <2> QED BY <1>2, <2>1, <2>2, <2>3, StatementMarks, QuietMarks DEF Step
<1> QED BY <1>1, <1>2, CallMarks, FetchMarks, QuietMarks DEF Next

\* Nobody's Update, BatchDelete or rollback leaves a row marked as deleted that
\* no Delete or BatchDelete was called for.
THEOREM MarksAreAsked == Spec => []MarkedOnRequest
<1>1. Init => MarkInv
    BY DEF Init, MarkInv, MarkedOnRequest, NoRow
<1>2. ValueInv => Shape
    BY DEF ValueInv
<1>3. MarkInv => MarkedOnRequest
    BY DEF MarkInv
<1> QED BY <1>1, <1>2, <1>3, InitValues, ValueStep, MarkStep, PTL DEF Spec
-----------------------------------------------------------------------------
\* Multiples of a batch size.
LEMMA MultipleOf ==
  ASSUME NEW m \in Nat \ {0}, NEW q \in Nat
  PROVE  (m * q) % m = 0
OBVIOUS

LEMMA NextMultiple ==
  ASSUME NEW a \in Nat, NEW m \in Nat \ {0}
  PROVE  /\ 0 % m = 0
         /\ a % m = 0 => (a + m) % m = 0
<1>1. 0 = m * 0
    OBVIOUS
<1>2. ASSUME a % m = 0 PROVE (a + m) % m = 0
    <2> DEFINE q == a \div m
    <2>1. q \in Nat /\ a = m * q
        BY <1>2
    <2> HIDE DEF q
    <2>2. a + m = m * (q + 1) /\ q + 1 \in Nat
        BY <2>1
    <2> QED BY ONLY <2>2, m \in Nat \ {0}, MultipleOf
<1>3. 0 % m = 0
    BY ONLY <1>1, m \in Nat \ {0}, 0 \in Nat, MultipleOf
<1> QED BY <1>2, <1>3

\* The models of a call that it has stored.  What a call inserts is numbered as
\* its own; a BatchInsert has stored whole batches, and nothing of the others.
StoredOf(c) == {k \in DOMAIN held[c] : held[c][k].val \in stored}
OwnValues(c) ==
  /\ HeldVals(c) \subseteq 1 .. val
  /\ \A j, k \in DOMAIN held[c] : held[c][j].val = held[c][k].val => j = k
  /\ \A d \in Clients \ {c} : op[d] \in Inserts => HeldVals(d) \cap HeldVals(c) = {}
WholeBatches(c) ==
  /\ pc[c] \in {"before", "after"}
  /\ at[c] \in Nat /\ at[c] < Len(held[c]) /\ at[c] % BatchSize = 0
  /\ StoredOf(c) = 1 .. (IF pc[c] = "after" THEN Done(c) ELSE at[c])

InsertInv ==
  /\ stored \subseteq 1 .. val
  /\ \A c \in Clients : op[c] \in Inserts => OwnValues(c)
  /\ \A c \in Clients : op[c] = "batchInsert" => WholeBatches(c)
  /\ \A c \in Clients : tx[c] = "own" => op[c] = "batchUpdate"
  /\ \A c \in Clients : pc[c] = "idle" => op[c] = "none"

\* The batch after the first at[c] models.
LEMMA BatchWindow ==
  ASSUME Shape, NEW c \in Clients, op[c] = "batchInsert", at[c] \in Nat, at[c] < Len(held[c])
  PROVE  /\ Done(c) \in Nat /\ at[c] < Done(c) /\ Done(c) <= Len(held[c])
         /\ Window(c) = at[c] + 1 .. Done(c)
         /\ More(c) => Done(c) = at[c] + BatchSize
         /\ ~More(c) => Done(c) = Len(held[c])
         /\ at[c] % BatchSize = 0 => Done(c) = Len(held[c]) \/ Done(c) % BatchSize = 0
<1> DEFINE end == IF at[c] + BatchSize <= Len(held[c]) THEN at[c] + BatchSize ELSE Len(held[c])
<1>1. Len(held[c]) \in Nat /\ DOMAIN held[c] = 1 .. Len(held[c])
    BY DEF Shape
<1>2. /\ end \in Nat /\ at[c] < end /\ end <= Len(held[c])
      /\ end = at[c] + BatchSize \/ end = Len(held[c])
    BY <1>1, BatchSizeAssumption
<1>3. Window(c) = {k \in DOMAIN held[c] : k > at[c] /\ k <= at[c] + BatchSize}
    BY DEF Window
<1>4. Window(c) = at[c] + 1 .. end
    BY <1>1, <1>3, BatchSizeAssumption
<1> HIDE DEF end
<1>5. Cardinality(Window(c)) = end - at[c]
    <2>1. at[c] + 1 \in Int /\ end \in Int /\ ~(at[c] + 1 > end)
        BY <1>2
    <2>2. Cardinality(at[c] + 1 .. end) = end - (at[c] + 1) + 1
        BY ONLY <2>1, FS_Interval
    <2> QED BY <1>2, <1>4, <2>2
<1>6. Done(c) = end
    BY <1>2, <1>5 DEF Done
<1>7. at[c] % BatchSize = 0 => end = Len(held[c]) \/ end % BatchSize = 0
    BY ONLY <1>2, at[c] \in Nat, BatchSizeAssumption, NextMultiple
<1>8. More(c) <=> end < Len(held[c])
    BY <1>6 DEF More
<1> QED BY <1>1, <1>2, <1>4, <1>6, <1>7, <1>8

\* A step of one client leaves the inserts of the others as they are.
LEMMA OthersInsert ==
  ASSUME Shape, InsertInv, NEW c \in Clients, val' \in Nat, val' >= val,
         \A x \in Clients \ {c} : /\ held'[x] = held[x] /\ op'[x] = op[x] /\ pc'[x] = pc[x]
                                  /\ at'[x] = at[x] /\ tx'[x] = tx[x],
         stored' \subseteq 1 .. val',
         \A v : (v \in stored' /\ v \notin stored) \/ (v \in stored /\ v \notin stored') =>
                  op[c] \in Inserts /\ v \in HeldVals(c),
         op'[c] \in Inserts => OwnValues(c)',
         op'[c] = "batchInsert" => WholeBatches(c)',
         tx'[c] = "own" => op'[c] = "batchUpdate",
         pc'[c] = "idle" => op'[c] = "none"
  PROVE  InsertInv'
<1>1. ASSUME NEW x \in Clients \ {c}, op'[x] \in Inserts PROVE OwnValues(x)'
    <2>1. OwnValues(x) /\ HeldVals(x)' = HeldVals(x) /\ held'[x] = held[x]
        BY <1>1 DEF InsertInv, HeldVals
    <2>2. HeldVals(x) \subseteq 1 .. val'
        BY <2>1 DEF OwnValues, Shape
    <2>3. ASSUME NEW d \in Clients \ {x}, op'[d] \in Inserts
          PROVE  HeldVals(d)' \cap HeldVals(x)' = {}
        <3>1. CASE d = c
            BY <1>1, <2>3, <3>1 DEF OwnValues
        <3>2. CASE d # c
            <4>1. HeldVals(d)' = HeldVals(d) /\ op[d] \in Inserts
                BY <2>3, <3>2 DEF HeldVals
            <4> QED BY <2>1, <4>1 DEF OwnValues
        <3> QED BY <3>1, <3>2
    <2> QED BY <2>1, <2>2, <2>3 DEF OwnValues
<1>2. ASSUME NEW x \in Clients \ {c}, op'[x] = "batchInsert" PROVE WholeBatches(x)'
    <2>1. WholeBatches(x) /\ OwnValues(x)
        BY <1>2 DEF InsertInv, Inserts
    <2>2. op[c] \in Inserts => HeldVals(c) \cap HeldVals(x) = {}
        BY <2>1 DEF OwnValues
    <2>3. StoredOf(x)' = StoredOf(x)
        BY <2>2 DEF StoredOf, HeldVals
    <2>4. Done(x)' = Done(x)
        BY DEF Done, Window
    <2> QED BY <2>1, <2>3, <2>4 DEF WholeBatches
<1> QED BY <1>1, <1>2 DEF InsertInv

\* The values of a new call are beyond all that were given out.
LEMMA InsertCall ==
  ASSUME Shape, InsertInv, NEW c \in Clients, NEW o \in Inserts, CallInsert(c, o)
  PROVE  InsertInv'
<1>1. PICK n \in 1 .. (IF o = "create" THEN 1 ELSE MaxModels) :
        \E ids \in [1 .. n -> Ids] :
          /\ Fresh(c, n)
          /\ held' = [held EXCEPT ![c] =
               [k \in 1 .. n |-> [id |-> ids[k], val |-> val + k, del |-> FALSE]]]
    BY DEF CallInsert
<1>2. n \in Nat \ {0}
    BY <1>1, BoundsAssumption
<1>3. PICK ids \in [1 .. n -> Ids] :
        /\ held'[c] = [k \in 1 .. n |-> [id |-> ids[k], val |-> val + k, del |-> FALSE]]
        /\ \A x \in Clients \ {c} : held'[x] = held[x]
    BY <1>1 DEF Shape
<1>4. Len(held'[c]) = n /\ DOMAIN held'[c] = 1 .. n
    BY <1>2, <1>3, LenOfFunction
<1>5. \A k \in 1 .. n : held'[c][k].val = val + k
    BY <1>3
<1>6. val' = val + n /\ val \in Nat
    BY <1>1 DEF Fresh, Shape
<1>7. /\ op'[c] = o /\ pc'[c] = "before" /\ at'[c] = 0 /\ stored' = stored
      /\ tx'[c] = tx[c] /\ op[c] = "none"
      /\ \A x \in Clients \ {c} : op'[x] = op[x] /\ pc'[x] = pc[x] /\ at'[x] = at[x] /\ tx'[x] = tx[x]
    BY DEF CallInsert, Begin, Shape, Inserts, InsertInv
<1>8. OwnValues(c)'
    <2>1. \A v \in HeldVals(c)' : v \in 1 .. val' /\ v > val
        BY <1>2, <1>4, <1>5, <1>6 DEF HeldVals
    <2>2. \A d \in Clients \ {c} : HeldVals(d)' \subseteq {v \in Int : v <= val}
        BY <1>3 DEF HeldVals, Shape, IsModel
    <2> QED BY <1>2, <1>4, <1>5, <1>6, <2>1, <2>2 DEF OwnValues
<1>9. WholeBatches(c)'
    <2>1. StoredOf(c)' = {}
        BY <1>2, <1>4, <1>5, <1>6, <1>7 DEF StoredOf, InsertInv
    <2>2. 0 % BatchSize = 0
        BY BatchSizeAssumption, NextMultiple
    <2> QED BY <1>2, <1>4, <1>7, <2>1, <2>2 DEF WholeBatches
<1>10. tx[c] # "own"
    BY <1>7 DEF InsertInv
<1>11. stored' \subseteq 1 .. val'
    BY <1>2, <1>6, <1>7 DEF InsertInv
<1> QED BY <1>2, <1>3, <1>6, <1>7, <1>8, <1>9, <1>10, <1>11, OthersInsert

\* An INSERT stores the models of its window.
LEMMA InsertStatement ==
  ASSUME Shape, InsertInv, NEW c \in Clients, CreateRow(c) \/ InsertBatch(c)
  PROVE  InsertInv'
<1>1. /\ op[c] \in Inserts /\ InsertRows(c) /\ pc[c] = "before"
    BY DEF CreateRow, InsertBatch, Inserts
<1>2. /\ held' = [held EXCEPT ![c] = SetIDs(c)] /\ pc' = [pc EXCEPT ![c] = "after"]
      /\ UNCHANGED <<op, at, tx, val>>
      /\ stored' = stored \cup {held[c][k].val : k \in Window(c)}
    BY <1>1 DEF InsertRows, Write
<1>3. DOMAIN held'[c] = DOMAIN held[c] /\ \A k \in DOMAIN held[c] : held'[c][k].val = held[c][k].val
    <2>1. held'[c] = SetIDs(c)
        BY <1>2 DEF Shape
    <2>2. DOMAIN SetIDs(c) = DOMAIN held[c]
        BY SetIDsKeepsData
    <2>3. ASSUME NEW k \in DOMAIN held[c] PROVE SetIDs(c)[k].val = held[c][k].val
        <3>1. SetIDs(c)[k] = [id |-> SetIDs(c)[k].id, val |-> held[c][k].val, del |-> held[c][k].del]
            BY <2>3, SetIDsKeepsData
        <3> QED BY ONLY <3>1
    <2> QED BY <2>1, <2>2, <2>3
<1>4. Len(held'[c]) = Len(held[c])
    <2>1. held'[c] = [k \in DOMAIN held'[c] |-> held'[c][k]]
        BY <1>2 DEF SetIDs, Shape
    <2> QED BY <1>3, <2>1, LenOfFunction DEF Shape
<1>5. Window(c) \subseteq DOMAIN held[c]
    BY DEF Window
<1>6. HeldVals(c)' = HeldVals(c) /\ OwnValues(c)
    BY <1>1, <1>3 DEF HeldVals, InsertInv
<1>7. \A x \in Clients \ {c} : held'[x] = held[x] /\ pc'[x] = pc[x] /\ HeldVals(x)' = HeldVals(x)
    BY <1>2 DEF Shape, HeldVals
<1>8. OwnValues(c)'
    BY <1>2, <1>3, <1>6, <1>7 DEF OwnValues
<1>9. ASSUME op[c] = "batchInsert" PROVE WholeBatches(c)'
    <2>1. /\ WholeBatches(c) /\ StoredOf(c) = 1 .. at[c]
          /\ Done(c) \in Nat /\ at[c] < Done(c) /\ Done(c) <= Len(held[c])
          /\ Window(c) = at[c] + 1 .. Done(c)
        BY <1>1, <1>9, BatchWindow DEF InsertInv, WholeBatches
    <2>2. Window(c)' = Window(c)
        BY <1>2, <1>3, <1>9 DEF Window
    <2>3. Done(c)' = Done(c)
        BY <1>2, <2>2 DEF Done
    <2>4. StoredOf(c)' = StoredOf(c) \cup Window(c)
        <3>1. \A k \in DOMAIN held[c] :
                held[c][k].val \in {held[c][j].val : j \in Window(c)} <=> k \in Window(c)
            BY <1>5, <1>6 DEF OwnValues
        <3> QED BY <1>2, <1>3, <1>5, <3>1 DEF StoredOf
    <2>5. StoredOf(c)' = 1 .. Done(c)
        BY <2>1, <2>4 DEF WholeBatches
    <2>6. pc'[c] = "after"
        BY <1>2 DEF Shape
    <2> QED BY <1>2, <1>4, <2>1, <2>3, <2>5, <2>6 DEF WholeBatches
<1>10. {held[c][k].val : k \in Window(c)} \subseteq HeldVals(c)
    BY <1>5 DEF HeldVals
<1>11. stored' \subseteq 1 .. val'
    BY <1>2, <1>6, <1>10 DEF InsertInv, OwnValues
<1>12. /\ pc'[c] = "after" /\ val' \in Nat /\ val' >= val
       /\ tx'[c] = "own" => op'[c] = "batchUpdate"
    BY <1>2 DEF Shape, InsertInv
<1> QED BY <1>1, <1>2, <1>7, <1>8, <1>9, <1>10, <1>11, <1>12, OthersInsert

\* Steps after which the client is in no INSERT, and that store nothing.
LEMMA NoInsert ==
  ASSUME Shape, InsertInv, NEW c \in Clients, val' \in Nat, val' >= val,
         \A x \in Clients \ {c} : /\ held'[x] = held[x] /\ op'[x] = op[x] /\ pc'[x] = pc[x]
                                  /\ at'[x] = at[x] /\ tx'[x] = tx[x],
         \/ stored' = stored
         \/ op[c] \in Inserts /\ stored' = stored \ HeldVals(c),
         op'[c] \notin Inserts,
         tx'[c] = "own" => op'[c] = "batchUpdate",
         pc'[c] = "idle" => op'[c] = "none"
  PROVE  InsertInv'
<1>1. stored' \subseteq 1 .. val'
    <2>1. 1 .. val \subseteq 1 .. val'
        BY DEF Shape
    <2>2. stored' \subseteq 1 .. val
        BY DEF InsertInv
    <2> QED BY <2>1, <2>2
<1>2. \A v : (v \in stored' /\ v \notin stored) \/ (v \in stored /\ v \notin stored') =>
               op[c] \in Inserts /\ v \in HeldVals(c)
    OBVIOUS
<1>3. op'[c] # "batchInsert"
    BY DEF Inserts
<1> QED BY <1>1, <1>2, <1>3, OthersInsert

LEMMA OtherCalls ==
  ASSUME Shape, InsertInv, NEW c \in Clients,
         \/ Fetch(c) \/ WithTx(c) \/ FnReturns(c) \/ FnFails(c)
         \/ \E o \in Updates : CallUpdate(c, o)
         \/ \E o \in Deletes : CallDelete(c, o)
  PROVE  InsertInv'
<1>1. op[c] = "none" /\ stored' = stored
    BY DEF Fetch, WithTx, FnReturns, FnFails, CallUpdate, CallDelete, Begin, call, txVars,
           history, InsertInv
<1>2. \A x \in Clients \ {c} : /\ held'[x] = held[x] /\ op'[x] = op[x] /\ pc'[x] = pc[x]
                               /\ at'[x] = at[x] /\ tx'[x] = tx[x]
    BY DEF Fetch, WithTx, FnReturns, FnFails, CallUpdate, CallDelete, Begin, Rollback, EndTx,
           call, txVars, history, Shape
<1>3. val' \in Nat /\ val' >= val
    BY DEF Fetch, WithTx, FnReturns, FnFails, CallUpdate, CallDelete, Begin, Fresh,
           call, txVars, history, Shape
<1>4. CASE Fetch(c) \/ WithTx(c) \/ FnReturns(c) \/ FnFails(c)
    <2>1. op' = op /\ (tx' = tx \/ tx'[c] \in {"none", "user"})
        BY <1>4 DEF Fetch, WithTx, FnReturns, FnFails, Rollback, EndTx, call, txVars, Shape
    <2>2. op'[c] \notin Inserts /\ tx'[c] # "own"
        BY <1>1, <2>1 DEF Inserts, InsertInv
    <2> QED BY <1>1, <1>2, <1>3, <2>1, <2>2, NoInsert
<1>5. ASSUME NEW o \in Updates \cup Deletes, CallUpdate(c, o) \/ CallDelete(c, o)
      PROVE  InsertInv'
    <2>1. /\ op'[c] = o /\ pc'[c] = "before"
          /\ tx'[c] = IF o = "batchUpdate" /\ tx[c] = "none" THEN "own" ELSE tx[c]
        BY <1>5 DEF CallUpdate, CallDelete, Begin, Shape
    <2>2. o \notin Inserts
        BY DEF Inserts, Updates, Deletes
    <2>3. tx[c] # "own"
        BY <1>1 DEF InsertInv
    <2> QED BY <1>1, <1>2, <1>3, <2>1, <2>2, <2>3, NoInsert
<1> QED BY <1>4, <1>5

\* Statements of other operations.
LEMMA OtherStatements ==
  ASSUME Shape, InsertInv, NEW c \in Clients,
         \/ UpdateRow(c) \/ BatchUpdateRow(c) \/ Mark(c) \/ SoftDeleteRows(c) \/ DeleteRow(c)
         \/ ForceDeleteRow(c) \/ BatchDeleteRows(c) \/ DeleteByIDs(c)
  PROVE  InsertInv'
<1>1. op[c] \in Updates \cup Deletes
    BY DEF UpdateRow, BatchUpdateRow, Mark, SoftDeleteRows, DeleteRow, ForceDeleteRow,
           BatchDeleteRows, DeleteByIDs, Updates, Deletes
<1>2. /\ stored' = stored /\ op' = op /\ at' = at /\ tx' = tx /\ val' = val
      /\ pc'[c] \in {"marked", "after"} /\ \A x \in Clients \ {c} : pc'[x] = pc[x]
    <2>1. CASE Mark(c)
        BY <2>1 DEF Mark, txVars, history, Shape
    <2>2. ASSUME NEW new, Write(c, new), stored' = stored
          PROVE  /\ stored' = stored /\ op' = op /\ at' = at /\ tx' = tx /\ val' = val
                 /\ pc'[c] \in {"marked", "after"} /\ \A x \in Clients \ {c} : pc'[x] = pc[x]
        BY <2>2 DEF Write, Shape
    <2> QED BY <2>1, <2>2 DEF UpdateRow, BatchUpdateRow, SoftDeleteRows, DeleteRow, ForceDeleteRow,
                              BatchDeleteRows, DeleteByIDs, SendColumns, RemoveRows
<1>3. \A x \in Clients \ {c} : held'[x] = held[x]
    BY DEF UpdateRow, BatchUpdateRow, Mark, SoftDeleteRows, DeleteRow, ForceDeleteRow,
           BatchDeleteRows, DeleteByIDs, SendColumns, RemoveRows, Shape
<1>4. op'[c] \notin Inserts /\ (tx'[c] = "own" => op'[c] = "batchUpdate")
    BY <1>1, <1>2 DEF Inserts, Updates, Deletes, InsertInv
<1> QED BY <1>2, <1>3, <1>4, NoInsert DEF Shape

\* The ends of a call, and what is between two batches.
LEMMA InsertEnds ==
  ASSUME Shape, InsertInv, NEW c \in Clients,
         HookFails(c) \/ StatementFails(c) \/ Finish(c) \/ Commit(c) \/ CommitFails(c)
  PROVE  InsertInv'
<1>1. CASE Return(c)
    <2>1. /\ held' = held /\ val' = val /\ op'[c] = "none"
          /\ stored' = stored \/ (op[c] \in Inserts /\ stored' = stored \ HeldVals(c))
          /\ \A x \in Clients \ {c} : op'[x] = op[x] /\ pc'[x] = pc[x] /\ at'[x] = at[x]
        BY <1>1 DEF Return, HeldVals, Shape
    <2>2. /\ \A x \in Clients \ {c} : tx'[x] = tx[x]
          /\ tx'[c] # "own"
        <3>1. CASE Finish(c)
            <4>1. tx' = tx
                BY <3>1 DEF Finish, txVars
            <4>2. tx[c] # "own"
                BY <1>1, <3>1 DEF Finish, Return, Shape
            <4> QED BY <4>1, <4>2
        <3>2. CASE Commit(c) \/ CommitFails(c)
            BY <3>2 DEF Commit, CommitFails, Rollback, EndTx, Shape
        <3>3. CASE HookFails(c) \/ StatementFails(c)
            BY <3>3 DEF HookFails, StatementFails, Rollback, EndTx, txVars, Shape
        <3> QED BY <3>1, <3>2, <3>3
    <2>3. op'[c] \notin Inserts
        BY <2>1 DEF Inserts
    <2> QED BY <2>1, <2>2, <2>3, NoInsert DEF Shape
<1>2. CASE Finish(c) /\ tx[c] = "own"
    <2>1. /\ pc'[c] = "commit" /\ op[c] = "batchUpdate"
          /\ \A x \in Clients \ {c} : pc'[x] = pc[x]
          /\ UNCHANGED <<held, op, at, tx, val, stored>>
        BY <1>2 DEF Finish, txVars, Shape, InsertInv
    <2>2. op'[c] \notin Inserts
        BY <2>1 DEF Inserts
    <2> QED BY <2>1, <2>2, NoInsert DEF Shape
<1> QED BY <1>1, <1>2 DEF HookFails, StatementFails, Finish, Commit, CommitFails

LEMMA InsertNext ==
  ASSUME Shape, InsertInv, NEW c \in Clients, NextBatch(c)
  PROVE  InsertInv'
<1>1. /\ pc[c] = "after" /\ More(c) /\ at'[c] = Done(c) /\ pc'[c] = "before"
      /\ \A x \in Clients \ {c} : pc'[x] = pc[x] /\ at'[x] = at[x]
      /\ UNCHANGED <<held, op, tx, val, stored>>
    BY DEF NextBatch, txVars, history, Shape
<1>2. ASSUME op[c] \in Inserts PROVE OwnValues(c)'
    <2>1. OwnValues(c) /\ \A x \in Clients : HeldVals(x)' = HeldVals(x)
        BY <1>1, <1>2 DEF InsertInv, HeldVals
    <2> QED BY <1>1, <2>1 DEF OwnValues
<1>3. ASSUME op[c] = "batchInsert" PROVE WholeBatches(c)'
    <2>1. WholeBatches(c)
        BY <1>3 DEF InsertInv
    <2>2. /\ Done(c) \in Nat /\ Done(c) <= Len(held[c]) /\ Done(c) # Len(held[c])
          /\ Done(c) % BatchSize = 0
        BY <1>1, <1>3, <2>1, BatchWindow DEF WholeBatches, More
    <2>3. StoredOf(c)' = 1 .. Done(c)
        BY <1>1, <2>1 DEF StoredOf, WholeBatches
    <2> QED BY <1>1, <2>2, <2>3 DEF WholeBatches, Shape
<1>4. /\ val' \in Nat /\ val' >= val /\ stored' \subseteq 1 .. val'
      /\ tx'[c] = "own" => op'[c] = "batchUpdate"
      /\ \A x \in Clients \ {c} : held'[x] = held[x] /\ op'[x] = op[x] /\ tx'[x] = tx[x]
    BY <1>1 DEF InsertInv, Shape
<1> QED BY <1>1, <1>2, <1>3, <1>4, OthersInsert

LEMMA InsertStep ==
  ASSUME Shape, InsertInv, [Next]_vars
  PROVE  InsertInv'
<1>1. CASE UNCHANGED vars
    <2>1. UNCHANGED <<held, pc, op, at, tx, val, stored>>
        BY <1>1 DEF vars, call, txVars, history
    <2>2. \A x \in Clients : /\ HeldVals(x)' = HeldVals(x) /\ StoredOf(x)' = StoredOf(x)
                             /\ Done(x)' = Done(x)
        BY <2>1 DEF HeldVals, StoredOf, Done, Window
    <2>3. \A x \in Clients : (OwnValues(x) => OwnValues(x)') /\ (WholeBatches(x) => WholeBatches(x)')
        BY <2>1, <2>2 DEF OwnValues, WholeBatches
    <2> QED BY <2>1, <2>3 DEF InsertInv
<1>2. ASSUME NEW c \in Clients, Step(c) PROVE InsertInv'
    BY <1>2, InsertStatement, OtherStatements, InsertEnds, InsertNext DEF Step
<1>3. ASSUME NEW c \in Clients, Call(c) PROVE InsertInv'
    BY <1>3, InsertCall, OtherCalls DEF Call
<1> QED BY <1>1, <1>2, <1>3, OtherCalls DEF Next

\* Where the ids given to the models are the keys of their rows, each names the
\* row that holds the model's data: the keys of a statement are distinct.
LEMMA IdsNameTheirRows ==
  ASSUME Shape, NEW c \in Clients, InsertRows(c), NEW k \in Window(c),
         SetIDs(c)[k].id = Key(c, k)
  PROVE  held'[c][k].id \in Ids /\ rows'[held'[c][k].id].val = held'[c][k].val
<1> DEFINE keys == {Key(c, l) : l \in Window(c)}
           source(i) == CHOOSE l \in Window(c) : Key(c, l) = i
           new == [i \in keys |-> [val |-> held[c][source(i)].val, del |-> held[c][source(i)].del]]
           key == [l \in Window(c) |-> Key(c, l)]
<1>1. /\ keys \subseteq Ids /\ Cardinality(keys) = Cardinality(Window(c))
      /\ rows' = [i \in Ids |-> IF i \in keys THEN new[i] ELSE rows[i]]
      /\ held' = [held EXCEPT ![c] = SetIDs(c)]
    BY DEF InsertRows, Write
<1>2. IsFiniteSet(Window(c)) /\ Window(c) \subseteq DOMAIN held[c]
    <2>1. Window(c) \subseteq DOMAIN held[c] /\ DOMAIN held[c] = 1 .. Len(held[c])
        BY DEF Window, Shape
    <2>2. Len(held[c]) \in Nat
        BY DEF Shape
    <2>3. IsFiniteSet(1 .. Len(held[c]))
        BY ONLY <2>2, FS_Interval
    <2> QED BY ONLY <2>1, <2>3, FS_Subset
<1>3. \A l, m \in Window(c) : Key(c, l) = Key(c, m) => l = m
    <2>1. key \in Surjection(Window(c), keys)
        BY DEF Surjection
    <2> HIDE DEF key, keys
    <2>2. key \in Injection(Window(c), keys)
        BY <1>1, <1>2, <2>1, FS_SurjSameCardinalityImpliesInj
    <2>3. \A l, m \in Window(c) : key[l] = key[m] => l = m
        BY <2>2 DEF Injection, IsInjective
    <2> QED BY <2>3 DEF key
<1>4. source(Key(c, k)) = k
    BY <1>3
<1>5. new[Key(c, k)] = [val |-> held[c][k].val, del |-> held[c][k].del]
    BY <1>4
<1>6. held'[c][k] = SetIDs(c)[k]
    BY <1>1 DEF Shape
<1>7. held'[c][k].id = Key(c, k) /\ held'[c][k].val = held[c][k].val
    <2>1. IsModel(held[c][k])
        BY <1>2 DEF Shape
    <2>2. held'[c][k].val = held[c][k].val
        BY <1>2, <1>6, <2>1 DEF SetIDs, IsModel
    <2> QED BY <1>6, <2>2
<1>8. Key(c, k) \in keys
    OBVIOUS
<1> HIDE DEF new, source, keys
<1>9. Key(c, k) \in Ids /\ rows'[Key(c, k)] = new[Key(c, k)]
    BY <1>1, <1>8
<1> QED BY ONLY <1>5, <1>7, <1>9

\* A set of ids that is not empty has a greatest one.
LEMMA GreatestId ==
  ASSUME NEW S \in SUBSET Ids, S # {}
  PROVE  \E n \in S : \A m \in S : m <= n
<1> DEFINE T == {MaxId - m : m \in S}
<1>1. T \subseteq Nat /\ T # {}
    <2>1. \A m \in S : MaxId - m \in Nat
        BY BoundsAssumption DEF Ids
    <2> QED BY <2>1
<1>2. \E x \in T : \A y \in T : ~ (<<y, x>> \in OpToRel(<, Nat))
    <2> HIDE DEF T
    <2> QED BY <1>1, NatLessThanWellFounded, WFMin
<1>3. PICK x \in T : \A y \in T : ~(y < x)
    BY <1>1, <1>2 DEF OpToRel
<1>4. PICK n \in S : x = MaxId - n
    BY <1>3
<1>5. \A m \in S : ~(MaxId - m < MaxId - n)
    BY <1>3, <1>4
<1> QED BY <1>5, BoundsAssumption DEF Ids

\* AUTO_INCREMENT stands at an id.
LEMMA AutoStep ==
  ASSUME auto \in Ids, [Next]_vars
  PROVE  auto' \in Ids
<1>1. ASSUME NEW c \in Clients, InsertRows(c) PROVE auto' \in Ids
    <2> DEFINE keys == {Key(c, k) : k \in Window(c)}
    <2>1. /\ keys \cup {auto} \subseteq Ids
          /\ auto' = IF dialect # "mysql" THEN auto ELSE
               CHOOSE n \in keys \cup {auto} : \A m \in keys \cup {auto} : m <= n
        BY <1>1 DEF InsertRows
    <2> HIDE DEF keys
    <2>2. \E n \in keys \cup {auto} : \A m \in keys \cup {auto} : m <= n
        BY <2>1, GreatestId
    <2> QED BY <2>1, <2>2
<1>2. ASSUME NEW c \in Clients, CreateRow(c) \/ InsertBatch(c) PROVE auto' \in Ids
    BY <1>1, <1>2 DEF CreateRow, InsertBatch
<1>3. ASSUME NEW c \in Clients, Call(c) \/ Step(c), ~CreateRow(c), ~InsertBatch(c)
      PROVE  auto' = auto
    BY <1>3 DEF Call, CallInsert, CallUpdate, CallDelete, Begin, Step, SendColumns,
       UpdateRow, BatchUpdateRow, Mark, SoftDeleteRows, RemoveRows, DeleteRow,
       ForceDeleteRow, BatchDeleteRows, DeleteByIDs, HookFails, StatementFails,
       NextBatch, Finish, Commit, CommitFails, Return, table
<1>4. ASSUME NEW c \in Clients, Fetch(c) \/ WithTx(c) \/ FnReturns(c) \/ FnFails(c)
      PROVE  auto' = auto
    BY <1>4 DEF Fetch, WithTx, FnReturns, FnFails, table
<1>5. CASE UNCHANGED vars
    BY <1>5 DEF vars, table
<1> QED BY <1>2, <1>3, <1>4, <1>5 DEF Next

\* The keys that MySQL numbers itself count up from the first, which is the one
\* it answers with.
LEMMA NumberedKeys ==
  ASSUME Shape, auto \in Ids, dialect = "mysql", NEW c \in Clients, NEW n \in Nat,
         at[c] \in Nat, at[c] < n, Window(c) = at[c] + 1 .. n,
         \A l \in Window(c) : held[c][l].id = 0, NEW k \in Window(c)
  PROVE  Key(c, k) = auto + k - at[c] /\ LastInsertId(c) = auto + 1
<1>1. {l \in Window(c) : l <= k /\ held[c][l].id = 0} = at[c] + 1 .. k
    OBVIOUS
<1>2. Cardinality(at[c] + 1 .. k) = k - at[c]
    <2>1. at[c] + 1 \in Int /\ k \in Int /\ ~(at[c] + 1 > k)
        OBVIOUS
    <2>2. Cardinality(at[c] + 1 .. k) = k - (at[c] + 1) + 1
        BY ONLY <2>1, FS_Interval
    <2> QED BY <2>1, <2>2
<1>3. Key(c, k) = auto + (k - at[c])
    BY <1>1, <1>2 DEF Key
<1>4. {l \in Window(c) : held[c][l].id = 0} # {}
    OBVIOUS
<1>5. LastInsertId(c) = auto + 1
    BY <1>4 DEF LastInsertId
<1> QED BY <1>3, <1>5, BoundsAssumption DEF Ids

\* Where the answer tells the keys, the ids set on the models are those keys.
LEMMA IdsSet ==
  ASSUME Shape, InsertInv, auto \in Ids, NEW c \in Clients, CreateRow(c) \/ InsertBatch(c),
         IdsTold(c), NEW k \in Window(c)
  PROVE  SetIDs(c)[k].id = Key(c, k)
<1>1. k \in DOMAIN held[c] /\ IsModel(held[c][k])
    BY DEF Window, Shape
<1>2. CASE dialect = "postgres" \/ op[c] = "create"
    <2>1. SetIDs(c)[k] = [held[c][k] EXCEPT !.id = Key(c, k)]
        BY <1>1, <1>2 DEF SetIDs
    <2> QED BY ONLY <1>1, <2>1 DEF IsModel
<1>3. CASE ~(dialect = "postgres" \/ op[c] = "create")
    <2>1. op[c] = "batchInsert" /\ InsertRows(c)
        BY <1>3 DEF CreateRow, InsertBatch
    <2>2. at[c] \in Nat /\ at[c] < Len(held[c])
        BY <2>1 DEF InsertInv, WholeBatches
    <2>3. Window(c) = at[c] + 1 .. Done(c) /\ Done(c) \in Nat /\ at[c] < Done(c)
        BY <2>1, <2>2, BatchWindow
    <2>4. Key(c, k) \in Nat
        BY <2>1, BoundsAssumption DEF InsertRows, Ids
    <2>5. SetIDs(c)[k] = IF LastInsertId(c) > 0
                         THEN [held[c][k] EXCEPT !.id = LastInsertId(c) + k - at[c] - 1]
                         ELSE held[c][k]
        BY <1>1, <1>3 DEF SetIDs
    <2>6. SetIDs(c)[k].id = IF LastInsertId(c) > 0 THEN LastInsertId(c) + k - at[c] - 1
                            ELSE held[c][k].id
        BY <1>1, <2>5 DEF IsModel
    <2>7. CASE dialect = "mysql" /\ \A l \in Window(c) : held[c][l].id = 0
        <3>1. Key(c, k) = auto + k - at[c] /\ LastInsertId(c) = auto + 1
            BY <2>2, <2>3, <2>7, NumberedKeys
        <3>2. auto \in Nat /\ at[c] \in Nat /\ k \in Int
            BY ONLY auto \in Ids, <2>2, <2>3, k \in Window(c), BoundsAssumption DEF Ids
        <3>3. auto + 1 > 0 /\ auto + 1 + k - at[c] - 1 = auto + k - at[c]
            BY ONLY <3>2
        <3>4. LastInsertId(c) > 0 /\ LastInsertId(c) + k - at[c] - 1 = Key(c, k)
            BY ONLY <3>1, <3>3
        <3> QED BY ONLY <2>6, <3>4
    <2>8. CASE /\ \A l \in Window(c) : l = at[c] + 1
               /\ ~(dialect = "mysql" /\ \A l \in Window(c) : held[c][l].id = 0)
        <3>1. k = at[c] + 1 /\ \A l \in Window(c) : l = k
            BY <2>8
        <3>2. Window(c) = {k} /\ k <= k
            <4>1. Window(c) = {k}
                BY ONLY <3>1
            <4>2. k <= k
                BY ONLY <2>2, <3>1
            <4> QED BY ONLY <4>1, <4>2
        <3>3. (CHOOSE l \in Window(c) : \A m \in Window(c) : m <= l) = k
            BY ONLY <3>2
        <3>4. ~(dialect = "mysql" /\ held[c][k].id = 0)
            BY <2>8, <3>1
        <3>5. ~(dialect = "mysql" /\ {l \in Window(c) : held[c][l].id = 0} # {})
            BY <3>2, <3>4
        <3>6. LastInsertId(c) = Key(c, k)
            BY <3>3, <3>5 DEF LastInsertId
        <3>7. Key(c, k) = held[c][k].id
            BY <3>4 DEF Key
        <3> QED BY <2>2, <2>4, <2>6, <3>1, <3>6, <3>7
    <2> QED BY <1>3, <2>7, <2>8 DEF IdsTold
<1> QED BY <1>2, <1>3

\* What a BatchInsert that ends has stored.
LEMMA WholeBatchesAtEnd ==
  ASSUME Shape, InsertInv, NEW c \in Clients, op[c] = "batchInsert"
  PROVE  LET done == {k \in DOMAIN held[c] : held[c][k].val \in stored}
             n == Cardinality(done)
         IN  /\ done = 1 .. n
             /\ n = Len(held[c]) \/ n % BatchSize = 0
             /\ Finish(c) => n = Len(held[c])
<1> DEFINE n == IF pc[c] = "after" THEN Done(c) ELSE at[c]
<1>1. WholeBatches(c)
    BY DEF InsertInv
<1>2. /\ n \in Nat /\ StoredOf(c) = 1 .. n
      /\ n = Len(held[c]) \/ n % BatchSize = 0
      /\ pc[c] = "after" /\ ~More(c) => n = Len(held[c])
    BY <1>1, BatchWindow DEF WholeBatches
<1>3. Finish(c) => n = Len(held[c])
    BY <1>2 DEF Finish
<1> HIDE DEF n
<1>4. Cardinality(1 .. n) = n
    BY <1>2, FS_Interval
<1> QED BY <1>2, <1>3, <1>4 DEF StoredOf

LEMMA InsertInvHolds == Spec => [](Shape /\ InsertInv)
<1>1. Init => InsertInv
    BY DEF Init, InsertInv, Inserts
<1>2. ValueInv => Shape
    BY DEF ValueInv
<1> QED BY <1>1, <1>2, InitValues, ValueStep, InsertStep, PTL DEF Spec

\* On every dialect a BatchInsert that ends has stored its first batches, each
\* whole, and all of them if it returns nil, whatever other clients insert
\* meanwhile (batch.go, lines 66 to 81).
THEOREM BatchesAreWhole ==
  Spec => [][\A c \in Clients : op[c] = "batchInsert" /\ op'[c] # op[c] =>
               LET done == {k \in DOMAIN held[c] : held[c][k].val \in stored}
                   n == Cardinality(done)
               IN  /\ done = 1 .. n
                   /\ n = Len(held[c]) \/ n % BatchSize = 0
                   /\ Finish(c) => n = Len(held[c])]_vars
<1>1. Shape /\ InsertInv /\ [Next]_vars =>
        [\A c \in Clients : op[c] = "batchInsert" /\ op'[c] # op[c] =>
           LET done == {k \in DOMAIN held[c] : held[c][k].val \in stored}
               n == Cardinality(done)
           IN  /\ done = 1 .. n
               /\ n = Len(held[c]) \/ n % BatchSize = 0
               /\ Finish(c) => n = Len(held[c])]_vars
    BY WholeBatchesAtEnd
<1> QED BY <1>1, InsertInvHolds, PTL DEF Spec

\* Wherever the answer to an INSERT tells the keys, by RETURNING, by LastInsertId
\* of one row or of rows that MySQL has numbered, the ids that the code sets on the
\* models, counted up from LastInsertId, are those of the rows that hold their
\* data; and batches are whole (db.go, line 167, batch.go, lines 66 to 81 and 181
\* to 207).
THEOREM InsertsAreExact == Spec => InsertsExact
<1>1. Init => auto \in Ids
    BY SeededAssumption DEF Init, Ids
<1>2. Spec => [](auto \in Ids)
    <2>1. auto \in Ids /\ [Next]_vars => (auto \in Ids)'
        BY AutoStep DEF Ids
    <2> QED BY <1>1, <2>1, PTL DEF Spec
<1>3. ASSUME Shape, InsertInv, auto \in Ids, NEW c \in Clients,
             CreateRow(c) \/ InsertBatch(c), IdsTold(c), NEW k \in Window(c)
      PROVE  held'[c][k].id \in Ids /\ rows'[held'[c][k].id].val = held'[c][k].val
    BY <1>3, IdsSet, IdsNameTheirRows DEF CreateRow, InsertBatch
<1>4. Shape /\ InsertInv /\ auto \in Ids /\ [Next]_vars =>
        [\A c \in Clients :
           /\ (CreateRow(c) \/ InsertBatch(c)) /\ IdsTold(c) =>
                \A k \in Window(c) :
                  LET m == held'[c][k]
                  IN  m.id \in Ids /\ rows'[m.id].val = m.val
           /\ op[c] = "batchInsert" /\ op'[c] # op[c] =>
                LET done == {k \in DOMAIN held[c] : held[c][k].val \in stored}
                    n == Cardinality(done)
                IN  /\ done = 1 .. n
                    /\ n = Len(held[c]) \/ n % BatchSize = 0
                    /\ Finish(c) => n = Len(held[c])]_vars
    BY <1>3, WholeBatchesAtEnd
<1> QED BY <1>2, <1>4, InsertInvHolds, PTL DEF Spec, InsertsExact
=============================================================================
