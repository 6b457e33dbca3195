--------------------------- MODULE TableOrderProofs ---------------------------
(***************************************************************************)
(* What needs the messages of a NetworkTables server in order: while none  *)
(* overtakes another, the id map of a client is exact for the entries that *)
(* one node writes, whatever is queued and under way, whatever connections *)
(* are lost, and for any entries, values, clients, changes and faults.     *)
(*                                                                         *)
(* Of what is on its way to a client (Line) each prefix leaves some ids    *)
(* alive: those the client knows or is told of, and that are not freed     *)
(* again.  A line is in order (InTurn) when in every prefix at most one id *)
(* of an entry is alive, and up to date (InTable) when what is alive at    *)
(* its end is what the server's id map shows.  The server only ever adds   *)
(* to the end, where its own id map has one id per entry; merging and      *)
(* knocking out messages leaves fewer ids alive; and what a client has     *)
(* read it knows.                                                          *)
(***************************************************************************)
EXTENDS NetworkTablesProofs

Solo(n)   == n \in Names /\ OneWriter(n)
Own(x, n) == n \in Names /\ Writers[n] = {x}

(***************************************************************************)
(* Lines of messages.                                                      *)
(***************************************************************************)

Frees(m, i)  == m.type = "clear" \/ (m.type = "delete" /\ m.id = i)

\* What gives c an id: an update counts since a later assignment may be merged into
\* its place; but not for the one who writes the entry, who may have freed the id.
Binds(f, c, m, i) ==
  Solo(f[i]) /\ IF Own(c, f[i]) THEN NamesId(m, i) ELSE Gives(m, i)

\* B is what c knows before it reads the line L.
Given(f, c, B, L, p, i) ==
  IF p = 0 THEN i \in B /\ Solo(f[i]) ELSE Binds(f, c, L[p], i)

Alive(f, c, B, L, q) ==
  {i \in Ids : \E p \in 0 .. q : /\ Given(f, c, B, L, p, i)
                                 /\ \A r \in (p + 1) .. q : ~Frees(L[r], i)}

InTurn(f, c, B, L) ==
  \A q \in 0 .. Len(L) : \A i, j \in Alive(f, c, B, L, q) : f[i] = f[j] => i = j

InTable(f, c, B, L, idmap) ==
  \A i \in Alive(f, c, B, L, Len(L)) : idmap[i] = f[i]

InOrder(f, c, B, L, idmap) == InTurn(f, c, B, L) /\ InTable(f, c, B, L, idmap)

\* Fewer ids are alive in a line of which each prefix is one of the other's, or less.
LEMMA LessAlive ==
  ASSUME NEW f, NEW c, NEW B, NEW L \in Seq(Posts), NEW C, NEW K \in Seq(Posts), NEW idmap,
         InOrder(f, c, B, L, idmap),
         \A k \in 0 .. Len(K) : \E q \in 0 .. Len(L) :
           Alive(f, c, C, K, k) \subseteq Alive(f, c, B, L, q),
         Alive(f, c, C, K, Len(K)) \subseteq Alive(f, c, B, L, Len(L))
  PROVE  InOrder(f, c, C, K, idmap)
<1>1. InTurn(f, c, C, K)
  <2>1. SUFFICES ASSUME NEW k \in 0 .. Len(K), NEW i \in Alive(f, c, C, K, k),
                        NEW j \in Alive(f, c, C, K, k), f[i] = f[j]
                 PROVE  i = j
    BY DEF InTurn
  <2>2. PICK q \in 0 .. Len(L) : Alive(f, c, C, K, k) \subseteq Alive(f, c, B, L, q)
    OBVIOUS
  <2>3. i \in Alive(f, c, B, L, q) /\ j \in Alive(f, c, B, L, q)
    BY <2>1, <2>2
  <2> QED BY <2>1, <2>3 DEF InOrder, InTurn
<1>2. InTable(f, c, C, K, idmap)
  BY DEF InOrder, InTable
<1> QED BY <1>1, <1>2 DEF InOrder

\* k may stand for l in a line: it gives no more and frees no less.
Milder(f, c, k, l) ==
  \A i \in Ids : (Binds(f, c, k, i) => Binds(f, c, l, i)) /\ (Frees(l, i) => Frees(k, i))

LEMMA MilderAlive ==
  ASSUME NEW f, NEW c, NEW B, NEW L, NEW C, NEW K, C \subseteq B, NEW q \in Nat,
         \A k \in 1 .. q : Milder(f, c, K[k], L[k])
  PROVE  Alive(f, c, C, K, q) \subseteq Alive(f, c, B, L, q)
<1>1. SUFFICES ASSUME NEW i \in Alive(f, c, C, K, q) PROVE i \in Alive(f, c, B, L, q)
  OBVIOUS
<1>2. PICK p \in 0 .. q : Given(f, c, C, K, p, i) /\ \A r \in (p + 1) .. q : ~Frees(K[r], i)
  BY <1>1 DEF Alive
<1>3. i \in Ids
  BY <1>1 DEF Alive
<1>4. Given(f, c, B, L, p, i)
  <2>1. CASE p = 0
    BY <1>2, <2>1 DEF Given
  <2>2. CASE p # 0
    <3>1. p \in 1 .. q
      BY <2>2
    <3> QED BY <1>2, <1>3, <2>2, <3>1 DEF Given, Milder
  <2> QED BY <2>1, <2>2
<1>5. \A r \in (p + 1) .. q : ~Frees(L[r], i)
  <2>1. SUFFICES ASSUME NEW r \in (p + 1) .. q PROVE ~Frees(L[r], i)
    OBVIOUS
  <2>2. r \in 1 .. q
    OBVIOUS
  <2> QED BY <1>2, <1>3, <2>2 DEF Milder
<1> QED BY <1>3, <1>4, <1>5 DEF Alive

\* A line of milder messages.
LEMMA MilderLine ==
  ASSUME NEW f, NEW c, NEW B, NEW L \in Seq(Posts), NEW C, NEW K \in Seq(Posts), NEW idmap,
         InOrder(f, c, B, L, idmap), C \subseteq B, Len(K) = Len(L),
         \A k \in 1 .. Len(K) : Milder(f, c, K[k], L[k])
  PROVE  InOrder(f, c, C, K, idmap)
<1>1. Len(K) \in Nat
  OBVIOUS
<1>2. \A k \in 0 .. Len(K) : Alive(f, c, C, K, k) \subseteq Alive(f, c, B, L, k)
  <2>1. SUFFICES ASSUME NEW k \in 0 .. Len(K)
                 PROVE  Alive(f, c, C, K, k) \subseteq Alive(f, c, B, L, k)
    OBVIOUS
  <2>2. k \in Nat /\ \A r \in 1 .. k : Milder(f, c, K[r], L[r])
    BY <1>1
  <2> QED BY <2>2, MilderAlive
<1>3. \A k \in 0 .. Len(K) : \E q \in 0 .. Len(L) :
        Alive(f, c, C, K, k) \subseteq Alive(f, c, B, L, q)
  BY <1>2
<1>4. Alive(f, c, C, K, Len(K)) \subseteq Alive(f, c, B, L, Len(L))
  BY <1>1, <1>2
<1> QED BY <1>3, <1>4, LessAlive

\* A message that frees nothing is left out, since it was merged or is for others.
LEMMA ShorterLine ==
  ASSUME NEW f, NEW c, NEW B, NEW L \in Seq(Posts), NEW K \in Seq(Posts), NEW idmap,
         InOrder(f, c, B, L, idmap), NEW n \in 0 .. Len(K), Len(L) = Len(K) + 1,
         \A k \in 1 .. n : Milder(f, c, K[k], L[k]),
         \A k \in (n + 1) .. Len(K) : K[k] = L[k + 1],
         \A i \in Ids : ~Frees(L[n + 1], i)
  PROVE  InOrder(f, c, B, K, idmap)
<1>1. Len(K) \in Nat /\ n \in Nat
  OBVIOUS
<1>2. ASSUME NEW q \in n .. Len(K)
      PROVE  Alive(f, c, B, K, q) \subseteq Alive(f, c, B, L, q + 1)
  <2>1. SUFFICES ASSUME NEW i \in Alive(f, c, B, K, q) PROVE i \in Alive(f, c, B, L, q + 1)
    OBVIOUS
  <2>2. i \in Ids
    BY <2>1 DEF Alive
  <2>3. PICK p \in 0 .. q : Given(f, c, B, K, p, i) /\ \A r \in (p + 1) .. q : ~Frees(K[r], i)
    BY <2>1 DEF Alive
  <2>4. ASSUME NEW s \in 0 .. (q + 1), Given(f, c, B, L, s, i),
               \A r \in (s + 1) .. (q + 1) : ~Frees(L[r], i)
        PROVE  i \in Alive(f, c, B, L, q + 1)
    BY <2>2, <2>4 DEF Alive
  <2>5. CASE p <= n
    <3>1. Given(f, c, B, L, p, i)
      <4>1. CASE p = 0
        BY <2>3, <4>1 DEF Given
      <4>2. CASE p # 0
        <5>1. p \in 1 .. n
          BY <2>5, <4>2
        <5> QED BY <2>2, <2>3, <4>2, <5>1 DEF Given, Milder
      <4> QED BY <4>1, <4>2
    <3>2. ASSUME NEW r \in (p + 1) .. (q + 1) PROVE ~Frees(L[r], i)
      <4>1. CASE r <= n
        <5>1. r \in 1 .. n /\ r \in (p + 1) .. q
          BY <1>1, <4>1
        <5> QED BY <2>2, <2>3, <5>1 DEF Milder
      <4>2. CASE r = n + 1
        BY <2>2, <4>2
      <4>3. CASE r > n + 1
        <5>1. PICK u \in (n + 1) .. q : r = u + 1
          <6>1. r - 1 \in (n + 1) .. q /\ r = (r - 1) + 1
            BY <1>1, <4>3
          <6> QED BY <6>1
        <5>2. u \in (p + 1) .. q /\ u \in (n + 1) .. Len(K)
          BY <1>1, <2>5, <5>1
        <5> QED BY <2>3, <5>1, <5>2
      <4> QED BY <1>1, <4>1, <4>2, <4>3
    <3>3. p \in 0 .. (q + 1)
      BY <1>1
    <3> QED BY <2>4, <3>1, <3>2, <3>3
  <2>6. CASE p > n
    <3>1. PICK s \in 1 .. (q + 1) : s = p + 1
      BY <1>1, <2>6
    <3>2. p \in (n + 1) .. Len(K) /\ p # 0 /\ s # 0
      BY <1>1, <2>6, <3>1
    <3>3. Given(f, c, B, L, s, i)
      BY <2>3, <3>1, <3>2 DEF Given
    <3>4. ASSUME NEW r \in (s + 1) .. (q + 1) PROVE ~Frees(L[r], i)
      <4>1. PICK u \in (p + 1) .. q : r = u + 1
        <5>1. r - 1 \in (p + 1) .. q /\ r = (r - 1) + 1
          BY <1>1, <3>1
        <5> QED BY <5>1
      <4>2. u \in (n + 1) .. Len(K)
        BY <1>1, <2>6, <4>1
      <4> QED BY <2>3, <4>1, <4>2
    <3> QED BY <2>4, <3>1, <3>3, <3>4
  <2> QED BY <1>1, <2>5, <2>6
<1>3. ASSUME NEW q \in 0 .. n
      PROVE  Alive(f, c, B, K, q) \subseteq Alive(f, c, B, L, q)
  <2>1. q \in Nat /\ \A k \in 1 .. q : Milder(f, c, K[k], L[k])
    BY <1>1
  <2> QED BY <2>1, MilderAlive
<1>4. \A k \in 0 .. Len(K) : \E q \in 0 .. Len(L) :
        Alive(f, c, B, K, k) \subseteq Alive(f, c, B, L, q)
  <2>1. SUFFICES ASSUME NEW k \in 0 .. Len(K)
                 PROVE  \E q \in 0 .. Len(L) : Alive(f, c, B, K, k) \subseteq Alive(f, c, B, L, q)
    OBVIOUS
  <2>2. CASE k <= n
    <3>1. k \in 0 .. n /\ k \in 0 .. Len(L)
      BY <1>1, <2>2
    <3> QED BY <1>3, <3>1
  <2>3. CASE k > n
    <3>1. k \in n .. Len(K) /\ k + 1 \in 0 .. Len(L)
      BY <1>1, <2>3
    <3> QED BY <1>2, <3>1
  <2> QED BY <1>1, <2>2, <2>3
<1>5. Alive(f, c, B, K, Len(K)) \subseteq Alive(f, c, B, L, Len(L))
  BY <1>1, <1>2
<1> QED BY <1>4, <1>5, LessAlive

\* A ClearEntries knocks out what was queued before it.
LEMMA ClearedLine ==
  ASSUME NEW f, NEW c, NEW B, NEW L \in Seq(Posts), NEW K \in Seq(Posts), NEW idmap,
         InOrder(f, c, B, L, idmap), Len(K) = Len(L), NEW a \in Nat, NEW n \in a .. Len(L),
         n + 1 <= Len(L), L[n + 1].type = "clear",
         \A k \in 1 .. Len(K) : K[k] = IF k \in (a + 1) .. n THEN Q!None ELSE L[k]
  PROVE  InOrder(f, c, B, K, idmap)
<1>1. Len(K) \in Nat /\ n \in Nat
  OBVIOUS
<1>2. Q!None.type = "none"
  BY DEF Q!None
<1>3. \A i : ~Binds(f, c, Q!None, i) /\ ~Frees(Q!None, i)
  BY <1>2 DEF Binds, NamesId, Gives, Frees
<1>4. ASSUME NEW q \in 0 .. a
      PROVE  Alive(f, c, B, K, q) \subseteq Alive(f, c, B, L, q)
  <2>1. q \in Nat /\ \A k \in 1 .. q : K[k] = L[k]
    BY <1>1
  <2>2. \A k \in 1 .. q : Milder(f, c, K[k], L[k])
    BY <2>1 DEF Milder
  <2> QED BY <2>1, <2>2, MilderAlive
<1>5. ASSUME NEW q \in a .. n
      PROVE  Alive(f, c, B, K, q) \subseteq Alive(f, c, B, L, a)
  <2>1. SUFFICES ASSUME NEW i \in Alive(f, c, B, K, q) PROVE i \in Alive(f, c, B, K, a)
    BY <1>4
  <2>2. PICK p \in 0 .. q : Given(f, c, B, K, p, i) /\ \A r \in (p + 1) .. q : ~Frees(K[r], i)
    BY <2>1 DEF Alive
  <2>3. p \in 0 .. a
    <3>1. CASE p \in (a + 1) .. n
      <4>1. K[p] = Q!None /\ p # 0
        BY <1>1, <3>1
      <4> QED BY <1>3, <2>2, <4>1 DEF Given
    <3> QED BY <1>1, <3>1
  <2>4. \A r \in (p + 1) .. a : ~Frees(K[r], i)
    BY <1>1, <2>2
  <2>5. i \in Ids
    BY <2>1 DEF Alive
  <2> QED BY <2>2, <2>3, <2>4, <2>5 DEF Alive
<1>6. ASSUME NEW q \in (n + 1) .. Len(K)
      PROVE  Alive(f, c, B, K, q) \subseteq Alive(f, c, B, L, q)
  <2>1. SUFFICES ASSUME NEW i \in Alive(f, c, B, K, q) PROVE i \in Alive(f, c, B, L, q)
    OBVIOUS
  <2>2. PICK p \in 0 .. q : Given(f, c, B, K, p, i) /\ \A r \in (p + 1) .. q : ~Frees(K[r], i)
    BY <2>1 DEF Alive
  <2>3. n + 1 \in 1 .. Len(K) /\ n + 1 \notin (a + 1) .. n
    BY <1>1
  <2>4. Frees(K[n + 1], i)
    BY <2>3 DEF Frees
  <2>5. p \in (n + 1) .. q
    BY <1>1, <2>2, <2>4
  <2>6. \A r \in (n + 1) .. q : K[r] = L[r]
    BY <1>1
  <2>7. Given(f, c, B, L, p, i)
    BY <1>1, <2>2, <2>5, <2>6 DEF Given
  <2>8. \A r \in (p + 1) .. q : ~Frees(L[r], i)
    BY <1>1, <2>2, <2>5, <2>6
  <2>9. i \in Ids /\ p \in 0 .. q
    BY <2>1 DEF Alive
  <2> QED BY <2>7, <2>8, <2>9 DEF Alive
<1>7. ASSUME NEW k \in 0 .. Len(K)
      PROVE  \E q \in 0 .. Len(L) : Alive(f, c, B, K, k) \subseteq Alive(f, c, B, L, q)
  <2>1. CASE k \in 0 .. a
    <3>1. k \in 0 .. Len(L)
      OBVIOUS
    <3> QED BY <1>4, <2>1, <3>1
  <2>2. CASE k \in a .. n
    <3>1. a \in 0 .. Len(L)
      BY <1>1
    <3> QED BY <1>5, <2>2, <3>1
  <2>3. CASE k \in (n + 1) .. Len(K)
    <3>1. k \in 0 .. Len(L)
      OBVIOUS
    <3> QED BY <1>6, <2>3, <3>1
  <2> QED BY <1>1, <2>1, <2>2, <2>3
<1>8. Alive(f, c, B, K, Len(K)) \subseteq Alive(f, c, B, L, Len(L))
  <2>1. Len(K) \in (n + 1) .. Len(K)
    BY <1>1
  <2> QED BY <1>6, <2>1
<1> QED BY <1>7, <1>8, LessAlive

\* The server says something more: what it frees is not in its id map any more, and
\* what it gives is.
LEMMA LongerLine ==
  ASSUME NEW f, NEW c, NEW B, NEW L \in Seq(Posts), NEW m \in Posts, NEW idmap,
         InOrder(f, c, B, L, idmap), NEW now,
         \A i, j \in Ids : now[i] # NoName /\ now[i] = now[j] => i = j,
         \A i \in Alive(f, c, B, L, Len(L)) : idmap[i] = f[i] /\ ~Frees(m, i) => now[i] = f[i],
         \A i \in Ids : Binds(f, c, m, i) => now[i] = f[i]
  PROVE  InOrder(f, c, B, Append(L, m), now)
<1>1. PICK K \in Seq(Posts) : K = Append(L, m)
  BY AppendProperties
<1>2. /\ Len(K) = Len(L) + 1 /\ Len(L) \in Nat
      /\ K[Len(L) + 1] = m /\ \A k \in 1 .. Len(L) : K[k] = L[k]
  BY <1>1
<1>3. ASSUME NEW q \in 0 .. Len(L), NEW i \in Alive(f, c, B, K, q)
      PROVE  i \in Alive(f, c, B, L, q)
  <2>1. q \in Nat /\ \A k \in 1 .. q : K[k] = L[k]
    BY <1>2
  <2>2. \A k \in 1 .. q : Milder(f, c, K[k], L[k])
    BY <2>1 DEF Milder
  <2> QED BY <1>3, <2>1, <2>2, MilderAlive
<1>4. ASSUME NEW i \in Alive(f, c, B, K, Len(K)) PROVE now[i] = f[i] /\ f[i] # NoName
  <2>1. i \in Ids
    BY <1>4 DEF Alive
  <2>2. PICK p \in 0 .. Len(K) : Given(f, c, B, K, p, i) /\ \A r \in (p + 1) .. Len(K) : ~Frees(K[r], i)
    BY <1>4 DEF Alive
  <2>3. f[i] # NoName
    BY <2>2, StorageAssumption DEF Given, Binds, Solo
  <2>4. CASE p = Len(K)
    <3>1. Binds(f, c, m, i)
      BY <1>2, <2>2, <2>4 DEF Given
    <3> QED BY <2>1, <2>3, <3>1
  <2>5. CASE p # Len(K)
    <3>1. p \in 0 .. Len(L) /\ Len(K) \in (p + 1) .. Len(K)
      BY <1>2, <2>5
    <3>2. ~Frees(m, i)
      BY <1>2, <2>2, <3>1
    <3>3. i \in Alive(f, c, B, L, Len(L))
      <4>1. Given(f, c, B, L, p, i)
        BY <1>2, <2>2, <3>1 DEF Given
      <4>2. \A r \in (p + 1) .. Len(L) : ~Frees(L[r], i)
        BY <1>2, <2>2, <3>1
      <4> QED BY <2>1, <3>1, <4>1, <4>2 DEF Alive
    <3>4. idmap[i] = f[i]
      BY <3>3 DEF InOrder, InTable
    <3> QED BY <2>3, <3>2, <3>3, <3>4
  <2> QED BY <2>4, <2>5
<1>5. InTurn(f, c, B, K)
  <2>1. SUFFICES ASSUME NEW q \in 0 .. Len(K), NEW i \in Alive(f, c, B, K, q),
                        NEW j \in Alive(f, c, B, K, q), f[i] = f[j]
                 PROVE  i = j
    BY DEF InTurn
  <2>2. CASE q \in 0 .. Len(L)
    <3>1. i \in Alive(f, c, B, L, q) /\ j \in Alive(f, c, B, L, q)
      BY <1>3, <2>2
    <3> QED BY <2>1, <2>2, <3>1 DEF InOrder, InTurn
  <2>3. CASE q = Len(K)
    <3>1. now[i] = f[i] /\ f[i] # NoName /\ now[j] = f[j]
      BY <1>4, <2>3
    <3>2. i \in Ids /\ j \in Ids
      BY <2>1 DEF Alive
    <3> QED BY <2>1, <3>1, <3>2
  <2> QED BY <1>2, <2>2, <2>3
<1>6. InTable(f, c, B, K, now)
  BY <1>4 DEF InTable
<1> QED BY <1>1, <1>5, <1>6 DEF InOrder

\* c reads the first message of the line: it knows what it was given and not freed.
LEMMA ReadLine ==
  ASSUME NEW f, NEW c, NEW B, NEW L \in Seq(Posts), NEW idmap,
         InOrder(f, c, B, L, idmap), L # <<>>, NEW C, NEW K \in Seq(Posts), K = Tail(L),
         \A i \in Ids : i \in C /\ Solo(f[i]) =>
           (i \in B /\ ~Frees(L[1], i)) \/ Binds(f, c, L[1], i)
  PROVE  InOrder(f, c, C, K, idmap)
<1>1. /\ Len(L) \in Nat /\ Len(L) = Len(K) + 1 /\ Len(K) \in Nat
      /\ \A k \in 1 .. Len(K) : K[k] = L[k + 1]
  OBVIOUS
<1>2. ASSUME NEW q \in 0 .. Len(K)
      PROVE  Alive(f, c, C, K, q) \subseteq Alive(f, c, B, L, q + 1)
  <2>1. SUFFICES ASSUME NEW i \in Alive(f, c, C, K, q) PROVE i \in Alive(f, c, B, L, q + 1)
    OBVIOUS
  <2>2. i \in Ids
    BY <2>1 DEF Alive
  <2>3. PICK p \in 0 .. q : Given(f, c, C, K, p, i) /\ \A r \in (p + 1) .. q : ~Frees(K[r], i)
    BY <2>1 DEF Alive
  <2>4. ASSUME NEW r \in (p + 2) .. (q + 1) PROVE ~Frees(L[r], i)
    <3>1. PICK u \in (p + 1) .. q : r = u + 1
      <4>1. r - 1 \in (p + 1) .. q /\ r = (r - 1) + 1
        BY <1>1
      <4> QED BY <4>1
    <3> QED BY <1>1, <2>3, <3>1
  <2>5. CASE p # 0
    <3>1. PICK s \in 0 .. (q + 1) : s = p + 1 /\ s # 0
      BY <1>1
    <3>2. Given(f, c, B, L, s, i)
      BY <1>1, <2>3, <2>5, <3>1 DEF Given
    <3>3. \A r \in (s + 1) .. (q + 1) : ~Frees(L[r], i)
      BY <1>1, <2>4, <3>1
    <3> QED BY <2>2, <3>1, <3>2, <3>3 DEF Alive
  <2>6. CASE p = 0 /\ Binds(f, c, L[1], i)
    <3>1. Given(f, c, B, L, 1, i) /\ 1 \in 0 .. (q + 1)
      BY <1>1, <2>6 DEF Given
    <3>2. \A r \in (1 + 1) .. (q + 1) : ~Frees(L[r], i)
      BY <1>1, <2>4, <2>6
    <3> QED BY <2>2, <3>1, <3>2 DEF Alive
  <2>7. CASE p = 0 /\ ~Binds(f, c, L[1], i)
    <3>1. i \in B /\ Solo(f[i]) /\ ~Frees(L[1], i)
      BY <2>2, <2>3, <2>7 DEF Given
    <3>2. Given(f, c, B, L, 0, i) /\ 0 \in 0 .. (q + 1)
      BY <1>1, <3>1 DEF Given
    <3>3. \A r \in (0 + 1) .. (q + 1) : ~Frees(L[r], i)
      BY <1>1, <2>4, <2>7, <3>1
    <3> QED BY <2>2, <3>2, <3>3 DEF Alive
  <2> QED BY <2>5, <2>6, <2>7
<1>3. \A k \in 0 .. Len(K) : \E q \in 0 .. Len(L) :
        Alive(f, c, C, K, k) \subseteq Alive(f, c, B, L, q)
  <2>1. SUFFICES ASSUME NEW k \in 0 .. Len(K)
                 PROVE  \E q \in 0 .. Len(L) : Alive(f, c, C, K, k) \subseteq Alive(f, c, B, L, q)
    OBVIOUS
  <2>2. k + 1 \in 0 .. Len(L)
    BY <1>1
  <2> QED BY <1>2, <2>2
<1>4. Alive(f, c, C, K, Len(K)) \subseteq Alive(f, c, B, L, Len(L))
  BY <1>1, <1>2
<1> QED BY <1>3, <1>4, LessAlive
-----------------------------------------------------------------------------
\* To the one who writes an entry an id of it is always a new one.
NewOnly(f, c, B, L) ==
  \A i \in Ids, p \in DOMAIN L :
    Own(c, f[i]) /\ NamesId(L[p], i) => i \notin B /\ \A q \in 1 .. (p - 1) : ~Gives(L[q], i)

\* Every id that is known or told of has a name.
AllNamed(f, B, L) ==
  /\ B \subseteq Ids /\ \A i \in B : f[i] # NoName
  /\ \A i \in Ids, p \in DOMAIN L : Gives(L[p], i) => f[i] # NoName

LineOK(f, c, B, L, idmap) ==
  InOrder(f, c, B, L, idmap) /\ NewOnly(f, c, B, L) /\ AllNamed(f, B, L)

\* k tells of no id that l does not tell of.
TellsLess(f, c, k, l) ==
  \A i \in Ids : /\ Gives(k, i) => Gives(l, i)
                 /\ Own(c, f[i]) /\ NamesId(k, i) => NamesId(l, i)

LEMMA LessNews ==
  ASSUME NEW f, NEW c, NEW B, NEW L \in Seq(Posts), NEW C, NEW K \in Seq(Posts),
         NewOnly(f, c, B, L), AllNamed(f, B, L),
         C \subseteq Ids, \A i \in C : f[i] # NoName,
         NEW g, \A k \in 1 .. Len(K) : g[k] \in 1 .. Len(L) /\ TellsLess(f, c, K[k], L[g[k]]),
         \A k, l \in 1 .. Len(K) : k < l => g[k] < g[l],
         \A i \in Ids, k \in 1 .. Len(K) :
           i \in C /\ Own(c, f[i]) /\ i \notin B => ~NamesId(K[k], i)
  PROVE  NewOnly(f, c, C, K) /\ AllNamed(f, C, K)
<1>1. AllNamed(f, C, K)
  BY DEF AllNamed, TellsLess
<1>2. NewOnly(f, c, C, K)
  <2>1. SUFFICES ASSUME NEW i \in Ids, NEW p \in 1 .. Len(K), Own(c, f[i]), NamesId(K[p], i)
                 PROVE  i \notin C /\ \A q \in 1 .. (p - 1) : ~Gives(K[q], i)
    BY DEF NewOnly
  <2>2. g[p] \in 1 .. Len(L) /\ NamesId(L[g[p]], i)
    BY <2>1 DEF TellsLess
  <2>3. i \notin B /\ \A q \in 1 .. (g[p] - 1) : ~Gives(L[q], i)
    BY <2>1, <2>2 DEF NewOnly
  <2>4. i \notin C
    BY <2>1, <2>3
  <2>5. ASSUME NEW q \in 1 .. (p - 1), Gives(K[q], i) PROVE FALSE
    <3>1. q \in 1 .. Len(K) /\ q < p
      OBVIOUS
    <3>2. g[q] \in 1 .. Len(L) /\ g[q] < g[p] /\ Gives(L[g[q]], i)
      BY <2>5, <3>1 DEF TellsLess
    <3>3. g[q] \in 1 .. (g[p] - 1)
      BY <2>2, <3>2
    <3> QED BY <2>3, <3>2, <3>3
  <2> QED BY <2>4, <2>5
<1> QED BY <1>1, <1>2

\* What is told less of is milder, if it frees as much.
LEMMA LessIsMilder ==
  ASSUME NEW f, NEW c, NEW k, NEW l, TellsLess(f, c, k, l),
         \A i \in Ids : Frees(l, i) => Frees(k, i)
  PROVE  Milder(f, c, k, l)
BY DEF Milder, TellsLess, Binds

LEMMA SameTells ==
  ASSUME NEW f, NEW c, NEW k
  PROVE  TellsLess(f, c, k, k) /\ Milder(f, c, k, k) /\ TellsLess(f, c, Q!None, k)
BY DEF TellsLess, Milder, Gives, NamesId, Q!None

\* The five ways a line changes.
LEMMA FitsMilder ==
  ASSUME NEW f, NEW c, NEW B, NEW L \in Seq(Posts), NEW C, NEW K \in Seq(Posts), NEW idmap,
         LineOK(f, c, B, L, idmap), C \subseteq B, Len(K) = Len(L),
         \A k \in 1 .. Len(K) : TellsLess(f, c, K[k], L[k])
                                /\ \A i \in Ids : Frees(L[k], i) => Frees(K[k], i)
  PROVE  LineOK(f, c, C, K, idmap)
<1>1. InOrder(f, c, C, K, idmap)
  BY MilderLine, LessIsMilder DEF LineOK
<1>2. PICK g : g = [k \in 1 .. Len(K) |-> k]
  OBVIOUS
<1>3. \A k \in 1 .. Len(K) : g[k] = k
  BY <1>2
<1>4. C \subseteq Ids /\ \A i \in C : f[i] # NoName
  BY DEF LineOK, AllNamed
<1>5. \A k \in 1 .. Len(K) : g[k] \in 1 .. Len(L) /\ TellsLess(f, c, K[k], L[g[k]])
  BY <1>3
<1>6. \A k, l \in 1 .. Len(K) : k < l => g[k] < g[l]
  BY <1>3
<1>7. NewOnly(f, c, C, K) /\ AllNamed(f, C, K)
  BY <1>4, <1>5, <1>6, LessNews DEF LineOK
<1> QED BY <1>1, <1>7 DEF LineOK

LEMMA FitsShorter ==
  ASSUME NEW f, NEW c, NEW B, NEW L \in Seq(Posts), NEW K \in Seq(Posts), NEW idmap,
         LineOK(f, c, B, L, idmap), NEW n \in 0 .. Len(K), Len(L) = Len(K) + 1,
         \A k \in 1 .. n : TellsLess(f, c, K[k], L[k])
                           /\ \A i \in Ids : Frees(L[k], i) => Frees(K[k], i),
         \A k \in (n + 1) .. Len(K) : K[k] = L[k + 1],
         \A i \in Ids : ~Frees(L[n + 1], i)
  PROVE  LineOK(f, c, B, K, idmap)
<1>0. Len(K) \in Nat /\ n \in Nat
  OBVIOUS
<1>1. InOrder(f, c, B, K, idmap)
  <2>1. \A k \in 1 .. n : Milder(f, c, K[k], L[k])
    BY LessIsMilder
  <2> QED BY <2>1, ShorterLine DEF LineOK
<1>2. PICK g : g = [k \in 1 .. Len(K) |-> IF k <= n THEN k ELSE k + 1]
  OBVIOUS
<1>3. \A k \in 1 .. Len(K) : g[k] = IF k <= n THEN k ELSE k + 1
  BY <1>2
<1>4. B \subseteq Ids /\ \A i \in B : f[i] # NoName
  BY DEF LineOK, AllNamed
<1>5. ASSUME NEW k \in 1 .. Len(K)
      PROVE  g[k] \in 1 .. Len(L) /\ TellsLess(f, c, K[k], L[g[k]])
  <2>1. CASE k <= n
    <3>1. k \in 1 .. n /\ g[k] = k /\ k \in 1 .. Len(L)
      BY <1>0, <1>3, <2>1
    <3> QED BY <3>1
  <2>2. CASE ~(k <= n)
    <3>1. k \in (n + 1) .. Len(K) /\ g[k] = k + 1 /\ k + 1 \in 1 .. Len(L)
      BY <1>0, <1>3, <2>2
    <3>2. K[k] = L[g[k]]
      BY <3>1
    <3> QED BY <3>1, <3>2, SameTells
  <2> QED BY <2>1, <2>2
<1>6. \A k, l \in 1 .. Len(K) : k < l => g[k] < g[l]
  BY <1>0, <1>3
<1>7. NewOnly(f, c, B, K) /\ AllNamed(f, B, K)
  BY <1>4, <1>5, <1>6, LessNews DEF LineOK
<1> QED BY <1>1, <1>7 DEF LineOK

LEMMA FitsCleared ==
  ASSUME NEW f, NEW c, NEW B, NEW L \in Seq(Posts), NEW K \in Seq(Posts), NEW idmap,
         LineOK(f, c, B, L, idmap), Len(K) = Len(L), NEW a \in Nat, NEW n \in a .. Len(L),
         n + 1 <= Len(L), L[n + 1].type = "clear",
         \A k \in 1 .. Len(K) : K[k] = IF k \in (a + 1) .. n THEN Q!None ELSE L[k]
  PROVE  LineOK(f, c, B, K, idmap)
<1>1. InOrder(f, c, B, K, idmap)
  BY ClearedLine DEF LineOK
<1>2. PICK g : g = [k \in 1 .. Len(K) |-> k]
  OBVIOUS
<1>3. \A k \in 1 .. Len(K) : g[k] = k
  BY <1>2
<1>4. B \subseteq Ids /\ \A i \in B : f[i] # NoName
  BY DEF LineOK, AllNamed
<1>5. \A k \in 1 .. Len(K) : g[k] \in 1 .. Len(L) /\ TellsLess(f, c, K[k], L[g[k]])
  BY <1>3, SameTells
<1>6. \A k, l \in 1 .. Len(K) : k < l => g[k] < g[l]
  BY <1>3
<1>7. NewOnly(f, c, B, K) /\ AllNamed(f, B, K)
  BY <1>4, <1>5, <1>6, LessNews DEF LineOK
<1> QED BY <1>1, <1>7 DEF LineOK

LEMMA FitsLonger ==
  ASSUME NEW f, NEW c, NEW B, NEW L \in Seq(Posts), NEW m \in Posts, NEW idmap,
         LineOK(f, c, B, L, idmap), NEW now,
         \A i, j \in Ids : now[i] # NoName /\ now[i] = now[j] => i = j,
         \A i \in Alive(f, c, B, L, Len(L)) : idmap[i] = f[i] /\ ~Frees(m, i) => now[i] = f[i],
         \A i \in Ids : Gives(m, i) => now[i] = f[i] /\ f[i] # NoName,
         \A i \in Ids : Own(c, f[i]) /\ NamesId(m, i) =>
           i \notin B /\ \A k \in DOMAIN L : ~Gives(L[k], i)
  PROVE  LineOK(f, c, B, Append(L, m), now)
<1>1. PICK K \in Seq(Posts) : K = Append(L, m)
  BY AppendProperties
<1>2. /\ Len(K) = Len(L) + 1 /\ Len(L) \in Nat
      /\ K[Len(L) + 1] = m /\ \A k \in 1 .. Len(L) : K[k] = L[k]
  BY <1>1
<1>3. InOrder(f, c, B, K, now)
  <2>1. \A i \in Ids : Binds(f, c, m, i) => now[i] = f[i]
    BY DEF Binds, NamesId, Gives
  <2> QED BY <1>1, <2>1, LongerLine DEF LineOK
<1>4. AllNamed(f, B, K)
  <2>1. SUFFICES ASSUME NEW i \in Ids, NEW p \in 1 .. Len(K), Gives(K[p], i) PROVE f[i] # NoName
    BY DEF LineOK, AllNamed
  <2>2. CASE p = Len(L) + 1
    BY <1>2, <2>1, <2>2
  <2>3. CASE p # Len(L) + 1
    <3>1. p \in DOMAIN L /\ K[p] = L[p]
      BY <1>2, <2>3
    <3> QED BY <2>1, <3>1 DEF LineOK, AllNamed
  <2> QED BY <2>2, <2>3
<1>5. NewOnly(f, c, B, K)
  <2>1. SUFFICES ASSUME NEW i \in Ids, NEW p \in 1 .. Len(K), Own(c, f[i]), NamesId(K[p], i)
                 PROVE  i \notin B /\ \A q \in 1 .. (p - 1) : ~Gives(K[q], i)
    BY DEF NewOnly
  <2>2. CASE p = Len(L) + 1
    <3>1. i \notin B /\ \A k \in 1 .. Len(L) : ~Gives(L[k], i)
      BY <1>2, <2>1, <2>2
    <3>2. \A q \in 1 .. (p - 1) : q \in 1 .. Len(L) /\ K[q] = L[q]
      BY <1>2, <2>2
    <3> QED BY <3>1, <3>2
  <2>3. CASE p # Len(L) + 1
    <3>1. p \in 1 .. Len(L) /\ K[p] = L[p] /\ \A q \in 1 .. (p - 1) : K[q] = L[q]
      BY <1>2, <2>3
    <3> QED BY <2>1, <3>1 DEF LineOK, NewOnly
  <2> QED BY <2>2, <2>3
<1> QED BY <1>1, <1>3, <1>4, <1>5 DEF LineOK

LEMMA FitsRead ==
  ASSUME NEW f, NEW c, NEW B, NEW L \in Seq(Posts), NEW idmap,
         LineOK(f, c, B, L, idmap), L # <<>>, NEW C, NEW K \in Seq(Posts), K = Tail(L),
         C \subseteq Ids, c \in Nodes,
         \A i \in Ids : i \in C => (i \in B \/ NamesId(L[1], i))
                                  /\ (Solo(f[i]) /\ i \in B => ~Frees(L[1], i))
  PROVE  LineOK(f, c, C, K, idmap)
<1>0. /\ Len(L) \in Nat /\ Len(L) = Len(K) + 1 /\ Len(K) \in Nat
      /\ \A k \in 1 .. Len(K) : K[k] = L[k + 1]
  OBVIOUS
<1>1. InOrder(f, c, C, K, idmap)
  <2>1. \A i \in Ids : i \in C /\ Solo(f[i]) =>
          (i \in B /\ ~Frees(L[1], i)) \/ Binds(f, c, L[1], i)
    BY DEF Binds, NamesId, Gives
  <2> QED BY <2>1, ReadLine DEF LineOK
<1>2. PICK g : g = [k \in 1 .. Len(K) |-> k + 1]
  OBVIOUS
<1>3. \A k \in 1 .. Len(K) : g[k] = k + 1
  BY <1>2
<1>4. C \subseteq Ids /\ \A i \in C : f[i] # NoName
  <2>1. \A i \in Ids : NamesId(L[1], i) => f[i] # NoName
    BY <1>0 DEF LineOK, AllNamed, NamesId, Gives
  <2> QED BY <2>1 DEF LineOK, AllNamed
<1>5. \A k \in 1 .. Len(K) : g[k] \in 1 .. Len(L) /\ TellsLess(f, c, K[k], L[g[k]])
  BY <1>0, <1>3, SameTells
<1>6. \A k, l \in 1 .. Len(K) : k < l => g[k] < g[l]
  BY <1>3
<1>7. ASSUME NEW i \in Ids, NEW k \in 1 .. Len(K),
             i \in C, Own(c, f[i]), i \notin B, NamesId(K[k], i)
      PROVE  FALSE
  <2>1. NamesId(L[1], i)
    BY <1>7
  <2>2. k + 1 \in 1 .. Len(L) /\ NamesId(L[k + 1], i) /\ 1 \in 1 .. ((k + 1) - 1)
    BY <1>0, <1>7
  <2>3. ~Gives(L[1], i)
    BY <1>7, <2>2 DEF LineOK, NewOnly
  <2> QED BY <2>1, <2>3 DEF NamesId, Gives
<1>8. NewOnly(f, c, C, K) /\ AllNamed(f, C, K)
  BY <1>4, <1>5, <1>6, <1>7, LessNews DEF LineOK
<1> QED BY <1>1, <1>8 DEF LineOK
-----------------------------------------------------------------------------
(***************************************************************************)
(* What queueing the first message held does to a line.                    *)
(***************************************************************************)

\* L is what was posted, A, then what waits, X, and then what is still held, H.
Parts(L, A, X, H) ==
  /\ L \in Seq(Posts) /\ A \in Seq(Posts) /\ X \in Seq(Posts) /\ H \in Seq(Posts)
  /\ Len(L) = Len(A) + Len(X) + Len(H)
  /\ \A k \in 1 .. Len(A) : L[k] = A[k]
  /\ \A k \in 1 .. Len(X) : L[Len(A) + k] = X[k]
  /\ \A k \in 1 .. Len(H) : L[Len(A) + Len(X) + k] = H[k]

LEMMA JoinedAt ==
  ASSUME NEW S, NEW s \in Seq(S), NEW t \in Seq(S)
  PROVE  /\ s \o t \in Seq(S) /\ Len(s \o t) = Len(s) + Len(t)
         /\ \A k \in 1 .. Len(s) : (s \o t)[k] = s[k]
         /\ \A k \in 1 .. Len(t) : (s \o t)[Len(s) + k] = t[k]
<1>1. /\ s \o t \in Seq(S) /\ Len(s \o t) = Len(s) + Len(t)
      /\ \A k \in 1 .. (Len(s) + Len(t)) :
           (s \o t)[k] = IF k <= Len(s) THEN s[k] ELSE t[k - Len(s)]
  BY ConcatProperties
<1>2. Len(s) \in Nat /\ Len(t) \in Nat
  OBVIOUS
<1>3. ASSUME NEW k \in 1 .. Len(t) PROVE (s \o t)[Len(s) + k] = t[k]
  <2>1. PICK r : r = Len(s) + k
    OBVIOUS
  <2>2. r \in 1 .. (Len(s) + Len(t)) /\ ~(r <= Len(s)) /\ r - Len(s) = k
    BY <1>2, <2>1
  <2>3. (s \o t)[r] = t[r - Len(s)]
    BY <1>1, <2>2
  <2> QED BY <2>1, <2>2, <2>3
<1>4. \A k \in 1 .. Len(s) : (s \o t)[k] = s[k]
  BY <1>1, <1>2
<1> QED BY <1>1, <1>3, <1>4

LEMMA PartsOf ==
  ASSUME NEW A \in Seq(Posts), NEW X \in Seq(Posts), NEW H \in Seq(Posts)
  PROVE  Parts(A \o X \o H, A, X, H)
<1>1. PICK L : L = A \o X
  OBVIOUS
<1>2. /\ L \in Seq(Posts) /\ Len(L) = Len(A) + Len(X)
      /\ \A k \in 1 .. Len(A) : L[k] = A[k]
      /\ \A k \in 1 .. Len(X) : L[Len(A) + k] = X[k]
  BY <1>1, JoinedAt
<1>3. PICK K : K = L \o H
  OBVIOUS
<1>4. /\ K \in Seq(Posts) /\ Len(K) = Len(L) + Len(H)
      /\ \A k \in 1 .. Len(L) : K[k] = L[k]
      /\ \A k \in 1 .. Len(H) : K[Len(L) + k] = H[k]
  <2>1. L \in Seq(Posts)
    BY <1>2
  <2>2. /\ L \o H \in Seq(Posts) /\ Len(L \o H) = Len(L) + Len(H)
        /\ \A k \in 1 .. Len(L) : (L \o H)[k] = L[k]
        /\ \A k \in 1 .. Len(H) : (L \o H)[Len(L) + k] = H[k]
    BY <2>1, JoinedAt
  <2> QED BY <1>3, <2>2
<1>5. Len(A) \in Nat /\ Len(X) \in Nat /\ Len(H) \in Nat
  OBVIOUS
<1>6. \A k \in 1 .. Len(A) : K[k] = A[k]
  BY <1>2, <1>4, <1>5
<1>7. ASSUME NEW k \in 1 .. Len(X) PROVE K[Len(A) + k] = X[k]
  <2>1. Len(A) + k \in 1 .. Len(L)
    BY <1>2, <1>5
  <2> QED BY <1>2, <1>4, <2>1
<1>8. Len(K) = Len(A) + Len(X) + Len(H)
  BY <1>2, <1>4, <1>5
<1>9. \A k \in 1 .. Len(H) : K[Len(A) + Len(X) + k] = H[k]
  BY <1>2, <1>4
<1> QED BY <1>1, <1>3, <1>4, <1>6, <1>7, <1>8, <1>9 DEF Parts

\* The first message held is queued.
LEMMA LineQueued ==
  ASSUME NEW f, NEW c, NEW B, NEW idmap, NEW A, NEW X, NEW Y, NEW G, NEW H, NEW L, NEW K,
         NEW m \in Msgs, Queued(X, Y, m), Parts(L, A, X, G), Parts(K, A, Y, H),
         Len(G) = Len(H) + 1, G[1] = m, \A k \in 1 .. Len(H) : H[k] = G[k + 1],
         LineOK(f, c, B, L, idmap)
  PROVE  LineOK(f, c, B, K, idmap)
<1>1. PICK a \in Nat, x \in Nat, h \in Nat : a = Len(A) /\ x = Len(X) /\ h = Len(H)
  BY DEF Parts
<1>2. L \in Seq(Posts) /\ K \in Seq(Posts) /\ X \in Seq(Posts) /\ Y \in Seq(Posts)
  BY DEF Parts
<1>3. /\ Len(L) = a + x + h + 1
      /\ \A k \in 1 .. a : L[k] = A[k]
      /\ \A k \in 1 .. x : L[a + k] = X[k]
      /\ L[a + x + 1] = m
      /\ \A k \in 1 .. h : L[a + x + 1 + k] = H[k]
  <2>1. Len(L) = a + x + (h + 1) /\ \A k \in 1 .. (h + 1) : L[a + x + k] = G[k]
    BY <1>1 DEF Parts
  <2>2. ASSUME NEW k \in 1 .. h PROVE L[a + x + 1 + k] = H[k]
    <3>1. PICK r : r = k + 1
      OBVIOUS
    <3>2. r \in 1 .. (h + 1) /\ a + x + 1 + k = a + x + r
      BY <3>1
    <3>3. L[a + x + r] = G[r] /\ G[r] = H[k]
      BY <1>1, <2>1, <3>1, <3>2
    <3> QED BY <3>2, <3>3
  <2>3. 1 \in 1 .. (h + 1) /\ Len(L) = a + x + h + 1
    BY <2>1
  <2>4. /\ \A k \in 1 .. a : L[k] = A[k]
        /\ \A k \in 1 .. x : L[a + k] = X[k]
    BY <1>1 DEF Parts
  <2> QED BY <2>1, <2>2, <2>3, <2>4
<1>4. ASSUME NEW y \in Nat, y = Len(Y)
      PROVE  /\ Len(K) = a + y + h
             /\ \A k \in 1 .. a : K[k] = A[k]
             /\ \A k \in 1 .. y : K[a + k] = Y[k]
             /\ \A k \in 1 .. h : K[a + y + k] = H[k]
  BY <1>1, <1>4 DEF Parts
<1>5. CASE Y = Append(X, m)
  <2>1. Len(Y) = x + 1 /\ Y[x + 1] = m /\ \A k \in 1 .. x : Y[k] = X[k]
    BY <1>1, <1>2, <1>5
  <2>2. /\ Len(K) = a + x + 1 + h
        /\ \A k \in 1 .. a : K[k] = A[k]
        /\ \A k \in 1 .. (x + 1) : K[a + k] = Y[k]
        /\ \A k \in 1 .. h : K[a + (x + 1) + k] = H[k]
    BY <1>4, <2>1
  <2>3. ASSUME NEW k \in 1 .. Len(K) PROVE K[k] = L[k]
    <3>1. CASE k <= a
      BY <1>3, <2>2, <3>1
    <3>2. CASE k > a /\ k <= a + x + 1
      <4>1. PICK r \in 1 .. (x + 1) : k = a + r
        <5>1. k - a \in 1 .. (x + 1) /\ k = a + (k - a)
          BY <3>2
        <5> QED BY <5>1
      <4>2. CASE r = x + 1
        <5>1. K[k] = m
          BY <2>1, <2>2, <4>1, <4>2
        <5>2. k = a + x + 1
          BY <4>1, <4>2
        <5> QED BY <1>3, <5>1, <5>2
      <4>3. CASE r # x + 1
        <5>1. r \in 1 .. x
          BY <4>3
        <5> QED BY <1>3, <2>1, <2>2, <4>1, <5>1
      <4> QED BY <4>2, <4>3
    <3>3. CASE k > a + x + 1
      <4>1. PICK r \in 1 .. h : k = a + x + 1 + r
        <5>1. k - (a + x + 1) \in 1 .. h /\ k = a + x + 1 + (k - (a + x + 1))
          BY <2>2, <3>3
        <5> QED BY <5>1
      <4>2. a + (x + 1) + r = a + x + 1 + r
        OBVIOUS
      <4> QED BY <1>3, <2>2, <4>1, <4>2
    <3> QED BY <3>1, <3>2, <3>3
  <2>4. \A k \in 1 .. Len(K) : /\ TellsLess(f, c, K[k], L[k])
                               /\ \A i \in Ids : Frees(L[k], i) => Frees(K[k], i)
    BY <2>3, SameTells
  <2>5. Len(K) = Len(L)
    BY <1>3, <2>2
  <2> QED BY <1>2, <2>4, <2>5, FitsMilder
<1>6. CASE Struck(X, Y, m)
  <2>1. Len(Y) = x + 1 /\ Y[x + 1] = m
        /\ \A k \in 1 .. x : Y[k] = X[k] \/ (Y[k] = Q!None /\ Keeper(X[k]))
    BY <1>1, <1>6 DEF Struck
  <2>2. /\ Len(K) = a + x + 1 + h
        /\ \A k \in 1 .. a : K[k] = A[k]
        /\ \A k \in 1 .. (x + 1) : K[a + k] = Y[k]
        /\ \A k \in 1 .. h : K[a + (x + 1) + k] = H[k]
    BY <1>4, <2>1
  <2>3. ASSUME NEW k \in 1 .. Len(K) PROVE K[k] = L[k] \/ (K[k] = Q!None /\ Keeper(L[k]))
    <3>1. CASE k <= a
      BY <1>3, <2>2, <3>1
    <3>2. CASE k > a /\ k <= a + x + 1
      <4>1. PICK r \in 1 .. (x + 1) : k = a + r
        <5>1. k - a \in 1 .. (x + 1) /\ k = a + (k - a)
          BY <3>2
        <5> QED BY <5>1
      <4>2. CASE r = x + 1
        <5>1. K[k] = m
          BY <2>1, <2>2, <4>1, <4>2
        <5>2. k = a + x + 1
          BY <4>1, <4>2
        <5> QED BY <1>3, <5>1, <5>2
      <4>3. CASE r # x + 1
        <5>1. r \in 1 .. x
          BY <4>3
        <5> QED BY <1>3, <2>1, <2>2, <4>1, <5>1
      <4> QED BY <4>2, <4>3
    <3>3. CASE k > a + x + 1
      <4>1. PICK r \in 1 .. h : k = a + x + 1 + r
        <5>1. k - (a + x + 1) \in 1 .. h /\ k = a + x + 1 + (k - (a + x + 1))
          BY <2>2, <3>3
        <5> QED BY <5>1
      <4>2. a + (x + 1) + r = a + x + 1 + r
        OBVIOUS
      <4> QED BY <1>3, <2>2, <4>1, <4>2
    <3> QED BY <3>1, <3>2, <3>3
  <2>4. ASSUME NEW k \in 1 .. Len(K)
        PROVE  /\ TellsLess(f, c, K[k], L[k])
               /\ \A i \in Ids : Frees(L[k], i) => Frees(K[k], i)
    <3>1. CASE K[k] = L[k]
      BY <3>1, SameTells
    <3>2. CASE K[k] = Q!None /\ Keeper(L[k])
      BY <3>2, SameTells DEF Keeper, Frees
    <3> QED BY <2>3, <3>1, <3>2
  <2>5. Len(K) = Len(L)
    BY <1>3, <2>2
  <2> QED BY <1>2, <2>4, <2>5, FitsMilder
<1>7. CASE MergedIn(X, Y, m)
  <2>1. Len(Y) = x /\ Keeper(m)
    BY <1>1, <1>7 DEF MergedIn
  <2>2. /\ Len(K) = a + x + h
        /\ \A k \in 1 .. a : K[k] = A[k]
        /\ \A k \in 1 .. x : K[a + k] = Y[k]
        /\ \A k \in 1 .. h : K[a + x + k] = H[k]
    BY <1>4, <2>1
  <2>3. PICK n \in Nat : n = a + x
    OBVIOUS
  <2>4. n \in 0 .. Len(K) /\ Len(L) = Len(K) + 1 /\ n + 1 \in 1 .. Len(L) /\ L[n + 1] = m
    BY <1>3, <2>2, <2>3
  <2>5. ASSUME NEW k \in 1 .. n
        PROVE  /\ TellsLess(f, c, K[k], L[k])
               /\ \A i \in Ids : Frees(L[k], i) => Frees(K[k], i)
    <3>1. CASE k <= a
      <4>1. K[k] = L[k]
        BY <1>3, <2>2, <3>1
      <4> QED BY <4>1, SameTells
    <3>2. CASE k > a
      <4>1. PICK r \in 1 .. x : k = a + r
        <5>1. k - a \in 1 .. x /\ k = a + (k - a)
          BY <2>3, <3>2
        <5> QED BY <5>1
      <4>2. K[k] = Y[r] /\ L[k] = X[r]
        BY <1>3, <2>2, <4>1
      <4>3. CASE Y[r] = X[r]
        BY <4>2, <4>3, SameTells
      <4>4. CASE Y[r] # X[r]
        <5>1. /\ Keeper(X[r])
              /\ \A i \in Ids : Gives(Y[r], i) => Gives(X[r], i)
              /\ \A i \in Ids : NamesId(Y[r], i) =>
                   NamesId(X[r], i) \/ (NamesId(m, i) /\ Gives(X[r], i))
          BY <1>1, <1>7, <4>4 DEF MergedIn
        <5>2. ASSUME NEW i \in Ids, Own(c, f[i]), NamesId(m, i), Gives(X[r], i) PROVE FALSE
          <6>1. k \in 1 .. ((n + 1) - 1) /\ n + 1 \in DOMAIN L
            BY <1>2, <2>4
          <6>2. ~Gives(L[k], i)
            BY <2>4, <5>2, <6>1 DEF LineOK, NewOnly
          <6> QED BY <4>2, <5>2, <6>2
        <5>3. TellsLess(f, c, K[k], L[k])
          BY <4>2, <5>1, <5>2 DEF TellsLess
        <5>4. \A i \in Ids : ~Frees(L[k], i)
          BY <4>2, <5>1 DEF Keeper, Frees
        <5> QED BY <5>3, <5>4
      <4> QED BY <4>3, <4>4
    <3> QED BY <3>1, <3>2
  <2>6. ASSUME NEW k \in (n + 1) .. Len(K) PROVE K[k] = L[k + 1]
    <3>0. k \in (n + 1) .. (n + h) /\ k \in Int
      BY <2>2, <2>3
    <3>1. PICK r \in 1 .. h : k = n + r
      <4>1. k - n \in 1 .. h /\ k = n + (k - n)
        BY <3>0
      <4> QED BY <4>1
    <3>2. k = a + x + r /\ k + 1 = a + x + 1 + r
      BY <2>3, <3>1
    <3> QED BY <1>3, <2>2, <3>2
  <2>7. \A i \in Ids : ~Frees(L[n + 1], i)
    BY <2>1, <2>4 DEF Keeper, Frees
  <2> QED BY <1>2, <2>4, <2>5, <2>6, <2>7, FitsShorter
<1>8. CASE Wiped(X, Y, m)
  <2>1. Len(Y) = x + 1 /\ Y[x + 1] = m /\ m.type = "clear" /\ \A k \in 1 .. x : Y[k] = Q!None
    BY <1>1, <1>8 DEF Wiped
  <2>2. /\ Len(K) = a + x + 1 + h
        /\ \A k \in 1 .. a : K[k] = A[k]
        /\ \A k \in 1 .. (x + 1) : K[a + k] = Y[k]
        /\ \A k \in 1 .. h : K[a + (x + 1) + k] = H[k]
    BY <1>4, <2>1
  <2>3. PICK n \in Nat : n = a + x
    OBVIOUS
  <2>4. n \in a .. Len(L) /\ n + 1 <= Len(L) /\ L[n + 1].type = "clear" /\ Len(K) = Len(L)
    BY <1>3, <2>1, <2>2, <2>3
  <2>5. ASSUME NEW k \in 1 .. Len(K)
        PROVE  K[k] = IF k \in (a + 1) .. n THEN Q!None ELSE L[k]
    <3>1. CASE k <= a
      BY <1>3, <2>2, <3>1
    <3>2. CASE k > a /\ k <= n
      <4>1. PICK r \in 1 .. x : k = a + r
        <5>1. k - a \in 1 .. x /\ k = a + (k - a)
          BY <2>3, <3>2
        <5> QED BY <5>1
      <4>2. r \in 1 .. (x + 1)
        OBVIOUS
      <4>3. K[k] = Q!None
        BY <2>1, <2>2, <4>1, <4>2
      <4>4. k \in (a + 1) .. n
        BY <2>3, <3>2
      <4> QED BY <4>3, <4>4
    <3>3. CASE k = n + 1
      <4>1. k = a + (x + 1) /\ k = a + x + 1
        BY <2>3, <3>3
      <4> QED BY <1>3, <2>1, <2>2, <2>3, <3>3, <4>1
    <3>4. CASE k > n + 1
      <4>1. PICK r \in 1 .. h : k = a + x + 1 + r
        <5>1. k - (a + x + 1) \in 1 .. h /\ k = a + x + 1 + (k - (a + x + 1))
          BY <2>2, <2>3, <3>4
        <5> QED BY <5>1
      <4>2. a + (x + 1) + r = a + x + 1 + r
        OBVIOUS
      <4>3. K[k] = L[k]
        BY <1>3, <2>2, <4>1, <4>2
      <4>4. k \notin (a + 1) .. n
        BY <2>3, <3>4
      <4> QED BY <4>3, <4>4
    <3> QED BY <2>3, <3>1, <3>2, <3>3, <3>4
  <2> QED BY <1>2, <2>4, <2>5, FitsCleared
<1> QED BY <1>5, <1>6, <1>7, <1>8 DEF Queued

\* The first message held is for the others.
LEMMA LineSkipped ==
  ASSUME NEW f, NEW c, NEW B, NEW idmap, NEW A, NEW X, NEW G, NEW H, NEW L, NEW K,
         Parts(L, A, X, G), Parts(K, A, X, H),
         Len(G) = Len(H) + 1, G[1] = Q!None, \A k \in 1 .. Len(H) : H[k] = G[k + 1],
         LineOK(f, c, B, L, idmap)
  PROVE  LineOK(f, c, B, K, idmap)
<1>1. PICK a \in Nat, x \in Nat, h \in Nat : a = Len(A) /\ x = Len(X) /\ h = Len(H)
  BY DEF Parts
<1>0. PICK n \in Nat : n = a + x
  OBVIOUS
<1>2. /\ L \in Seq(Posts) /\ K \in Seq(Posts)
      /\ Len(L) = n + h + 1 /\ Len(K) = n + h /\ L[n + 1] = Q!None
      /\ \A k \in 1 .. n : K[k] = L[k]
      /\ \A k \in 1 .. h : L[n + 1 + k] = H[k] /\ K[n + k] = H[k]
  <2>1. /\ L \in Seq(Posts) /\ K \in Seq(Posts)
        /\ Len(L) = n + (h + 1) /\ \A k \in 1 .. (h + 1) : L[n + k] = G[k]
        /\ Len(K) = n + h /\ \A k \in 1 .. h : K[n + k] = H[k]
    BY <1>0, <1>1 DEF Parts
  <2>2. ASSUME NEW k \in 1 .. h PROVE L[n + 1 + k] = H[k]
    <3>1. PICK r : r = k + 1
      OBVIOUS
    <3>2. r \in 1 .. (h + 1) /\ n + 1 + k = n + r
      BY <3>1
    <3>3. L[n + r] = G[r] /\ G[r] = H[k]
      BY <1>1, <2>1, <3>1, <3>2
    <3> QED BY <3>2, <3>3
  <2>3. ASSUME NEW k \in 1 .. n PROVE K[k] = L[k]
    <3>1. CASE k <= a
      BY <1>1, <3>1 DEF Parts
    <3>2. CASE k > a
      <4>1. PICK r \in 1 .. x : k = a + r
        <5>1. k - a \in 1 .. x /\ k = a + (k - a)
          BY <1>0, <3>2
        <5> QED BY <5>1
      <4> QED BY <1>1, <4>1 DEF Parts
    <3> QED BY <3>1, <3>2
  <2>4. 1 \in 1 .. (h + 1) /\ Len(L) = n + h + 1
    BY <2>1
  <2> QED BY <2>1, <2>2, <2>3, <2>4
<1>3. n \in 0 .. Len(K) /\ Len(L) = Len(K) + 1
  BY <1>2
<1>4. \A k \in 1 .. n : /\ TellsLess(f, c, K[k], L[k])
                        /\ \A i \in Ids : Frees(L[k], i) => Frees(K[k], i)
  BY <1>2, SameTells
<1>5. ASSUME NEW k \in (n + 1) .. Len(K) PROVE K[k] = L[k + 1]
  <2>1. k \in (n + 1) .. (n + h) /\ k \in Int
    BY <1>2
  <2>2. PICK r \in 1 .. h : k = n + r
    <3>1. k - n \in 1 .. h /\ k = n + (k - n)
      BY <2>1
    <3> QED BY <3>1
  <2>3. k + 1 = n + 1 + r
    BY <2>2
  <2> QED BY <1>2, <2>2, <2>3
<1>6. \A i \in Ids : ~Frees(L[n + 1], i)
  BY <1>2 DEF Frees, Q!None
<1> QED BY <1>2, <1>3, <1>4, <1>5, <1>6, FitsShorter

-----------------------------------------------------------------------------
(***************************************************************************)
(* What the operations of a node's program do to the ids, and say of them. *)
(***************************************************************************)

KeepsIds(st, s) ==
  /\ s.idmap = st.idmap
  /\ \A k \in Names : st.entries[k].id # NoId => s.entries[k].id = st.entries[k].id

\* Without flags a ClearEntries deletes every entry.
Bare(st)         == \A k \in Names : st.entries[k].flags = 0
BareMsg(m)       == m.type \in {"assign", "flags"} => m.flags = 0
BareSends        == {s \in Sends : BareMsg(s.msg)}
StaysBare(st, r) == Bare(st) => Bare(r.st) /\ r.out \in Seq(BareSends)

\* The program changes an entry and tells of it by its id; or the entry is new to
\* the server, which gives it the next id; or the entry is deleted and its id freed.
UserKeeps(st, n, r) ==
  /\ KeepsIds(st, r.st)
  /\ r.out = <<>> \/ \E m \in Msgs : /\ r.out = <<ToAll(m)>> /\ m.id = st.entries[n].id
                                     /\ m.type \in {"assign", "update", "flags"}

GivesNew(st, n, r) ==
  /\ IsServer(st) /\ st.size \in Ids
  /\ r.st.idmap = [st.idmap EXCEPT ![st.size] = n]
  /\ \E m \in Msgs : /\ r.out = <<ToAll(m)>> /\ m.id = st.size
                     /\ m.type \in {"assign", "update"}

UserDrops(st, n, r) ==
  \E i \in Ids : /\ st.entries[n].id = i /\ st.idmap[i] = n
                 /\ r.st.idmap = [st.idmap EXCEPT ![i] = NoName]
                 /\ \A k \in Names : k # n => r.st.entries[k] = st.entries[k]
                 /\ r.out = <<ToAll(EntryDelete(i))>>

UserActs(st, n, r) == UserKeeps(st, n, r) \/ GivesNew(st, n, r) \/ UserDrops(st, n, r)

LEMMA IgnoredActs ==
  ASSUME NEW st, NEW n
  PROVE  UserActs(st, n, Ignored(st)) /\ StaysBare(st, Ignored(st))
<1>1. Ignored(st).st = st /\ Ignored(st).out = <<>>
  BY DEF Ignored, Result
<1>2. <<>> \in Seq(BareSends)
  BY EmptySeq
<1> QED BY <1>1, <1>2 DEF UserActs, UserKeeps, KeepsIds, StaysBare

LEMMA PutActs ==
  ASSUME NEW st, Good(st), Linked(st), NEW n \in Names, NEW e \in Entry, e.value \in Values,
         e.id = st.entries[n].id, HasRoom(st) \/ ~IsServer(st),
         NEW s, s = IfServerGiveId(PutEntry(st, n, e), n)
  PROVE  /\ s.entries[n].flags = e.flags /\ s.entries[n] \in Entry /\ s.entries[n].value = e.value
         /\ \A k \in Names : k # n => s.entries[k] = st.entries[k]
         /\ \/ KeepsIds(st, s) /\ s.entries[n].id = e.id
            \/ /\ IsServer(st) /\ e.id = NoId /\ st.size \in Ids
               /\ s.idmap = [st.idmap EXCEPT ![st.size] = n] /\ s.entries[n].id = st.size
<1>0. st \in Store /\ (IsServer(st) /\ ~Has(st, n) => e.id = NoId)
      /\ st.entries \in [Names -> Entry]
  BY DEF Good, Linked, Store
<1>1. /\ SameRole(s, st) /\ OnlyAt(n, s, st) /\ s.entries[n].flags = e.flags
      /\ s.entries[n] \in Entry /\ s.entries[n].value = e.value
  BY <1>0, LocalPut
<1>2. \A k \in Names : k # n => s.entries[k] = st.entries[k]
  BY <1>0, <1>1 DEF OnlyAt
<1>3. PICK p : p = PutEntry(st, n, e)
  OBVIOUS
<1>4. /\ p \in Store /\ p.size = st.size /\ p.idmap = st.idmap
      /\ p.entries = [st.entries EXCEPT ![n] = e] /\ SameRole(p, st)
  BY <1>0, <1>3, PutFacts
<1>5. CASE s = p
  <2>1. s.entries[n].id = e.id
    BY <1>0, <1>4, <1>5
  <2>2. KeepsIds(st, s)
    BY <1>2, <1>4, <1>5, <2>1 DEF KeepsIds
  <2> QED BY <1>1, <1>2, <2>1, <2>2
<1>6. CASE s # p
  <2>1. IsServer(st) /\ s = GiveId(p, n) /\ p.entries[n].id = NoId
    BY <1>3, <1>4, <1>6, RoleFacts DEF IfServerGiveId, IsServer
  <2>2. s.idmap = [st.idmap EXCEPT ![st.size] = n]
    BY <1>4, <2>1 DEF GiveId, Store
  <2>3. s.entries[n].id = st.size
    <3>1. p.entries \in [Names -> Entry]
      BY <1>4 DEF Store
    <3>2. s.entries = [p.entries EXCEPT ![n] = [p.entries[n] EXCEPT !.id = p.size]]
      BY <1>4, <2>1 DEF GiveId, Store
    <3>3. s.entries[n] = [p.entries[n] EXCEPT !.id = p.size] /\ p.entries[n] \in Entry
      BY <3>1, <3>2
    <3> QED BY <1>4, <3>3 DEF Entry
  <2>4. st.size \in Ids
    BY <1>0, <2>1, StorageAssumption DEF HasRoom, Store, Ids
  <2>5. e.id = NoId
    BY <1>0, <1>4, <2>1
  <2> QED BY <1>1, <1>2, <2>1, <2>2, <2>3, <2>4, <2>5
<1> QED BY <1>5, <1>6

\* What is told of an entry after PutEntry.
LEMMA SaysActs ==
  ASSUME NEW st, Good(st), Linked(st), NEW n \in Names, NEW e \in Entry, e.value \in Values,
         e.id = st.entries[n].id, e.flags \in {0, st.entries[n].flags}, HasRoom(st) \/ ~IsServer(st),
         NEW s, s = IfServerGiveId(PutEntry(st, n, e), n),
         NEW m \in Msgs, m.type \in {"assign", "update"}, m.id = s.entries[n].id,
         m.type = "assign" => m.flags = s.entries[n].flags, NEW out,
         out = <<ToAll(m)>> \/ (out = <<>> /\ (IsServer(st) => e.id # NoId)),
         NEW d \in BOOLEAN, NEW notes, NEW r, r = Result(MarkDirty(s, d), notes, out)
  PROVE  UserActs(st, n, r) /\ StaysBare(st, r)
<1>0. Good(s)
  BY LocalIds
<1>1. r.out = out /\ r.st.idmap = s.idmap /\ r.st.entries = s.entries
  BY <1>0, DirtyIds DEF Result, Good
<1>2. /\ s.entries[n].flags = e.flags
      /\ \A k \in Names : k # n => s.entries[k] = st.entries[k]
      /\ \/ KeepsIds(st, s) /\ s.entries[n].id = e.id
         \/ /\ IsServer(st) /\ e.id = NoId /\ st.size \in Ids
            /\ s.idmap = [st.idmap EXCEPT ![st.size] = n] /\ s.entries[n].id = st.size
  <2>1. HasRoom(st) \/ ~IsServer(st)
    OBVIOUS
  <2> QED BY <2>1, PutActs
<1>3. UserActs(st, n, r)
  <2>1. CASE KeepsIds(st, s) /\ s.entries[n].id = e.id
    <3>1. KeepsIds(st, r.st)
      BY <1>1, <2>1 DEF KeepsIds
    <3> QED BY <1>1, <2>1, <3>1 DEF UserActs, UserKeeps
  <2>2. CASE /\ IsServer(st) /\ e.id = NoId /\ st.size \in Ids
             /\ s.idmap = [st.idmap EXCEPT ![st.size] = n] /\ s.entries[n].id = st.size
    <3>1. out = <<ToAll(m)>>
      BY <2>2
    <3> QED BY <1>1, <2>2, <3>1 DEF UserActs, GivesNew
  <2> QED BY <1>2, <2>1, <2>2
<1>4. StaysBare(st, r)
  <2>1. SUFFICES ASSUME Bare(st) PROVE Bare(r.st) /\ r.out \in Seq(BareSends)
    BY DEF StaysBare
  <2>2. s.entries[n].flags = 0 /\ Bare(r.st)
    BY <1>1, <1>2, <2>1 DEF Bare
  <2>3. BareMsg(m) /\ ToAll(m).msg = m /\ ToAll(m) \in Sends
    BY <2>2, SendIsSends DEF BareMsg, ToAll
  <2>4. ToAll(m) \in BareSends
    BY <2>3 DEF BareSends
  <2>5. <<ToAll(m)>> \in Seq(BareSends) /\ <<>> \in Seq(BareSends)
    BY <2>4, OneMessage, EmptySeq
  <2> QED BY <1>1, <2>2, <2>5
<1> QED BY <1>3, <1>4

LEMMA PutTakes ==
  ASSUME NEW st, Good(st), Linked(st), NEW n \in Names, NEW e \in Entry, e.value \in Values,
         e.id = st.entries[n].id, HasRoom(st) \/ ~IsServer(st),
         NEW s, s = IfServerGiveId(PutEntry(st, n, e), n)
  PROVE  Good(s) /\ s.entries[n] \in Entry /\ s.entries[n].value = e.value
<1>0. st \in Store /\ (IsServer(st) /\ ~Has(st, n) => e.id = NoId)
  BY DEF Good, Linked
<1> QED BY <1>0, LocalPut

LEMMA DefaultActs ==
  ASSUME NEW st, Good(st), Linked(st), HasRoom(st) \/ ~IsServer(st),
         NEW n \in Names, NEW v \in Values, NEW r, r = SetDefaultEntryValue(st, n, v)
  PROVE  UserActs(st, n, r) /\ StaysBare(st, r)
<1>1. CASE Has(st, n)
  <2>1. r = Ignored(st)
    BY <1>1 DEF SetDefaultEntryValue
  <2> QED BY <2>1, IgnoredActs
<1>2. CASE ~Has(st, n)
  <2>1. PICK e \in Entry : e = [Fresh EXCEPT !.value = v]
    BY FreshTypes
  <2>2. e.value \in Values /\ e.id = st.entries[n].id /\ e.id = NoId /\ e.flags = 0
    BY <1>2, <2>1 DEF Fresh, Linked
  <2>3. PICK s : s = IfServerGiveId(PutEntry(st, n, e), n)
    OBVIOUS
  <2>4. s.entries[n] \in Entry /\ s.entries[n].value \in Values /\ Good(s)
    <3>1. HasRoom(st) \/ ~IsServer(st)
      OBVIOUS
    <3>2. e.value \in Values /\ e.id = st.entries[n].id
      BY <2>2
    <3>3. Good(s) /\ s.entries[n] \in Entry /\ s.entries[n].value = e.value
      BY <2>3, <3>1, <3>2, PutTakes
    <3> QED BY <2>2, <3>3
  <2>5. PICK m \in Msgs : m = AssignOf(n, s.entries[n])
    BY <2>4, AssignIsMsg
  <2>6. m.type = "assign" /\ m.id = s.entries[n].id /\ m.flags = s.entries[n].flags
    BY <2>5 DEF AssignOf, EntryAssign
  <2>7. PICK q : q = Result(MarkDirty(s, FALSE), <<Note(n, v, {"new", "local"})>>, <<ToAll(m)>>)
    OBVIOUS
  <2>8. r = q
    <3>1. MarkDirty(s, FALSE) = s
      BY <2>4, NotDirty DEF Good
    <3> QED BY <1>2, <2>1, <2>3, <2>5, <2>7, <3>1 DEF SetDefaultEntryValue
  <2> QED BY <2>2, <2>3, <2>6, <2>7, <2>8, SaysActs
<1> QED BY <1>1, <1>2

LEMMA ValueActs ==
  ASSUME NEW st, Good(st), Linked(st), HasRoom(st) \/ ~IsServer(st),
         NEW n \in Names, NEW v \in Values, NEW e \in Entry, e.value = v,
         e.id = st.entries[n].id, e.flags = st.entries[n].flags,
         NEW s, s = IfServerGiveId(PutEntry(st, n, e), n),
         NEW a \in BOOLEAN, NEW b \in BOOLEAN, NEW d \in BOOLEAN, NEW notes,
         ~(a /\ b), IsServer(st) /\ st.entries[n].id = NoId => a \/ b, NEW r,
         r = Result(MarkDirty(s, d), notes,
                    If(a, <<ToAll(AssignOf(n, s.entries[n]))>>)
                      \o If(b, <<ToAll(EntryUpdate(s.entries[n].id, s.entries[n].seq, v))>>))
  PROVE  UserActs(st, n, r) /\ StaysBare(st, r)
<1>1. s \in Store /\ s.entries[n].value \in Values
  BY ValueIds DEF Good
<1>2. s.entries[n] \in Entry /\ s.entries[n].id \in NewIds /\ s.entries[n].seq \in SeqNums
  BY <1>1, EntryTypes
<1>3. PICK x \in Msgs, y \in Msgs : /\ x = AssignOf(n, s.entries[n])
                                    /\ y = EntryUpdate(s.entries[n].id, s.entries[n].seq, v)
  <2>1. AssignOf(n, s.entries[n]) \in Msgs
    BY <1>1, <1>2, AssignIsMsg
  <2>2. EntryUpdate(s.entries[n].id, s.entries[n].seq, v) \in Msgs
    BY <1>2 DEF EntryUpdate, Msgs, Updates
  <2> QED BY <2>1, <2>2
<1>4. /\ x.type = "assign" /\ x.id = s.entries[n].id /\ x.flags = s.entries[n].flags
      /\ y.type = "update" /\ y.id = s.entries[n].id
  BY <1>3 DEF AssignOf, EntryAssign, EntryUpdate
<1>6. CASE a
  <2>1. If(a, <<ToAll(x)>>) = <<ToAll(x)>> /\ If(b, <<ToAll(y)>>) = <<>>
    BY <1>6 DEF If
  <2>2. <<ToAll(x)>> \o <<>> = <<ToAll(x)>>
    OBVIOUS
  <2>3. r = Result(MarkDirty(s, d), notes, <<ToAll(x)>>)
    BY <1>3, <2>1, <2>2
  <2> QED BY <1>4, <2>3, SaysActs
<1>7. CASE ~a
  <2>1. If(a, <<ToAll(x)>>) = <<>>
    BY <1>7 DEF If
  <2>2. CASE b
    <3>1. If(b, <<ToAll(y)>>) = <<ToAll(y)>>
      BY <2>2 DEF If
    <3>2. <<>> \o <<ToAll(y)>> = <<ToAll(y)>>
      OBVIOUS
    <3>3. r = Result(MarkDirty(s, d), notes, <<ToAll(y)>>)
      BY <1>3, <2>1, <3>1, <3>2
    <3> QED BY <1>4, <3>3, SaysActs
  <2>3. CASE ~b
    <3>1. If(b, <<ToAll(y)>>) = <<>>
      BY <2>3 DEF If
    <3>2. <<>> \o <<>> = <<>>
      OBVIOUS
    <3>3. r = Result(MarkDirty(s, d), notes, <<>>)
      BY <1>3, <2>1, <3>1, <3>2
    <3>4. IsServer(st) => e.id # NoId
      BY <1>7, <2>3
    <3> QED BY <1>4, <3>3, <3>4, SaysActs
  <2> QED BY <2>2, <2>3
<1> QED BY <1>6, <1>7

LEMMA SetValueActs ==
  ASSUME NEW st, Good(st), Linked(st), HasRoom(st) \/ ~IsServer(st),
         NEW n \in Names, NEW v \in Values, NEW r, r = SetEntryValue(st, n, v)
  PROVE  UserActs(st, n, r) /\ StaysBare(st, r)
<1> DEFINE e == st.entries[n]
           isNew == ~Has(st, n)
           changed == ~isNew /\ e.value # v
           q == IF changed THEN Inc(e.seq) ELSE e.seq
           new == [e EXCEPT !.value = v, !.seq = q]
           s == IfServerGiveId(PutEntry(st, n, new), n)
           now == s.entries[n]
           notes == If(isNew, <<Note(n, v, {"new", "local"})>>)
                      \o If(changed, <<Note(n, v, {"update", "local"})>>)
           d == IsPersistent(e) /\ changed
           two == changed /\ now.id # NoId
           out == If(isNew, <<ToAll(AssignOf(n, now))>>)
                    \o If(two, <<ToAll(EntryUpdate(now.id, now.seq, v))>>)
<1>1. new \in Entry /\ new.value = v /\ new.id = e.id /\ new.flags = e.flags
  <2>1. e.seq \in SeqNums /\ e \in Entry
    BY EntryTypes DEF Good
  <2>2. q \in SeqNums
    BY <2>1, IncType
  <2> HIDE DEF q
  <2> QED BY <2>1, <2>2 DEF Entry
<1>2. isNew \in BOOLEAN /\ two \in BOOLEAN /\ d \in BOOLEAN /\ ~(isNew /\ two)
  OBVIOUS
<1>3. IsServer(st) /\ st.entries[n].id = NoId => isNew \/ two
  BY DEF Good, Exact, Present
<1>4. CASE ~isNew /\ TypeOf(e.value) # TypeOf(v)
  <2>1. r = Ignored(st)
    BY <1>4 DEF SetEntryValue
  <2> QED BY <2>1, IgnoredActs
<1>5. CASE ~(~isNew /\ TypeOf(e.value) # TypeOf(v))
  <2>1. r = Result(MarkDirty(s, d), notes, out)
    BY <1>5 DEF SetEntryValue
  <2>2. s = IfServerGiveId(PutEntry(st, n, new), n)
    OBVIOUS
  <2> HIDE DEF new, isNew, changed, q, notes, d, two, s
  <2> QED BY <1>1, <1>2, <1>3, <2>1, <2>2, ValueActs
<1> QED BY <1>4, <1>5

LEMMA SetTypeValueActs ==
  ASSUME NEW st, Good(st), Linked(st), HasRoom(st) \/ ~IsServer(st),
         NEW n \in Names, NEW v \in Values, NEW r, r = SetEntryTypeValue(st, n, v)
  PROVE  UserActs(st, n, r) /\ StaysBare(st, r)
<1> DEFINE e == st.entries[n]
           isNew == ~Has(st, n)
           retyped == TypeOf(e.value) # TypeOf(v)
           q == Inc(e.seq)
           new == [e EXCEPT !.value = v, !.seq = q]
           s == IfServerGiveId(PutEntry(st, n, new), n)
           now == s.entries[n]
           notes == <<Note(n, v, {IF isNew THEN "new" ELSE "update", "local"})>>
           d == IsPersistent(e)
           two == ~retyped /\ now.id # NoId
           out == If(retyped, <<ToAll(AssignOf(n, now))>>)
                    \o If(two, <<ToAll(EntryUpdate(now.id, now.seq, v))>>)
<1>1. new \in Entry /\ new.value = v /\ new.id = e.id /\ new.flags = e.flags
  <2>1. e.seq \in SeqNums /\ e \in Entry
    BY EntryTypes DEF Good
  <2>2. q \in SeqNums
    BY <2>1, IncType
  <2> HIDE DEF q
  <2> QED BY <2>1, <2>2 DEF Entry
<1>2. retyped \in BOOLEAN /\ two \in BOOLEAN /\ d \in BOOLEAN /\ ~(retyped /\ two)
  BY DEF IsPersistent
<1>3. IsServer(st) => now.id # NoId
  <2> HIDE DEF new
  <2>1. s = IfServerGiveId(PutEntry(st, n, new), n)
    OBVIOUS
  <2> HIDE DEF s
  <2>2. Good(s) /\ Linked(s) /\ s.entries[n].value = v
    BY <1>1, <2>1, ValueIds
  <2>3. IsServer(st) => IsServer(s)
    <3>1. st \in Store /\ (IsServer(st) /\ ~Has(st, n) => new.id = NoId)
      BY <1>1 DEF Good, Linked
    <3>2. SameRole(s, st)
      BY <1>1, <2>1, <3>1, LocalPut
    <3> QED BY <3>2, RoleFacts
  <2>4. Has(s, n)
    BY <2>2, NoValueIsNone DEF Has
  <2> QED BY <2>2, <2>3, <2>4 DEF Good, Exact, Present
<1>4. CASE e.value = v
  <2>1. r = Ignored(st)
    BY <1>4 DEF SetEntryTypeValue
  <2> QED BY <2>1, IgnoredActs
<1>5. CASE e.value # v
  <2>1. r = Result(MarkDirty(s, d), notes, out)
    BY <1>5 DEF SetEntryTypeValue
  <2>2. IsServer(st) => retyped \/ two
    BY <1>3
  <2>3. s = IfServerGiveId(PutEntry(st, n, new), n)
    OBVIOUS
  <2> HIDE DEF new, isNew, retyped, q, notes, d, two, s
  <2> QED BY <1>1, <1>2, <2>1, <2>2, <2>3, ValueActs
<1> QED BY <1>4, <1>5

LEMMA SetFlagsActs ==
  ASSUME NEW st, Good(st), Linked(st), NEW n \in Names, NEW f \in {0, 1},
         NEW r, r = SetEntryFlags(st, n, f)
  PROVE  UserActs(st, n, r)
<1> DEFINE e == st.entries[n]
           new == [e EXCEPT !.flags = f]
           notes == <<Note(n, e.value, {"flags", "local"})>>
<1>1. CASE ~Has(st, n) \/ e.flags = f
  <2>1. r = Ignored(st)
    BY <1>1 DEF SetEntryFlags
  <2> QED BY <2>1, IgnoredActs
<1>2. CASE Has(st, n) /\ e.flags # f
  <2>1. e \in Entry /\ st \in Store
    BY EntryTypes DEF Good
  <2>2. new \in Entry /\ new.id = e.id
    BY <2>1 DEF Entry
  <2>3. PICK s : s = PutEntry(st, n, new)
    OBVIOUS
  <2>4. /\ s \in Store /\ s.idmap = st.idmap
        /\ s.entries = [st.entries EXCEPT ![n] = new] /\ st.entries \in [Names -> Entry]
    <3> HIDE DEF new
    <3> QED BY <2>1, <2>2, <2>3, PutFacts DEF Store
  <2>5. PICK out : out = If(e.id # NoId, <<ToAll(FlagsUpdate(e.id, f))>>)
    OBVIOUS
  <2>6. r = Result(MarkDirty(s, TRUE), notes, out)
    BY <1>2, <2>3, <2>5 DEF SetEntryFlags
  <2>7. r.out = out /\ r.st.idmap = s.idmap /\ r.st.entries = s.entries
    <3>1. PICK p : p = MarkDirty(s, TRUE)
      OBVIOUS
    <3>2. p.idmap = s.idmap /\ p.entries = s.entries
      BY <2>4, <3>1, DirtyIds
    <3> HIDE DEF notes
    <3>3. r = Result(p, notes, out)
      BY <2>6, <3>1
    <3> QED BY <3>2, <3>3 DEF Result
  <2>8. KeepsIds(st, r.st)
    <3>1. \A k \in Names : s.entries[k].id = st.entries[k].id
      <4> HIDE DEF new
      <4> QED BY <2>2, <2>4
    <3> QED BY <2>4, <2>7, <3>1 DEF KeepsIds
  <2>9. CASE e.id = NoId
    <3>1. out = <<>>
      BY <2>5, <2>9 DEF If
    <3> QED BY <2>7, <2>8, <3>1 DEF UserActs, UserKeeps
  <2>10. CASE e.id # NoId
    <3>1. out = <<ToAll(FlagsUpdate(e.id, f))>>
      BY <2>5, <2>10 DEF If
    <3>2. FlagsUpdate(e.id, f) \in Msgs
      <4>1. e.id \in Ids
        BY <2>1, <2>10 DEF Entry, NewIds
      <4> HIDE DEF e
      <4> QED BY <4>1 DEF FlagsUpdate, Msgs, FlagMsgs
    <3>3. FlagsUpdate(e.id, f).id = e.id /\ FlagsUpdate(e.id, f).type = "flags"
      BY DEF FlagsUpdate
    <3> QED BY <2>7, <2>8, <3>1, <3>2, <3>3 DEF UserActs, UserKeeps
  <2> QED BY <2>9, <2>10
<1> QED BY <1>1, <1>2

LEMMA DeleteActs ==
  ASSUME NEW st, Good(st), Linked(st), NEW n \in Names, NEW r, r = DeleteEntry(st, n)
  PROVE  UserActs(st, n, r) /\ StaysBare(st, r)
<1> DEFINE e == st.entries[n]
           d == IsPersistent(e)
           notes == <<Note(n, e.value, {"delete", "local"})>>
<1>1. CASE ~Has(st, n)
  <2>1. r = Ignored(st)
    BY <1>1 DEF DeleteEntry
  <2> QED BY <2>1, IgnoredActs
<1>2. CASE Has(st, n)
  <2>1. /\ st \in Store /\ st.entries \in [Names -> Entry] /\ e.id \in NewIds
        /\ st.idmap \in [Ids -> Names \cup {NoName}] /\ st.size \in 0 .. MaxIds
    BY EntryTypes DEF Good, Store
  <2>2. PICK s : s = Erase(st, n)
    OBVIOUS
  <2>3. /\ s.entries = [st.entries EXCEPT ![n] = Fresh] /\ s.dirty = st.dirty
        /\ s.idmap = IF e.id < st.size THEN [st.idmap EXCEPT ![e.id] = NoName] ELSE st.idmap
    BY <2>1, <2>2 DEF Erase, Store
  <2>4. PICK out : out = If(e.id # NoId, <<ToAll(EntryDelete(e.id))>>)
    OBVIOUS
  <2>5. r = Result(MarkDirty(s, d), notes, out)
    BY <1>2, <2>2, <2>4 DEF DeleteEntry
  <2>6. r.out = out /\ r.st.idmap = s.idmap /\ r.st.entries = s.entries
    <3>1. PICK x : s = [st EXCEPT !.entries = x, !.idmap = s.idmap]
      BY <2>1, <2>2, <2>3 DEF Erase, Store
    <3>2. MarkDirty(s, d).idmap = s.idmap /\ MarkDirty(s, d).entries = s.entries
      <4> HIDE DEF d
      <4> QED BY <2>1, <3>1 DEF MarkDirty, Store
    <3> HIDE DEF d, notes
    <3> QED BY <2>5, <3>2 DEF Result
  <2>7. \A k \in Names : k # n => s.entries[k] = st.entries[k]
    BY <2>1, <2>3
  <2>8. s.entries[n] = Fresh /\ Fresh.flags = 0
    BY <2>1, <2>3 DEF Fresh
  <2>9. Bare(st) => Bare(r.st)
    BY <2>6, <2>7, <2>8 DEF Bare
  <2>10. CASE e.id = NoId
    <3>1. r.out = <<>> /\ <<>> \in Seq(BareSends)
      BY <2>4, <2>6, <2>10, EmptySeq DEF If
    <3>2. r.st.idmap = st.idmap
      BY <2>1, <2>3, <2>6, <2>10, StorageAssumption DEF NoId
    <3>3. KeepsIds(st, r.st)
      BY <2>6, <2>7, <2>10, <3>2 DEF KeepsIds
    <3> QED BY <2>9, <3>1, <3>3 DEF UserActs, UserKeeps, StaysBare
  <2>11. CASE e.id # NoId
    <3>1. e.id \in Ids /\ st.idmap[e.id] = n
      BY <2>1, <2>11 DEF NewIds, Linked
    <3>2. r.st.idmap = [st.idmap EXCEPT ![e.id] = NoName]
      BY <2>3, <2>6, <3>1, StorageAssumption DEF Linked
    <3>3. r.out = <<ToAll(EntryDelete(e.id))>>
      BY <2>4, <2>6, <2>11 DEF If
    <3>4. UserActs(st, n, r)
      BY <2>6, <2>7, <3>1, <3>2, <3>3 DEF UserActs, UserDrops
    <3>5. EntryDelete(e.id) \in Msgs /\ BareMsg(EntryDelete(e.id))
      BY <2>1, <3>1, MsgTypes DEF EntryDelete, BareMsg, Msgs, Deletes
    <3>6. ToAll(EntryDelete(e.id)) \in BareSends
      BY <3>5, SendIsSends DEF BareSends, ToAll
    <3>7. r.out \in Seq(BareSends)
      BY <3>3, <3>6, OneMessage
    <3> QED BY <2>9, <3>4, <3>7 DEF StaysBare
  <2> QED BY <2>10, <2>11
<1> QED BY <1>1, <1>2

-----------------------------------------------------------------------------
(* What a message does to the ids.                                         *)

\* A client answers a message with updates at most.
Talk == {s \in Sends : s.msg.type \in {"update", "flags"}}

\* The message concerns an entry that keeps its id; a server passes on what it takes.
Heeds(st, m, r) ==
  /\ KeepsIds(st, r.st)
  /\ \/ r.out = <<>>
     \/ /\ IsServer(st) /\ m.id \in Ids /\ st.idmap[m.id] # NoName
        /\ \E x \in Msgs : r.out = <<Onward(x)>> /\ x.type = m.type /\ x.id = m.id
     \/ ~IsServer(st) /\ r.out \in Seq(Talk)
  /\ BareMsg(m) => StaysBare(st, r)

LEMMA IgnoredHeeds ==
  ASSUME NEW st, NEW m
  PROVE  Heeds(st, m, Ignored(st))
<1>1. Ignored(st).st = st /\ Ignored(st).out = <<>>
  BY DEF Ignored, Result
<1>2. StaysBare(st, Ignored(st))
  BY IgnoredActs
<1> QED BY <1>1, <1>2 DEF Heeds, KeepsIds

LEMMA KeptResult ==
  ASSUME NEW st, st \in Store, NEW n \in Names, NEW new \in Entry, new.id = st.entries[n].id,
         NEW d \in BOOLEAN, NEW notes, NEW out,
         NEW r, r = Result(MarkDirty(PutEntry(st, n, new), d), notes, out)
  PROVE  /\ KeepsIds(st, r.st) /\ r.out = out
         /\ Bare(st) /\ new.flags = 0 => Bare(r.st)
<1>1. PICK p : p = PutEntry(st, n, new)
  OBVIOUS
<1>2. /\ p \in Store /\ p.idmap = st.idmap /\ st.entries \in [Names -> Entry]
      /\ p.entries = [st.entries EXCEPT ![n] = new]
  BY <1>1, PutFacts DEF Store
<1>3. PICK q : q = MarkDirty(p, d)
  OBVIOUS
<1>4. q.idmap = p.idmap /\ q.entries = p.entries
  BY <1>2, <1>3, DirtyIds
<1>5. r = Result(q, notes, out)
  BY <1>1, <1>3
<1>6. r.st = q /\ r.out = out
  BY <1>5 DEF Result
<1>7. r.st.idmap = st.idmap /\ r.st.entries = [st.entries EXCEPT ![n] = new]
  BY <1>2, <1>4, <1>6
<1>8. \A k \in Names : r.st.entries[k] = IF k = n THEN new ELSE st.entries[k]
  BY <1>2, <1>7
<1>9. KeepsIds(st, r.st)
  BY <1>7, <1>8 DEF KeepsIds
<1>10. Bare(st) /\ new.flags = 0 => Bare(r.st)
  BY <1>8 DEF Bare
<1> QED BY <1>6, <1>9, <1>10

\* A server passes it on, a client says nothing.
LEMMA OnwardHeeds ==
  ASSUME NEW st, NEW m, NEW r, NEW x \in Msgs, r.out = If(st.server, <<Onward(x)>>),
         x.type = m.type, x.id = m.id, m.id \in Ids, st.idmap[m.id] # NoName,
         KeepsIds(st, r.st), BareMsg(m) => BareMsg(x) /\ (Bare(st) => Bare(r.st))
  PROVE  Heeds(st, m, r)
<1>1. Onward(x) \in Sends /\ Onward(x).msg = x
  BY SendIsSends DEF Onward
<1>2. CASE st.server
  <2>1. r.out = <<Onward(x)>>
    BY <1>2 DEF If
  <2>2. BareMsg(m) => r.out \in Seq(BareSends)
    <3>1. BareMsg(m) => Onward(x) \in BareSends
      BY <1>1 DEF BareSends
    <3> QED BY <2>1, <3>1, OneMessage
  <2> QED BY <1>2, <2>1, <2>2 DEF Heeds, StaysBare, IsServer
<1>3. CASE ~st.server
  <2>1. r.out = <<>>
    BY <1>3 DEF If
  <2>2. <<>> \in Seq(BareSends)
    BY EmptySeq
  <2> QED BY <2>1, <2>2 DEF Heeds, StaysBare
<1> QED BY <1>2, <1>3

LEMMA UpdateHeeds ==
  ASSUME NEW st, Good(st), NEW m \in Updates
  PROVE  Heeds(st, m, TakeUpdate(st, m))
<1> DEFINE n == st.idmap[m.id]
           e == st.entries[n]
           new == [e EXCEPT !.value = m.value, !.seq = m.seq]
           d == IsPersistent(e)
           notes == <<Note(n, m.value, {"update"})>>
           out == If(st.server, <<Onward(m)>>)
<1>0. m.id \in NewIds /\ m.seq \in SeqNums /\ m.value \in Values /\ m \in Msgs /\ m.type = "update"
  BY DEF Updates, Msgs
<1>1. CASE ~KnownId(st, m.id) \/ Leq(m.seq, e.seq)
  <2>1. TakeUpdate(st, m) = Ignored(st)
    BY <1>1 DEF TakeUpdate
  <2> QED BY <2>1, IgnoredHeeds
<1>2. CASE KnownId(st, m.id) /\ ~Leq(m.seq, e.seq)
  <2>1. n \in Names /\ m.id \in Ids /\ n # NoName
    BY <1>0, <1>2, KnownFacts, StorageAssumption
  <2>2. e \in Entry
    <3> HIDE DEF n
    <3> QED BY <2>1, EntryTypes DEF Good
  <2>3. new \in Entry /\ new.id = e.id /\ new.flags = e.flags
    BY <1>0, <2>2 DEF Entry
  <2>4. d \in BOOLEAN
    BY DEF IsPersistent
  <2>5. PICK r : r = TakeUpdate(st, m)
    OBVIOUS
  <2>6. r = Result(MarkDirty(PutEntry(st, n, new), d), notes, out)
    BY <1>2, <2>5 DEF TakeUpdate
  <2>7. Bare(st) => new.flags = 0
    <3> HIDE DEF n, new
    <3> QED BY <2>1, <2>3 DEF Bare
  <2>8. KeepsIds(st, r.st) /\ r.out = out /\ (Bare(st) => Bare(r.st))
    <3> HIDE DEF n, new, d, notes, out
    <3> QED BY <2>1, <2>3, <2>4, <2>6, <2>7, KeptResult DEF Good
  <2>9. BareMsg(m)
    BY <1>0 DEF BareMsg
  <2>10. Heeds(st, m, r)
    BY <1>0, <2>1, <2>8, <2>9, OnwardHeeds
  <2> QED BY <2>5, <2>10
<1> QED BY <1>1, <1>2

LEMMA FlagsHeeds ==
  ASSUME NEW st, Good(st), NEW m \in FlagMsgs
  PROVE  Heeds(st, m, TakeFlags(st, m))
<1> DEFINE n == st.idmap[m.id]
           e == st.entries[n]
           new == [e EXCEPT !.flags = m.flags]
           notes == <<Note(n, e.value, {"flags"})>>
           out == If(st.server, <<Onward(m)>>)
<1>0. m.id \in NewIds /\ m.flags \in {0, 1} /\ m \in Msgs /\ m.type = "flags"
  BY DEF FlagMsgs, Msgs, NewIds
<1>1. CASE ~KnownId(st, m.id) \/ e.flags = m.flags
  <2>1. TakeFlags(st, m) = Ignored(st)
    BY <1>1 DEF TakeFlags
  <2> QED BY <2>1, IgnoredHeeds
<1>2. CASE KnownId(st, m.id) /\ e.flags # m.flags
  <2>1. n \in Names /\ m.id \in Ids /\ n # NoName
    BY <1>0, <1>2, KnownFacts, StorageAssumption
  <2>2. e \in Entry
    <3> HIDE DEF n
    <3> QED BY <2>1, EntryTypes DEF Good
  <2>3. new \in Entry /\ new.id = e.id /\ new.flags = m.flags
    BY <1>0, <2>2 DEF Entry
  <2>5. PICK r : r = TakeFlags(st, m)
    OBVIOUS
  <2>6. r = Result(MarkDirty(PutEntry(st, n, new), TRUE), notes, out)
    BY <1>2, <2>5 DEF TakeFlags
  <2>8. KeepsIds(st, r.st) /\ r.out = out /\ (Bare(st) /\ new.flags = 0 => Bare(r.st))
    <3>1. PICK d \in BOOLEAN : d = TRUE
      OBVIOUS
    <3>2. r = Result(MarkDirty(PutEntry(st, n, new), d), notes, out)
      BY <2>6, <3>1
    <3> HIDE DEF n, new, notes, out
    <3> QED BY <2>1, <2>3, <3>2, KeptResult DEF Good
  <2>9. BareMsg(m) => new.flags = 0
    BY <1>0, <2>3 DEF BareMsg
  <2>10. Heeds(st, m, r)
    <3> HIDE DEF n, new
    <3>1. out = If(st.server, <<Onward(m)>>) /\ st.idmap[m.id] # NoName
      BY <2>1 DEF n
    <3> HIDE DEF out
    <3> QED BY <1>0, <2>1, <2>8, <2>9, <3>1, OnwardHeeds
  <2> QED BY <2>5, <2>10
<1> QED BY <1>1, <1>2

LEMMA TakeAssignHeeds ==
  ASSUME NEW st, Good(st), NEW n \in Names, NEW m \in Assigns, m.id \in Ids,
         st.idmap[m.id] = n
  PROVE  Heeds(st, m, TakeAssign(st, n, m, FALSE))
<1> DEFINE e == st.entries[n]
           new == [e EXCEPT !.value = m.value, !.seq = m.seq, !.flags = m.flags]
           kinds == {"update"} \cup (IF m.flags # e.flags THEN {"flags"} ELSE {})
           notes == <<Note(n, m.value, kinds)>>
           onward == If(st.server, <<Onward(EntryAssign(n, m.id, m.seq, m.value, m.flags))>>)
           d == m.flags # e.flags \/ (m.flags = 1 /\ e.value # m.value)
<1>1. /\ e \in Entry /\ e.flags \in {0, 1} /\ m.flags \in {0, 1} /\ m.id \in NewIds
      /\ m.value \in Values /\ m.seq \in SeqNums /\ m.type = "assign"
  BY EntryTypes DEF Good, Assigns, NewIds
<1>2. PICK a \in Msgs : /\ a = EntryAssign(n, m.id, m.seq, m.value, m.flags)
                        /\ a.type = "assign" /\ a.id = m.id /\ a.flags = m.flags
  <2>1. EntryAssign(n, m.id, m.seq, m.value, m.flags) \in Msgs
    BY <1>1, MsgTypes
  <2> QED BY <2>1 DEF EntryAssign
<1>3. new \in Entry /\ new.id = e.id /\ new.flags = m.flags
  BY <1>1 DEF Entry
<1>4. d \in BOOLEAN
  OBVIOUS
<1>5. PICK r : r = TakeAssign(st, n, m, FALSE)
  OBVIOUS
<1>6. If(FALSE, <<ToAll(FlagsUpdate(m.id, e.flags))>>) = <<>>
      /\ If(FALSE, <<ToAll(EntryUpdate(e.id, e.seq, e.value))>>) = <<>> /\ <<>> \o <<>> = <<>>
  BY DEF If
<1>7. <<>> \o onward = onward
  <2>1. onward \in Seq(Sends)
    <3>1. onward = If(st.server, <<Onward(a)>>) /\ Onward(a) \in Sends
      BY <1>2, SendIsSends
    <3> HIDE DEF onward
    <3> QED BY <3>1, IfInSeq
  <2> HIDE DEF onward
  <2> QED BY <2>1
<1>8. CASE Lt(m.seq, e.seq)
  <2>1. r = Result(st, <<>>, <<>>)
    BY <1>5, <1>6, <1>8 DEF TakeAssign
  <2> QED BY <1>5, <2>1, IgnoredHeeds DEF Ignored
<1>9. CASE ~Lt(m.seq, e.seq) /\ m.name # n
  <2>1. r = Result(st, <<>>, <<>>)
    BY <1>5, <1>6, <1>9 DEF TakeAssign
  <2> QED BY <1>5, <2>1, IgnoredHeeds DEF Ignored
<1>10. CASE ~Lt(m.seq, e.seq) /\ m.name = n
  <2>1. r = Result(MarkDirty(PutEntry(st, n, new), d), notes, <<>> \o onward)
    BY <1>5, <1>6, <1>10 DEF TakeAssign
  <2>2. r = Result(MarkDirty(PutEntry(st, n, new), d), notes, onward)
    BY <1>7, <2>1
  <2>3. KeepsIds(st, r.st) /\ r.out = onward /\ (Bare(st) /\ m.flags = 0 => Bare(r.st))
    <3> HIDE DEF new, d, notes, onward
    <3> QED BY <1>3, <1>4, <2>2, KeptResult DEF Good
  <2>4. BareMsg(m) => m.flags = 0 /\ BareMsg(a)
    BY <1>1, <1>2 DEF BareMsg
  <2>5. r.out = If(st.server, <<Onward(a)>>) /\ st.idmap[m.id] # NoName
    BY <1>2, <2>3, StorageAssumption
  <2>6. Heeds(st, m, r)
    BY <1>1, <1>2, <2>3, <2>4, <2>5, OnwardHeeds
  <2> QED BY <1>5, <2>6
<1> QED BY <1>8, <1>9, <1>10

\* A client is told the id of an entry it has.
LEMMA NeededHeeds ==
  ASSUME NEW st, Good(st), ~IsServer(st), NEW n \in Names, NEW m \in Assigns, m.id \in Ids,
         Has(st, n)
  PROVE  Heeds(st, m, TakeAssign(st, n, m, TRUE))
<1> DEFINE e == st.entries[n]
           new == [e EXCEPT !.value = m.value, !.seq = m.seq, !.flags = e.flags]
           kinds == {"update"} \cup (IF e.flags # e.flags THEN {"flags"} ELSE {})
           notes == <<Note(n, m.value, kinds)>>
           interim == If(m.flags # e.flags, <<ToAll(FlagsUpdate(m.id, e.flags))>>)
           again == <<ToAll(EntryUpdate(e.id, e.seq, e.value))>>
           onward == If(st.server, <<Onward(EntryAssign(n, m.id, m.seq, m.value, e.flags))>>)
           d == e.flags # e.flags \/ (e.flags = 1 /\ e.value # m.value)
<1>1. /\ e \in Entry /\ e.flags \in {0, 1} /\ m.flags \in {0, 1} /\ m.id \in NewIds
      /\ m.value \in Values /\ m.seq \in SeqNums /\ m.type = "assign"
      /\ e.value \in Values /\ e.id \in NewIds /\ e.seq \in SeqNums
  <2>1. e \in Entry /\ m.flags \in {0, 1} /\ m.id \in NewIds
        /\ m.value \in Values /\ m.seq \in SeqNums /\ m.type = "assign"
    BY EntryTypes DEF Good, Assigns, NewIds
  <2> QED BY <2>1 DEF Entry, Has, NewIds
<1>2. PICK u \in Msgs : u = EntryUpdate(e.id, e.seq, e.value) /\ u.type = "update"
  <2>1. EntryUpdate(e.id, e.seq, e.value) \in Msgs
    <3> HIDE DEF e
    <3> QED BY <1>1, MsgTypes
  <2> QED BY <2>1 DEF EntryUpdate
<1>3. PICK w \in Msgs : w = FlagsUpdate(m.id, e.flags) /\ w.type = "flags"
  <2>1. FlagsUpdate(m.id, e.flags) \in Msgs
    <3> HIDE DEF e
    <3> QED BY <1>1 DEF FlagsUpdate, Msgs, FlagMsgs
  <2> QED BY <2>1 DEF FlagsUpdate
<1>4. ToAll(u) \in Talk /\ ToAll(u) \in BareSends /\ ToAll(w) \in Talk
  BY <1>2, <1>3, SendIsSends DEF Talk, BareSends, BareMsg, ToAll
<1>5. again \in Seq(Talk) /\ again \in Seq(BareSends)
  <2>1. again = <<ToAll(u)>>
    BY <1>2
  <2> HIDE DEF again
  <2> QED BY <1>4, <2>1, OneMessage
<1>6. interim \in Seq(Talk) /\ (Bare(st) /\ BareMsg(m) => interim = <<>>)
  <2>1. interim = IF m.flags # e.flags THEN <<ToAll(w)>> ELSE <<>>
    BY <1>3 DEF If
  <2>2. interim \in Seq(Talk)
    <3>1. <<ToAll(w)>> \in Seq(Talk) /\ <<>> \in Seq(Talk)
      BY <1>4, OneMessage, EmptySeq
    <3> HIDE DEF interim
    <3> QED BY <2>1, <3>1
  <2>3. Bare(st) /\ BareMsg(m) => m.flags = e.flags
    BY <1>1 DEF Bare, BareMsg
  <2> QED BY <2>1, <2>2, <2>3
<1>7. onward = <<>>
  BY DEF If, IsServer
<1>8. new \in Entry /\ new.id = e.id /\ new.flags = e.flags
  BY <1>1 DEF Entry
<1>9. d \in BOOLEAN
  OBVIOUS
<1>10. PICK r : r = TakeAssign(st, n, m, TRUE)
  OBVIOUS
<1>11. ASSUME NEW o \in {again, <<>>}, r.out = interim \o o, KeepsIds(st, r.st),
              Bare(st) => Bare(r.st)
       PROVE  Heeds(st, m, r)
  <2> HIDE DEF interim, again
  <2>1. o \in Seq(Talk) /\ o \in Seq(BareSends)
    BY <1>5, EmptySeq
  <2>2. r.out \in Seq(Talk)
    BY <1>6, <1>11, <2>1, Concat
  <2>3. <<>> \o o = o
    BY <2>1
  <2>4. BareMsg(m) => StaysBare(st, r)
    BY <1>6, <1>11, <2>1, <2>3 DEF StaysBare
  <2> QED BY <1>11, <2>2, <2>4 DEF Heeds
<1>12. <<>> \in Seq(Talk) /\ interim \o <<>> = interim
  <2> HIDE DEF interim
  <2> QED BY <1>6, EmptySeq
<1>13. If(TRUE, again) = again /\ If(TRUE /\ m.flags # e.flags, <<ToAll(FlagsUpdate(m.id, e.flags))>>) = interim
  BY DEF If
<1>14. CASE Lt(m.seq, e.seq)
  <2>1. r = Result(st, <<>>, interim \o again)
    BY <1>10, <1>13, <1>14 DEF TakeAssign
  <2>2. r.st = st /\ r.out = interim \o again
    BY <2>1 DEF Result
  <2> QED BY <1>10, <1>11, <2>2 DEF KeepsIds
<1>15. CASE ~Lt(m.seq, e.seq) /\ m.name # n
  <2>1. r = Result(st, <<>>, interim)
    BY <1>10, <1>13, <1>15 DEF TakeAssign
  <2>2. r.st = st /\ r.out = interim \o <<>>
    BY <1>12, <2>1 DEF Result
  <2> QED BY <1>10, <1>11, <2>2 DEF KeepsIds
<1>16. CASE ~Lt(m.seq, e.seq) /\ m.name = n
  <2>1. r = Result(MarkDirty(PutEntry(st, n, new), d), notes, interim \o onward)
    BY <1>10, <1>13, <1>16 DEF TakeAssign
  <2>2. r = Result(MarkDirty(PutEntry(st, n, new), d), notes, interim \o <<>>)
    BY <1>7, <2>1
  <2>3. Bare(st) => e.flags = 0
    BY DEF Bare
  <2>4. KeepsIds(st, r.st) /\ r.out = interim \o <<>> /\ (Bare(st) => Bare(r.st))
    <3> HIDE DEF new, d, notes, interim
    <3> QED BY <1>8, <1>9, <2>2, <2>3, KeptResult DEF Good
  <2> QED BY <1>10, <1>11, <2>4
<1> QED BY <1>14, <1>15, <1>16

\* An id is freed with its entry.
Forgets(st, m, r) ==
  /\ m.id \in Ids /\ st.idmap[m.id] # NoName
  /\ r.st.idmap = [st.idmap EXCEPT ![m.id] = NoName]
  /\ \A k \in Names : r.st.entries[k] = IF k = st.idmap[m.id] THEN Fresh ELSE st.entries[k]
  /\ r.out = If(st.server, <<Onward(m)>>)

LEMMA DeleteHeeds ==
  ASSUME NEW st, Good(st), NEW m \in Deletes, NEW r, r = TakeDelete(st, m)
  PROVE  (r = Ignored(st) /\ ~KnownId(st, m.id)) \/ Forgets(st, m, r)
<1> DEFINE n == st.idmap[m.id]
           e == st.entries[n]
           d == IsPersistent(e)
           notes == <<Note(n, e.value, {"delete"})>>
           out == If(st.server, <<Onward(m)>>)
<1>0. m.id \in NewIds /\ m.id \in Ids /\ m \in Msgs /\ m.type = "delete"
  BY DEF Deletes, Msgs, NewIds
<1>1. CASE ~KnownId(st, m.id)
  BY <1>1 DEF TakeDelete
<1>2. CASE KnownId(st, m.id)
  <2>1. n \in Names /\ n # NoName
    BY <1>0, <1>2, KnownFacts, StorageAssumption
  <2>2. /\ st \in Store /\ st.idmap \in [Ids -> Names \cup {NoName}]
        /\ st.entries \in [Names -> Entry] /\ d \in BOOLEAN
    BY DEF Good, Store, IsPersistent
  <2>3. Fresh \in Entry
    BY HalfAssumption DEF Fresh, Entry, SeqNums
  <2>4. PICK p : p = PutEntry(st, n, Fresh)
    OBVIOUS
  <2>5. p \in Store /\ p.idmap = st.idmap /\ p.entries = [st.entries EXCEPT ![n] = Fresh]
    <3> HIDE DEF n
    <3> QED BY <2>1, <2>2, <2>3, <2>4, PutFacts
  <2>6. PICK s : s = [MarkDirty(p, d) EXCEPT !.idmap[m.id] = NoName]
    OBVIOUS
  <2>7. s.entries = p.entries /\ s.idmap = [p.idmap EXCEPT ![m.id] = NoName]
    <3> HIDE DEF d
    <3> QED BY <2>2, <2>5, <2>6, <1>0 DEF MarkDirty, Store
  <2>8. r = Result(s, notes, out)
    BY <1>2, <2>4, <2>6 DEF TakeDelete
  <2>9. r.st = s /\ r.out = out
    <3> HIDE DEF notes, out
    <3> QED BY <2>8 DEF Result
  <2>10. \A k \in Names : r.st.entries[k] = IF k = n THEN Fresh ELSE st.entries[k]
    BY <2>2, <2>5, <2>7, <2>9
  <2> QED BY <1>0, <2>1, <2>5, <2>7, <2>9, <2>10 DEF Forgets
<1> QED BY <1>1, <1>2

LEMMA ForgetsBare ==
  ASSUME NEW st, NEW m \in Deletes, NEW r, Forgets(st, m, r)
  PROVE  StaysBare(st, r)
<1>1. m \in Msgs /\ BareMsg(m)
  BY DEF Deletes, Msgs, BareMsg
<1>2. Onward(m) \in BareSends
  BY <1>1, SendIsSends DEF BareSends, Onward
<1>3. r.out \in Seq(BareSends)
  BY <1>2, IfInSeq DEF Forgets
<1>4. Fresh.flags = 0
  BY DEF Fresh
<1>5. Bare(st) => Bare(r.st)
  BY <1>4 DEF Bare, Forgets
<1> QED BY <1>3, <1>5 DEF StaysBare

\* Entries without flags are all deleted.
Wipes(st, s) ==
  /\ \A i \in Ids : s.idmap[i] # NoName =>
       s.idmap[i] = st.idmap[i] /\ (LeadsBack(st, i) => s.entries[st.idmap[i]] = st.entries[st.idmap[i]])
  /\ Bare(st) => /\ Bare(s)
                 /\ \A i \in Ids : st.idmap[i] # NoName /\ LeadsBack(st, i) => s.idmap[i] = NoName

LEMMA ClearWipes ==
  ASSUME NEW st, Good(st), NEW s, s = DeleteAllEntriesImpl(st)
  PROVE  Wipes(st, s)
<1> DEFINE gone == {n \in Present(st) : ~IsPersistent(st.entries[n])}
           es == [n \in Names |-> IF n \in gone THEN Fresh ELSE st.entries[n]]
           im == [i \in Ids |-> IF \E n \in gone : st.entries[n].id = i
                                THEN NoName ELSE st.idmap[i]]
<1>1. /\ st \in Store /\ st.entries \in [Names -> Entry]
      /\ st.idmap \in [Ids -> Names \cup {NoName}]
  BY DEF Good, Store
<1>2. s = [st EXCEPT !.entries = es, !.idmap = im]
  BY <1>1 DEF DeleteAllEntriesImpl, Store
<1>3. s.entries = es /\ s.idmap = im
  BY <1>1, <1>2 DEF Store
<1>4. /\ \A n \in Names : es[n] = IF n \in gone THEN Fresh ELSE st.entries[n]
      /\ \A i \in Ids : im[i] = IF \E n \in gone : st.entries[n].id = i THEN NoName ELSE st.idmap[i]
  OBVIOUS
<1>5. \A n : n \in gone <=> n \in Names /\ Has(st, n) /\ ~IsPersistent(st.entries[n])
  BY DEF Present
<1> HIDE DEF gone, es, im
<1>6. ASSUME NEW i \in Ids, s.idmap[i] # NoName
      PROVE  /\ s.idmap[i] = st.idmap[i] /\ st.idmap[i] \in Names
             /\ LeadsBack(st, i) => s.entries[st.idmap[i]] = st.entries[st.idmap[i]]
  <2>1. s.idmap[i] = st.idmap[i] /\ ~ \E n \in gone : st.entries[n].id = i
    BY <1>3, <1>4, <1>6
  <2>2. st.idmap[i] \in Names
    BY <1>1, <1>6, <2>1
  <2>3. LeadsBack(st, i) => st.idmap[i] \notin gone
    BY <2>1 DEF LeadsBack
  <2> QED BY <1>3, <1>4, <2>1, <2>2, <2>3
<1>7. ASSUME Bare(st)
      PROVE  Bare(s) /\ \A i \in Ids : st.idmap[i] # NoName /\ LeadsBack(st, i) => s.idmap[i] = NoName
  <2>1. Fresh.flags = 0
    BY DEF Fresh
  <2>2. Bare(s)
    BY <1>3, <1>4, <1>7, <2>1 DEF Bare
  <2>3. ASSUME NEW i \in Ids, st.idmap[i] # NoName, LeadsBack(st, i) PROVE s.idmap[i] = NoName
    <3>1. PICK n \in Names : n = st.idmap[i] /\ Has(st, n) /\ st.entries[n].id = i
      BY <1>1, <2>3 DEF LeadsBack
    <3>2. st.entries[n].flags = 0
      BY <1>7 DEF Bare
    <3>3. n \in gone
      BY <1>5, <3>1, <3>2 DEF IsPersistent
    <3> QED BY <1>3, <1>4, <3>1, <3>3
  <2> QED BY <2>2, <2>3
<1> QED BY <1>6, <1>7 DEF Wipes

LEMMA TakeClearWipes ==
  ASSUME NEW st, Good(st), NEW m \in Clears, NEW r, r = TakeClear(st, m)
  PROVE  Wipes(st, r.st) /\ r.out = If(st.server, <<Onward(m)>>) /\ StaysBare(st, r)
<1>1. PICK s, out, notes : /\ s = DeleteAllEntriesImpl(st) /\ out = If(st.server, <<Onward(m)>>)
                           /\ notes = ClearNotes(st)
  OBVIOUS
<1>2. r = Result(s, notes, out)
  BY <1>1 DEF TakeClear
<1>3. r.st = s /\ r.out = out
  BY <1>2 DEF Result
<1>4. Wipes(st, s)
  BY <1>1, ClearWipes
<1>5. out \in Seq(BareSends)
  <2>1. m \in Msgs /\ BareMsg(m)
    BY DEF Clears, Msgs, BareMsg
  <2>2. Onward(m) \in BareSends
    BY <2>1, SendIsSends DEF BareSends, Onward
  <2> QED BY <1>1, <2>2, IfInSeq
<1> QED BY <1>1, <1>3, <1>4, <1>5 DEF StaysBare, Wipes

\* The program deletes all.
LEMMA DeleteAllWipes ==
  ASSUME NEW st, Good(st), NEW r, r = DeleteAllEntries(st)
  PROVE  /\ r = Ignored(st) \/ (Wipes(st, r.st) /\ r.out = <<ToAll(ClearEntries)>>)
         /\ StaysBare(st, r)
<1>1. CASE Present(st) = {}
  <2>1. r = Ignored(st)
    BY <1>1 DEF DeleteAllEntries
  <2> QED BY <2>1, IgnoredActs
<1>2. CASE Present(st) # {}
  <2>1. PICK s, out, notes : /\ s = DeleteAllEntriesImpl(st) /\ out = <<ToAll(ClearEntries)>>
                             /\ notes = ClearNotes(st)
    OBVIOUS
  <2>2. r = Result(s, notes, out)
    BY <1>2, <2>1 DEF DeleteAllEntries
  <2>3. r.st = s /\ r.out = out
    BY <2>2 DEF Result
  <2>4. Wipes(st, s)
    BY <2>1, ClearWipes
  <2>5. out \in Seq(BareSends)
    <3>1. ClearEntries \in Msgs /\ BareMsg(ClearEntries)
      BY DEF ClearEntries, Clears, Msgs, BareMsg
    <3>2. ToAll(ClearEntries) \in BareSends
      BY <3>1, SendIsSends DEF BareSends, ToAll
    <3> QED BY <2>1, <3>2, OneMessage
  <2> QED BY <2>1, <2>3, <2>4, <2>5 DEF StaysBare, Wipes
<1> QED BY <1>1, <1>2

\* A server gives an id for the entry that a client has created.
LEMMA RequestActs ==
  ASSUME NEW st, Good(st), IsServer(st), HasRoom(st), NEW m \in Assigns,
         NEW r, r = AssignRequest(st, m)
  PROVE  /\ r = Ignored(st) \/ GivesNew(st, m.name, r)
         /\ BareMsg(m) => StaysBare(st, r)
<1>0. Linked(st) /\ m.name \in Names /\ m.value \in Values /\ m.flags \in {0, 1} /\ m.type = "assign"
  BY ServerLinked DEF Assigns
<1>1. CASE Has(st, m.name)
  <2>1. r = Ignored(st)
    BY <1>1 DEF AssignRequest
  <2> QED BY <2>1, IgnoredActs
<1>2. CASE ~Has(st, m.name)
  <2>1. PICK e : e = [Fresh EXCEPT !.value = m.value, !.flags = m.flags]
    OBVIOUS
  <2>2. e \in Entry /\ e.value = m.value /\ e.id = NoId /\ e.flags = m.flags
    <3>1. Fresh \in Entry
      BY HalfAssumption DEF Fresh, Entry, SeqNums
    <3>2. e.value = m.value /\ e.id = NoId /\ e.flags = m.flags
      BY <2>1 DEF Fresh
    <3> QED BY <1>0, <2>1, <3>1, <3>2 DEF Entry
  <2>3. PICK s : s = GiveId(PutEntry(st, m.name, e), m.name)
    OBVIOUS
  <2>4. s = IfServerGiveId(PutEntry(st, m.name, e), m.name)
    <3>1. st \in Store /\ st.entries \in [Names -> Entry]
      BY DEF Good, Store
    <3>2. /\ SameRole(PutEntry(st, m.name, e), st)
          /\ PutEntry(st, m.name, e).entries = [st.entries EXCEPT ![m.name] = e]
      BY <1>0, <2>2, <3>1, PutFacts
    <3>3. PutEntry(st, m.name, e).entries[m.name].id = NoId
      BY <1>0, <2>2, <3>1, <3>2
    <3> QED BY <2>3, <3>2, <3>3 DEF IfServerGiveId, SameRole, IsServer
  <2>5. e.id = st.entries[m.name].id /\ e.value \in Values
    BY <1>0, <1>2, <2>2 DEF Linked
  <2>6. Good(s) /\ s.entries[m.name] \in Entry /\ s.entries[m.name].value = e.value
    BY <1>0, <2>2, <2>4, <2>5, PutTakes
  <2>7. /\ s.entries[m.name].flags = e.flags
        /\ \A k \in Names : k # m.name => s.entries[k] = st.entries[k]
        /\ \/ KeepsIds(st, s) /\ s.entries[m.name].id = e.id
           \/ /\ IsServer(st) /\ e.id = NoId /\ st.size \in Ids
              /\ s.idmap = [st.idmap EXCEPT ![st.size] = m.name] /\ s.entries[m.name].id = st.size
    BY <1>0, <2>2, <2>4, <2>5, PutActs
  <2>8. PICK a \in Msgs : /\ a = AssignOf(m.name, s.entries[m.name]) /\ a.type = "assign"
                          /\ a.id = s.entries[m.name].id /\ a.flags = s.entries[m.name].flags
    <3>1. AssignOf(m.name, s.entries[m.name]) \in Msgs
      BY <1>0, <2>5, <2>6, AssignIsMsg
    <3> QED BY <3>1 DEF AssignOf, EntryAssign
  <2>9. PICK d \in BOOLEAN : d = (m.flags = 1)
    OBVIOUS
  <2>10. r = Result(MarkDirty(s, d), <<Note(m.name, m.value, {"new"})>>, <<ToAll(a)>>)
    BY <1>2, <2>1, <2>3, <2>8, <2>9 DEF AssignRequest
  <2>11. PICK p : p = MarkDirty(s, d)
    OBVIOUS
  <2>12. p.idmap = s.idmap /\ p.entries = s.entries
    BY <2>6, <2>11, DirtyIds DEF Good
  <2>13. r.st = p /\ r.out = <<ToAll(a)>>
    BY <2>10, <2>11 DEF Result
  <2>14. ~(s.entries[m.name].id = e.id)
    <3>1. IsServer(s)
      BY <1>0, <2>2, <2>4, <2>5, LocalPut, RoleFacts
    <3>2. Has(s, m.name)
      BY <2>5, <2>6, NoValueIsNone DEF Has
    <3> QED BY <1>0, <2>2, <2>6, <3>1, <3>2 DEF Good, Exact, Present
  <2>15. /\ st.size \in Ids /\ s.idmap = [st.idmap EXCEPT ![st.size] = m.name]
         /\ s.entries[m.name].id = st.size
    BY <2>7, <2>14
  <2>16. GivesNew(st, m.name, r)
    BY <2>8, <2>12, <2>13, <2>15 DEF GivesNew
  <2>17. ASSUME BareMsg(m), Bare(st) PROVE Bare(r.st) /\ r.out \in Seq(BareSends)
    <3>1. e.flags = 0
      BY <1>0, <2>2, <2>17 DEF BareMsg
    <3>2. Bare(r.st)
      BY <2>7, <2>12, <2>13, <2>17, <3>1 DEF Bare
    <3>3. ToAll(a) \in BareSends
      BY <2>7, <2>8, <3>1, SendIsSends DEF BareSends, BareMsg, ToAll
    <3> QED BY <2>13, <3>2, <3>3, OneMessage
  <2> QED BY <2>16, <2>17 DEF StaysBare
<1> QED BY <1>1, <1>2

\* What a server does with a message.
Hosts(st, m, r) ==
  /\ \/ Heeds(st, m, r)
     \/ m.type = "assign" /\ GivesNew(st, m.name, r)
     \/ m.type = "delete" /\ Forgets(st, m, r)
     \/ m.type = "clear" /\ r.out = <<Onward(m)>>
  /\ BareMsg(m) => StaysBare(st, r)

LEMMA ServerHosts ==
  ASSUME NEW st, Good(st), IsServer(st), HasRoom(st), NEW m \in Msgs,
         NEW r, r = ProcessIncoming(st, m)
  PROVE  Hosts(st, m, r)
<1>1. CASE m \in Assigns
  <2>1. r = ServerAssign(st, m) /\ m.type = "assign" /\ m.id \in NewIds
    BY <1>1 DEF Assigns, ProcessIncoming, IsServer
  <2>2. CASE m.id = NoId
    <3>1. r = AssignRequest(st, m)
      BY <2>1, <2>2 DEF ServerAssign
    <3>2. /\ r = Ignored(st) \/ GivesNew(st, m.name, r)
          /\ BareMsg(m) => StaysBare(st, r)
      BY <1>1, <3>1, RequestActs
    <3> QED BY <2>1, <3>2, IgnoredHeeds DEF Hosts
  <2>3. CASE m.id # NoId /\ ~KnownId(st, m.id)
    <3>1. r = Ignored(st)
      BY <2>1, <2>3 DEF ServerAssign
    <3> QED BY <3>1, IgnoredHeeds, IgnoredActs DEF Hosts
  <2>4. CASE m.id # NoId /\ KnownId(st, m.id)
    <3>1. PICK n \in Names : n = st.idmap[m.id] /\ m.id \in Ids
      BY <2>1, <2>4, KnownFacts
    <3>2. r = TakeAssign(st, n, m, FALSE)
      BY <2>1, <2>4, <3>1 DEF ServerAssign
    <3>3. Heeds(st, m, r)
      BY <1>1, <3>1, <3>2, TakeAssignHeeds
    <3> QED BY <3>3 DEF Hosts, Heeds
  <2> QED BY <2>2, <2>3, <2>4
<1>2. CASE m \in Updates
  <2>1. r = TakeUpdate(st, m)
    BY <1>2 DEF Updates, ProcessIncoming
  <2>2. Heeds(st, m, r)
    BY <1>2, <2>1, UpdateHeeds
  <2> QED BY <2>2 DEF Hosts, Heeds
<1>3. CASE m \in FlagMsgs
  <2>1. r = TakeFlags(st, m)
    BY <1>3 DEF FlagMsgs, ProcessIncoming
  <2>2. Heeds(st, m, r)
    BY <1>3, <2>1, FlagsHeeds
  <2> QED BY <2>2 DEF Hosts, Heeds
<1>4. CASE m \in Deletes
  <2>1. r = TakeDelete(st, m) /\ m.type = "delete"
    BY <1>4 DEF Deletes, ProcessIncoming
  <2>2. r = Ignored(st) \/ Forgets(st, m, r)
    BY <1>4, <2>1, DeleteHeeds
  <2>3. CASE r = Ignored(st)
    BY <2>3, IgnoredHeeds, IgnoredActs DEF Hosts
  <2>4. CASE Forgets(st, m, r)
    BY <1>4, <2>1, <2>4, ForgetsBare DEF Hosts
  <2> QED BY <2>2, <2>3, <2>4
<1>5. CASE m \in Clears
  <2>1. r = TakeClear(st, m) /\ m.type = "clear"
    BY <1>5 DEF Clears, ProcessIncoming
  <2>2. r.out = If(st.server, <<Onward(m)>>) /\ StaysBare(st, r)
    BY <1>5, <2>1, TakeClearWipes
  <2>3. r.out = <<Onward(m)>>
    BY <2>2 DEF If, IsServer
  <2> QED BY <2>1, <2>2, <2>3 DEF Hosts
<1> QED BY <1>1, <1>2, <1>3, <1>4, <1>5 DEF Msgs

\* An entry of which every id led back, and that has one id now: it leads back.
KeepsSolo(st, s) ==
  \A n \in Names :
    /\ \A i \in Ids : st.idmap[i] = n => LeadsBack(st, i)
    /\ \A i, j \in Ids : s.idmap[i] = n /\ s.idmap[j] = n => i = j
    => \A i \in Ids : s.idmap[i] = n => LeadsBack(s, i)

\* What a client does with a message.
Takes(st, m, r) ==
  /\ KeepsSolo(st, r.st)
  /\ \A i \in Ids : Frees(m, i) /\ st.idmap[i] # NoName /\ LeadsBack(st, i) /\ (m.type = "clear" => Bare(st))
       => r.st.idmap[i] = NoName
  /\ r.out \in Seq(Talk)
  /\ BareMsg(m) => StaysBare(st, r)

LEMMA IdLeadsBack ==
  ASSUME NEW s, Linked(s), NEW i \in Ids, NEW n \in Names, s.idmap[i] = n
  PROVE  LeadsBack(s, i) <=> s.entries[n].id = i
<1>1. i # NoId
  BY IdsAre
<1>2. ASSUME s.entries[n].id = i PROVE Has(s, n)
  BY <1>1, <1>2 DEF Linked
<1> QED BY <1>2 DEF LeadsBack

LEMMA KeptSolo ==
  ASSUME NEW st, Linked(st), NEW s, Linked(s), KeepsIds(st, s)
  PROVE  KeepsSolo(st, s)
<1>1. SUFFICES ASSUME NEW n \in Names, NEW i \in Ids, s.idmap[i] = n,
                      \A j \in Ids : st.idmap[j] = n => LeadsBack(st, j)
               PROVE  LeadsBack(s, i)
  BY DEF KeepsSolo
<1>2. st.idmap[i] = n
  BY <1>1 DEF KeepsIds
<1>3. st.entries[n].id = i /\ i # NoId
  BY <1>1, <1>2, IdLeadsBack, IdsAre
<1>4. s.entries[n].id = i
  BY <1>3 DEF KeepsIds
<1> QED BY <1>1, <1>4, IdLeadsBack

\* The entry that is given an id has that one.
LEMMA GivenSolo ==
  ASSUME NEW st, Linked(st), NEW s, Linked(s), NEW x \in Names, NEW m \in Ids,
         s.idmap[m] = x, s.entries[x].id = m,
         \A i \in Ids : i # m => s.idmap[i] = st.idmap[i],
         \A k \in Names : k # x /\ st.entries[k].id # NoId => s.entries[k].id = st.entries[k].id
  PROVE  KeepsSolo(st, s)
<1>1. SUFFICES ASSUME NEW n \in Names, NEW i \in Ids, s.idmap[i] = n,
                      \A j \in Ids : st.idmap[j] = n => LeadsBack(st, j),
                      \A j, k \in Ids : s.idmap[j] = n /\ s.idmap[k] = n => j = k
               PROVE  LeadsBack(s, i)
  BY DEF KeepsSolo
<1>2. CASE n = x
  <2>1. i = m
    BY <1>1, <1>2
  <2> QED BY <1>1, <1>2, <2>1, IdLeadsBack
<1>3. CASE n # x
  <2>1. i # m /\ st.idmap[i] = n
    BY <1>1, <1>3
  <2>2. st.entries[n].id = i /\ i # NoId
    BY <1>1, <2>1, IdLeadsBack, IdsAre
  <2>3. s.entries[n].id = i
    BY <1>3, <2>2
  <2> QED BY <1>1, <2>3, IdLeadsBack
<1> QED BY <1>2, <1>3

LEMMA IgnoredTakes ==
  ASSUME NEW st, Linked(st), NEW m,
         m.type # "clear", m.type = "delete" /\ m.id \in Ids => st.idmap[m.id] = NoName
  PROVE  Takes(st, m, Ignored(st))
<1>1. Ignored(st).st = st /\ Ignored(st).out = <<>>
  BY DEF Ignored, Result
<1>2. KeepsSolo(st, st)
  BY KeptSolo DEF KeepsIds
<1>3. StaysBare(st, Ignored(st)) /\ <<>> \in Seq(Talk)
  BY IgnoredActs, EmptySeq
<1> QED BY <1>1, <1>2, <1>3 DEF Takes, Frees

LEMMA HeedsTakes ==
  ASSUME NEW st, Linked(st), ~IsServer(st), NEW m, NEW r, Heeds(st, m, r), Linked(r.st),
         m.type \notin {"delete", "clear"}
  PROVE  Takes(st, m, r)
<1>1. KeepsSolo(st, r.st)
  BY KeptSolo DEF Heeds
<1>2. r.out \in Seq(Talk)
  BY EmptySeq DEF Heeds
<1> QED BY <1>1, <1>2 DEF Takes, Frees, Heeds

LEMMA ClientAssignTakes ==
  ASSUME NEW st, Good(st), Linked(st), ~IsServer(st), NEW m \in Assigns,
         NEW r, r = ClientAssign(st, m)
  PROVE  Takes(st, m, r)
<1>0. /\ m.name \in Names /\ m.value \in Values /\ m.flags \in {0, 1} /\ m.id \in NewIds
      /\ m.id # NoId => m.id \in Ids
      /\ m.type = "assign" /\ st \in Store /\ st.idmap \in [Ids -> Names \cup {NoName}]
      /\ st.entries \in [Names -> Entry]
  BY DEF Assigns, NewIds, Good, Store
<1>1. CASE m.id = NoId
  <2>1. r = Ignored(st)
    BY <1>1 DEF ClientAssign
  <2> QED BY <1>0, <2>1, IgnoredTakes
<1>l. Linked(r.st)
  BY ClientAssignIds
<1>2. CASE m.id # NoId /\ KnownId(st, m.id)
  <2>1. PICK n \in Names : n = st.idmap[m.id] /\ m.id \in Ids
    BY <1>0, <1>2, KnownFacts
  <2>2. r = TakeAssign(st, n, m, FALSE)
    BY <1>2, <2>1 DEF ClientAssign
  <2>3. Heeds(st, m, r)
    BY <2>1, <2>2, TakeAssignHeeds
  <2> QED BY <1>0, <1>l, <2>3, HeedsTakes
<1>3. CASE m.id # NoId /\ ~KnownId(st, m.id) /\ Has(st, m.name)
  <2>1. PICK s : s = BindId(st, m.name, m.id)
    OBVIOUS
  <2>2. Linked(s) /\ s.idmap = [st.idmap EXCEPT ![m.id] = m.name]
    BY <1>0, <1>3, <2>1, BindLinked
  <2>3. Good(s) /\ ~IsServer(s) /\ Has(s, m.name)
    BY <1>0, <1>3, <2>1, BindFacts, RoleFacts
  <2>4. s.entries = [st.entries EXCEPT ![m.name] = [st.entries[m.name] EXCEPT !.id = m.id]]
    BY <1>0, <2>1 DEF BindId, Store
  <2>5. /\ s.entries[m.name].id = m.id /\ s.entries[m.name].flags = st.entries[m.name].flags
        /\ \A k \in Names : k # m.name => s.entries[k] = st.entries[k]
    <3>1. st.entries[m.name] \in Entry
      BY <1>0
    <3>2. PICK e : e = [st.entries[m.name] EXCEPT !.id = m.id]
      OBVIOUS
    <3>3. e.id = m.id /\ e.flags = st.entries[m.name].flags
      BY <3>1, <3>2 DEF Entry
    <3> QED BY <1>0, <2>4, <3>2, <3>3
  <2>6. r = TakeAssign(s, m.name, m, TRUE)
    BY <1>3, <2>1 DEF ClientAssign
  <2>7. Heeds(s, m, r)
    BY <1>0, <1>3, <2>3, <2>6, NeededHeeds
  <2>8. /\ r.st.idmap = [st.idmap EXCEPT ![m.id] = m.name]
        /\ r.st.entries[m.name].id = m.id
        /\ \A k \in Names : k # m.name /\ st.entries[k].id # NoId =>
             r.st.entries[k].id = st.entries[k].id
    BY <1>0, <1>3, <2>2, <2>5, <2>7 DEF Heeds, KeepsIds
  <2>9. KeepsSolo(st, r.st)
    <3>1. r.st.idmap[m.id] = m.name /\ \A i \in Ids : i # m.id => r.st.idmap[i] = st.idmap[i]
      BY <1>0, <1>3, <2>8
    <3> QED BY <1>0, <1>3, <1>l, <2>8, <3>1, GivenSolo
  <2>10. r.out \in Seq(Talk)
    BY <2>3, <2>7, EmptySeq DEF Heeds
  <2>11. Bare(st) => Bare(s)
    BY <1>0, <2>5 DEF Bare
  <2>12. BareMsg(m) => StaysBare(st, r)
    BY <2>7, <2>11 DEF Heeds, StaysBare
  <2> QED BY <1>0, <2>9, <2>10, <2>12 DEF Takes, Frees
<1>4. CASE m.id # NoId /\ ~KnownId(st, m.id) /\ ~Has(st, m.name)
  <2>1. PICK e : e = [Fresh EXCEPT !.value = m.value, !.flags = m.flags]
    OBVIOUS
  <2>2. e \in Entry /\ e.value = m.value /\ e.id = NoId /\ e.flags = m.flags
    <3>1. Fresh \in Entry
      BY HalfAssumption DEF Fresh, Entry, SeqNums
    <3>2. e.value = m.value /\ e.id = NoId /\ e.flags = m.flags
      BY <2>1 DEF Fresh
    <3> QED BY <1>0, <2>1, <3>1, <3>2 DEF Entry
  <2>3. PICK p : p = PutEntry(st, m.name, e)
    OBVIOUS
  <2>4. /\ p \in Store /\ p.idmap = st.idmap
        /\ p.entries = [st.entries EXCEPT ![m.name] = e]
    BY <1>0, <2>2, <2>3, PutFacts
  <2>5. PICK s : s = BindId(p, m.name, m.id)
    OBVIOUS
  <2>6. /\ s.entries = [p.entries EXCEPT ![m.name] = [p.entries[m.name] EXCEPT !.id = m.id]]
        /\ s.idmap = [p.idmap EXCEPT ![m.id] = m.name]
    BY <2>4, <2>5 DEF BindId, Store
  <2>7. /\ s.entries[m.name].id = m.id /\ s.entries[m.name].flags = m.flags
        /\ \A k \in Names : k # m.name => s.entries[k] = st.entries[k]
    <3>1. p.entries[m.name] = e
      BY <1>0, <2>4
    <3>2. PICK x : x = [e EXCEPT !.id = m.id]
      OBVIOUS
    <3>3. x.id = m.id /\ x.flags = m.flags
      BY <2>2, <3>2 DEF Entry
    <3>4. s.entries = [p.entries EXCEPT ![m.name] = x]
      BY <2>6, <3>1, <3>2
    <3>5. p.entries \in [Names -> Entry]
      BY <2>4 DEF Store
    <3> QED BY <1>0, <2>4, <3>3, <3>4, <3>5
  <2>8. r = Result(s, <<Note(m.name, m.value, {"new"})>>, <<>>)
    BY <1>4, <2>1, <2>3, <2>5 DEF ClientAssign
  <2>9. r.st = s /\ r.out = <<>>
    BY <2>8 DEF Result
  <2>10. KeepsSolo(st, r.st)
    <3>1. s.idmap[m.id] = m.name /\ \A i \in Ids : i # m.id => s.idmap[i] = st.idmap[i]
      BY <1>0, <1>4, <2>4, <2>6
    <3> QED BY <1>0, <1>4, <1>l, <2>7, <2>9, <3>1, GivenSolo
  <2>11. BareMsg(m) => StaysBare(st, r)
    <3>1. BareMsg(m) /\ Bare(st) => Bare(s)
      BY <1>0, <2>7 DEF Bare, BareMsg
    <3> QED BY <2>9, <3>1, EmptySeq DEF StaysBare
  <2> QED BY <1>0, <2>9, <2>10, <2>11, EmptySeq DEF Takes, Frees
<1> QED BY <1>1, <1>2, <1>3, <1>4

LEMMA ClientTakes ==
  ASSUME NEW st, Good(st), Linked(st), ~IsServer(st), NEW m \in Msgs,
         NEW r, r = ProcessIncoming(st, m)
  PROVE  Takes(st, m, r)
<1>l. Linked(r.st)
  BY ClientIncomingIds
<1>0. st.idmap \in [Ids -> Names \cup {NoName}] /\ st.size \in Nat
  BY StorageAssumption DEF Good, Store
<1>1. CASE m \in Assigns
  <2>1. r = ClientAssign(st, m)
    BY <1>1 DEF Assigns, ProcessIncoming, IsServer
  <2> QED BY <1>1, <2>1, ClientAssignTakes
<1>2. CASE m \in Updates
  <2>1. r = TakeUpdate(st, m) /\ m.type = "update"
    BY <1>2 DEF Updates, ProcessIncoming
  <2>2. Heeds(st, m, r)
    BY <1>2, <2>1, UpdateHeeds
  <2> QED BY <1>l, <2>1, <2>2, HeedsTakes
<1>3. CASE m \in FlagMsgs
  <2>1. r = TakeFlags(st, m) /\ m.type = "flags"
    BY <1>3 DEF FlagMsgs, ProcessIncoming
  <2>2. Heeds(st, m, r)
    BY <1>3, <2>1, FlagsHeeds
  <2> QED BY <1>l, <2>1, <2>2, HeedsTakes
<1>4. CASE m \in Deletes
  <2>1. r = TakeDelete(st, m) /\ m.type = "delete" /\ m.id \in Ids
    BY <1>4 DEF Deletes, ProcessIncoming
  <2>2. (r = Ignored(st) /\ ~KnownId(st, m.id)) \/ Forgets(st, m, r)
    BY <1>4, <2>1, DeleteHeeds
  <2>3. CASE r = Ignored(st) /\ ~KnownId(st, m.id)
    <3>1. st.idmap[m.id] = NoName
      BY <1>0, <2>1, <2>3, IdsAre DEF KnownId, Linked
    <3> QED BY <2>1, <2>3, <3>1, IgnoredTakes
  <2>4. CASE Forgets(st, m, r)
    <3>1. PICK x \in Names : x = st.idmap[m.id]
      BY <1>0, <2>1, <2>4 DEF Forgets
    <3>2. r.st.idmap[m.id] = NoName /\ \A i \in Ids : i # m.id => r.st.idmap[i] = st.idmap[i]
      BY <1>0, <2>1, <2>4 DEF Forgets
    <3>3. KeepsSolo(st, r.st)
      <4>1. SUFFICES ASSUME NEW n \in Names, NEW i \in Ids, r.st.idmap[i] = n,
                            \A j \in Ids : st.idmap[j] = n => LeadsBack(st, j)
                     PROVE  LeadsBack(r.st, i)
        BY DEF KeepsSolo
      <4>2. i # m.id /\ st.idmap[i] = n
        BY <3>2, <4>1, StorageAssumption
      <4>3. st.entries[n].id = i
        BY <4>1, <4>2, IdLeadsBack
      <4>4. n # x
        <5>1. CASE n = x
          <6>1. LeadsBack(st, m.id)
            BY <2>1, <3>1, <4>1, <5>1
          <6>2. st.entries[n].id = m.id
            BY <3>1, <5>1, <6>1 DEF LeadsBack
          <6> QED BY <4>2, <4>3, <6>2
        <5> QED BY <5>1
      <4>5. r.st.entries[n] = st.entries[n]
        BY <2>4, <3>1, <4>4 DEF Forgets
      <4> QED BY <1>l, <4>1, <4>3, <4>5, IdLeadsBack
    <3>4. r.out = <<>>
      BY <2>4 DEF Forgets, If, IsServer
    <3>5. StaysBare(st, r)
      BY <1>4, <2>4, ForgetsBare
    <3> QED BY <2>1, <3>2, <3>3, <3>4, <3>5, EmptySeq DEF Takes, Frees
  <2> QED BY <2>2, <2>3, <2>4
<1>5. CASE m \in Clears
  <2>1. r = TakeClear(st, m) /\ m.type = "clear"
    BY <1>5 DEF Clears, ProcessIncoming
  <2>2. Wipes(st, r.st) /\ r.out = If(st.server, <<Onward(m)>>) /\ StaysBare(st, r)
    BY <1>5, <2>1, TakeClearWipes
  <2>3. r.out = <<>>
    BY <2>2 DEF If, IsServer
  <2>4. KeepsSolo(st, r.st)
    <3>1. SUFFICES ASSUME NEW n \in Names, NEW i \in Ids, r.st.idmap[i] = n,
                          \A j \in Ids : st.idmap[j] = n => LeadsBack(st, j)
                   PROVE  LeadsBack(r.st, i)
      BY DEF KeepsSolo
    <3>2. n # NoName
      BY StorageAssumption
    <3>3. st.idmap[i] = n /\ LeadsBack(st, i)
      BY <2>2, <3>1, <3>2 DEF Wipes
    <3>4. r.st.entries[n] = st.entries[n]
      BY <2>2, <3>1, <3>2, <3>3 DEF Wipes
    <3> QED BY <1>l, <3>1, <3>3, <3>4, IdLeadsBack
  <2> QED BY <2>1, <2>2, <2>3, <2>4, EmptySeq DEF Takes, Frees, Wipes
<1> QED BY <1>1, <1>2, <1>3, <1>4, <1>5 DEF Msgs

-----------------------------------------------------------------------------
(***************************************************************************)
(* What is on its way to a client, and what the client has said.           *)
(***************************************************************************)

\* The ids a client knows, or will know once it has applied the snapshot.
Bound(c) ==
  IF link[c] = "sent" THEN {Head(toClient[c]).msgs[k].id : k \in DOMAIN Head(toClient[c]).msgs}
  ELSE {i \in Ids : store[c].idmap[i] # NoName}

\* What of the held messages will be queued for c, in the order of the lock.
SentTo(c, h)      == IF h.out[1].forward /\ h.conn = c THEN Q!None ELSE h.out[1].msg
ComingTo(c, held) == [k \in 1 .. Len(held) |-> SentTo(c, held[k])]

PostedTo(c) == IF link[c] = "sent" THEN <<>> ELSE toClient[c]
Line(c)     == PostedTo(c) \o pendS[c].msgs \o ComingTo(c, hand[Server])

\* The ids that c knows or will be assigned.
ReachOf(B, L) == B \cup {i \in Ids : \E p \in DOMAIN L : NamesId(L[p], i)}
Reach(c)      == ReachOf(Bound(c), Line(c))

\* What c says of the entries that one node writes it says of its own; and an id
\* that it has freed it neither knows any more nor will be assigned again.
Fair(f, c, R) ==
  {m \in Posts :
     /\ m.type # "clear"
     /\ m.type = "delete" => /\ f[m.id] # NoName
                             /\ Solo(f[m.id]) => Own(c, f[m.id]) /\ m.id \notin R
     /\ m.type = "assign" /\ m.id # NoId => /\ f[m.id] # NoName
                                            /\ Solo(f[m.id]) => Own(c, f[m.id])}

FairSends(f, c, R) == {s \in Sends : s.msg \in Fair(f, c, R)}
FairWires(f, c, R) == Fair(f, c, R) \cup {w \in Replies : w.msgs \in Seq(Fair(f, c, R))}

Spoken(f, c, R) ==
  /\ hand[c] \in Seq(HeldOf(FairSends(f, c, R)))
  /\ pendC[c].msgs \in Seq(Fair(f, c, R))
  /\ toServer[c] \in Seq(FairWires(f, c, R))

Listens(f, c) ==
  Synchronized(c) => PendOK(pendS[c]) /\ LineOK(f, c, Bound(c), Line(c), store[Server].idmap)

OrderedAt(f, c) ==
  /\ OneIdEach(c)
  /\ ~ClientActive(c) => pendC[c].msgs = <<>>
  /\ Listens(f, c)
  /\ ClientActive(c) => Spoken(f, c, Reach(c))

Ordered(f) == \A c \in Clients : OrderedAt(f, c)

LEMMA FairMore ==
  ASSUME NEW f, NEW g, Extends(g, f), NEW c, NEW R, NEW S,
         \A i \in Ids : i \in S /\ f[i] # NoName /\ Own(c, f[i]) => i \in R
  PROVE  Fair(f, c, R) \subseteq Fair(g, c, S)
<1>1. SUFFICES ASSUME NEW m \in Fair(f, c, R) PROVE m \in Fair(g, c, S)
  OBVIOUS
<1>2. /\ m \in Posts /\ m.type # "clear"
      /\ m.type = "delete" => /\ f[m.id] # NoName
                              /\ Solo(f[m.id]) => Own(c, f[m.id]) /\ m.id \notin R
      /\ m.type = "assign" /\ m.id # NoId => /\ f[m.id] # NoName
                                             /\ Solo(f[m.id]) => Own(c, f[m.id])
  BY <1>1 DEF Fair
<1>3. m.type = "delete" => m.id \in Ids
  BY <1>2, PostTypes DEF Deletes
<1>4. m.type = "assign" /\ m.id # NoId => m.id \in Ids
  BY <1>2, PostTypes DEF Assigns, NewIds
<1>5. m.type = "delete" => /\ g[m.id] # NoName
                           /\ Solo(g[m.id]) => Own(c, g[m.id]) /\ m.id \notin S
  BY <1>2, <1>3 DEF Extends
<1>6. m.type = "assign" /\ m.id # NoId => /\ g[m.id] # NoName
                                          /\ Solo(g[m.id]) => Own(c, g[m.id])
  BY <1>2, <1>4 DEF Extends
<1> QED BY <1>2, <1>5, <1>6 DEF Fair

LEMMA FairWithin ==
  ASSUME NEW f, NEW g, NEW c, NEW R, NEW S, Fair(f, c, R) \subseteq Fair(g, c, S)
  PROVE  /\ Seq(Fair(f, c, R)) \subseteq Seq(Fair(g, c, S))
         /\ Seq(HeldOf(FairSends(f, c, R))) \subseteq Seq(HeldOf(FairSends(g, c, S)))
         /\ Seq(FairWires(f, c, R)) \subseteq Seq(FairWires(g, c, S))
<1>1. Seq(Fair(f, c, R)) \subseteq Seq(Fair(g, c, S))
  BY SeqMore
<1>2. FairSends(f, c, R) \subseteq FairSends(g, c, S)
  BY DEF FairSends
<1>3. Seq(FairSends(f, c, R)) \subseteq Seq(FairSends(g, c, S))
  BY <1>2, SeqMore
<1>4. HeldOf(FairSends(f, c, R)) \subseteq HeldOf(FairSends(g, c, S))
  BY <1>3 DEF HeldOf
<1>5. FairWires(f, c, R) \subseteq FairWires(g, c, S)
  BY <1>1 DEF FairWires
<1> QED BY <1>1, <1>4, <1>5, SeqMore

LEMMA SpokenMore ==
  ASSUME NEW f, NEW g, NEW c, NEW R, NEW S, Fair(f, c, R) \subseteq Fair(g, c, S),
         Spoken(f, c, R)
  PROVE  Spoken(g, c, S)
BY FairWithin DEF Spoken

\* A naming that names more says nothing else of a line of named ids.
LEMMA NamedMore ==
  ASSUME NEW f, NEW g, Extends(g, f), NEW c, NEW B, NEW L \in Seq(Posts), NEW idmap,
         LineOK(f, c, B, L, idmap)
  PROVE  LineOK(g, c, B, L, idmap)
<1>1. /\ B \subseteq Ids /\ \A i \in B : f[i] # NoName /\ g[i] = f[i]
      /\ \A i \in Ids, p \in DOMAIN L : Gives(L[p], i) => f[i] # NoName /\ g[i] = f[i]
  BY DEF LineOK, AllNamed, Extends
<1>2. ASSUME NEW i \in Ids, NEW p \in 0 .. Len(L), Given(g, c, B, L, p, i)
      PROVE  Given(f, c, B, L, p, i) /\ g[i] = f[i]
  <2>1. CASE p = 0
    BY <1>1, <1>2, <2>1 DEF Given
  <2>2. CASE p # 0
    <3>1. p \in DOMAIN L
      BY <2>2
    <3>2. Binds(g, c, L[p], i)
      BY <1>2, <2>2 DEF Given
    <3>3. Gives(L[p], i)
      BY <3>2 DEF Binds, NamesId, Gives
    <3>4. g[i] = f[i]
      BY <1>1, <3>1, <3>3
    <3>5. Binds(f, c, L[p], i)
      BY <3>2, <3>4 DEF Binds
    <3> QED BY <2>2, <3>4, <3>5 DEF Given
  <2> QED BY <2>1, <2>2
<1>3. ASSUME NEW q \in 0 .. Len(L), NEW i \in Alive(g, c, B, L, q)
      PROVE  i \in Alive(f, c, B, L, q) /\ g[i] = f[i]
  <2>1. i \in Ids
    BY <1>3 DEF Alive
  <2>2. PICK p \in 0 .. q : Given(g, c, B, L, p, i) /\ \A r \in (p + 1) .. q : ~Frees(L[r], i)
    BY <1>3 DEF Alive
  <2>3. p \in 0 .. Len(L)
    OBVIOUS
  <2>4. Given(f, c, B, L, p, i) /\ g[i] = f[i]
    BY <1>2, <2>1, <2>2, <2>3
  <2> QED BY <2>1, <2>2, <2>4 DEF Alive
<1>4. InTurn(g, c, B, L)
  <2>1. SUFFICES ASSUME NEW q \in 0 .. Len(L), NEW i \in Alive(g, c, B, L, q),
                        NEW j \in Alive(g, c, B, L, q), g[i] = g[j]
                 PROVE  i = j
    BY DEF InTurn
  <2>2. /\ i \in Alive(f, c, B, L, q) /\ j \in Alive(f, c, B, L, q)
        /\ f[i] = f[j]
    BY <1>3, <2>1
  <2> QED BY <2>2 DEF LineOK, InOrder, InTurn
<1>5. InTable(g, c, B, L, idmap)
  <2>1. SUFFICES ASSUME NEW i \in Alive(g, c, B, L, Len(L)) PROVE idmap[i] = g[i]
    BY DEF InTable
  <2>2. Len(L) \in 0 .. Len(L)
    OBVIOUS
  <2>3. i \in Alive(f, c, B, L, Len(L)) /\ g[i] = f[i]
    BY <1>3, <2>2
  <2> QED BY <2>3 DEF LineOK, InOrder, InTable
<1>6. NewOnly(g, c, B, L)
  <2>1. SUFFICES ASSUME NEW i \in Ids, NEW p \in DOMAIN L, Own(c, g[i]), NamesId(L[p], i)
                 PROVE  i \notin B /\ \A q \in 1 .. (p - 1) : ~Gives(L[q], i)
    BY DEF NewOnly
  <2>2. Gives(L[p], i)
    BY <2>1 DEF NamesId, Gives
  <2>3. g[i] = f[i]
    BY <1>1, <2>2
  <2> QED BY <2>1, <2>3 DEF LineOK, NewOnly
<1>7. AllNamed(g, B, L)
  BY <1>1 DEF AllNamed
<1> QED BY <1>4, <1>5, <1>6, <1>7 DEF LineOK, InOrder

\* With nothing on its way, c knows what the server knows.
LEMMA LineStart ==
  ASSUME NEW f, NEW c, NEW B, B \subseteq Ids, NEW idmap,
         \A i \in B : f[i] # NoName /\ idmap[i] = f[i],
         \A i, j \in B : idmap[i] = idmap[j] => i = j
  PROVE  LineOK(f, c, B, <<>>, idmap)
<1>1. PICK L \in Seq(Posts) : L = <<>>
  BY EmptySeq
<1>2. Len(L) = 0 /\ DOMAIN L = {}
  BY <1>1
<1>3. \A i \in Alive(f, c, B, L, 0) : i \in B
  BY DEF Alive, Given
<1>4. InTurn(f, c, B, L)
  BY <1>2, <1>3 DEF InTurn
<1>5. InTable(f, c, B, L, idmap)
  BY <1>2, <1>3 DEF InTable
<1>6. NewOnly(f, c, B, L) /\ AllNamed(f, B, L)
  BY <1>2 DEF NewOnly, AllNamed
<1> QED BY <1>1, <1>4, <1>5, <1>6 DEF LineOK, InOrder

\* Nothing is merged with what waits when nothing waits.
LEMMA NothingKept == PendOK(Q!NoPending)
BY DEF PendOK, Q!NoPending

LEMMA ComingTyped ==
  ASSUME NEW held \in Seq(Held), NEW c
  PROVE  /\ ComingTo(c, held) \in Seq(Posts) /\ Len(ComingTo(c, held)) = Len(held)
         /\ \A k \in 1 .. Len(held) : ComingTo(c, held)[k] = SentTo(c, held[k])
<1>1. ASSUME NEW k \in 1 .. Len(held) PROVE SentTo(c, held[k]) \in Posts
  <2>1. PICK h \in Held : h = held[k]
    OBVIOUS
  <2>2. PICK o \in Seq(Sends) : o = h.out /\ o # <<>>
    BY DEF Held
  <2>3. 1 \in 1 .. Len(o)
    BY <2>2, EmptySeq
  <2>4. o[1] \in Sends
    BY <2>3
  <2>5. o[1].msg \in Msgs
    BY <2>4 DEF Sends
  <2>6. SentTo(c, h) = Q!None \/ SentTo(c, h) = o[1].msg
    BY <2>2 DEF SentTo
  <2> QED BY <2>1, <2>5, <2>6 DEF Posts
<1>2. PICK L : L = ComingTo(c, held)
  OBVIOUS
<1>3. L = [k \in 1 .. Len(held) |-> SentTo(c, held[k])]
  BY <1>2 DEF ComingTo
<1>4. L \in [1 .. Len(held) -> Posts] /\ Len(held) \in Nat
  BY <1>1, <1>3
<1>5. L \in Seq(Posts) /\ Len(L) = Len(held)
  BY <1>4
<1> QED BY <1>2, <1>3, <1>5

\* The parts of the line to a client that the server speaks to.
LEMMA LineParts ==
  ASSUME TablesInv, NEW c \in Clients, Synchronized(c)
  PROVE  /\ Parts(Line(c), PostedTo(c), pendS[c].msgs, ComingTo(c, hand[Server]))
         /\ hand[Server] \in Seq(Held) /\ Line(c) \in Seq(Posts)
<1>1. hand[Server] \in Seq(Held) /\ pendS[c] \in Pending /\ StreamsAgree(c)
  BY ServerIsNode DEF TablesInv, NodeInv, NetInv
<1>2. PostedTo(c) \in Seq(Posts)
  <2>1. CASE link[c] = "sent"
    BY <2>1, EmptySeq DEF PostedTo
  <2>2. CASE link[c] # "sent"
    BY <1>1, <2>2 DEF PostedTo, StreamsAgree, Synchronized
  <2> QED BY <2>1, <2>2
<1>3. pendS[c].msgs \in Seq(Posts)
  BY <1>1 DEF Pending
<1>4. ComingTo(c, hand[Server]) \in Seq(Posts)
  BY <1>1, ComingTyped
<1>5. Parts(Line(c), PostedTo(c), pendS[c].msgs, ComingTo(c, hand[Server]))
  BY <1>2, <1>3, <1>4, PartsOf DEF Line
<1> QED BY <1>1, <1>5 DEF Parts

-----------------------------------------------------------------------------
(***************************************************************************)
(* The server does something and tells of it.                              *)
(***************************************************************************)

\* What frees an id is told to all but the one who said so, who wrote it and has
\* freed it; what gives an id was never told to the one who writes it.
Serves(f, conn, x, old, now) ==
  \A i \in Ids :
    /\ old[i] # NoName /\ ~Frees(x.msg, i) => now[i] = old[i]
    /\ Gives(x.msg, i) => now[i] # NoName
    /\ \A c \in Clients : NamesId(x.msg, i) /\ Own(c, now[i]) =>
         f[i] = NoName \/ (x.forward /\ conn = c)
    /\ x.forward /\ Frees(x.msg, i) /\ Solo(f[i]) =>
         Own(conn, f[i]) /\ i \notin Reach(conn)

ServerActs(f, conn, st, r) ==
  \/ r.out = <<>> /\ r.st.idmap = st.idmap
  \/ \E x \in Sends : r.out = <<x>> /\ Serves(f, conn, x, st.idmap, r.st.idmap)

LEMMA JoinAppend ==
  ASSUME NEW S, NEW s \in Seq(S), NEW t \in Seq(S), NEW m \in S
  PROVE  s \o Append(t, m) = Append(s \o t, m)
<1>1. PICK u \in Seq(S) : u = <<m>>
  BY OneMessage
<1>2. Append(t, m) = t \o u /\ s \o t \in Seq(S)
  BY <1>1, AppendIsConcat, Concat
<1>3. Append(s \o t, m) = (s \o t) \o u
  BY <1>1, <1>2, AppendIsConcat
<1> QED BY <1>1, <1>2, <1>3, ConcatAssociative

\* One more message is held, and comes last.
LEMMA ComingAppend ==
  ASSUME NEW held \in Seq(Held), NEW h \in Held, NEW c
  PROVE  /\ ComingTo(c, Append(held, h)) = Append(ComingTo(c, held), SentTo(c, h))
         /\ SentTo(c, h) \in Posts
<1>1. PICK now \in Seq(Held) : now = Append(held, h)
  BY AppendProperties
<1>2. /\ Len(now) = Len(held) + 1 /\ Len(held) \in Nat
      /\ now[Len(held) + 1] = h /\ \A k \in 1 .. Len(held) : now[k] = held[k]
  BY <1>1
<1>3. /\ ComingTo(c, now) \in Seq(Posts) /\ Len(ComingTo(c, now)) = Len(now)
      /\ \A k \in 1 .. Len(now) : ComingTo(c, now)[k] = SentTo(c, now[k])
  BY ComingTyped
<1>4. /\ ComingTo(c, held) \in Seq(Posts) /\ Len(ComingTo(c, held)) = Len(held)
      /\ \A k \in 1 .. Len(held) : ComingTo(c, held)[k] = SentTo(c, held[k])
  BY ComingTyped
<1>5. Len(held) + 1 \in 1 .. Len(now)
  BY <1>2
<1>6. PICK m : m = SentTo(c, h)
  OBVIOUS
<1>7. ComingTo(c, now)[Len(held) + 1] = m
  BY <1>2, <1>3, <1>5, <1>6
<1>8. m \in Posts
  BY <1>3, <1>5, <1>7
<1>9. \A k \in 1 .. Len(held) : ComingTo(c, now)[k] = ComingTo(c, held)[k]
  BY <1>2, <1>3, <1>4
<1>10. ComingTo(c, now) = Append(ComingTo(c, held), m)
  <2>1. PICK L \in Seq(Posts) : L = ComingTo(c, held)
    BY <1>4
  <2>2. PICK K \in Seq(Posts) : K = ComingTo(c, now)
    BY <1>3
  <2>3. Len(K) = Len(L) + 1 /\ K[Len(L) + 1] = m /\ \A k \in 1 .. Len(L) : K[k] = L[k]
    BY <1>2, <1>3, <1>4, <1>7, <1>9, <2>1, <2>2
  <2>4. K = Append(L, m)
    BY <1>8, <2>3
  <2> QED BY <2>1, <2>2, <2>4
<1> QED BY <1>1, <1>6, <1>8, <1>10

\* What the server does of itself changes nothing at a client.
LEMMA BoundSame ==
  ASSUME NEW c, store'[c] = store[c], toClient'[c] = toClient[c], link'[c] = link[c]
  PROVE  Bound(c)' = Bound(c) /\ PostedTo(c)' = PostedTo(c)
         /\ (Synchronized(c)' <=> Synchronized(c)) /\ (ClientActive(c)' <=> ClientActive(c))
BY DEF Bound, PostedTo, Synchronized, ClientActive

LEMMA LineLonger ==
  ASSUME NEW f, NEW g, Extends(g, f), NEW conn, NEW old, NEW now, NEW x \in Sends,
         NEW c \in Clients, NEW B, NEW L \in Seq(Posts), NEW m \in Posts,
         m = IF x.forward /\ conn = c THEN Q!None ELSE x.msg,
         LineOK(f, c, B, L, old),
         conn = c => Reach(c) = ReachOf(B, L),
         \A i, j \in Ids : now[i] # NoName /\ now[i] = now[j] => i = j,
         \A i \in Ids : now[i] # NoName => g[i] = now[i],
         Serves(f, conn, x, old, now)
  PROVE  /\ LineOK(g, c, B, Append(L, m), now)
         /\ \A i \in Ids : NamesId(m, i) /\ f[i] # NoName => ~Own(c, f[i])
<1>1. LineOK(g, c, B, L, old)
  BY NamedMore
<1>2. \/ x.forward /\ conn = c /\ m = Q!None
      \/ ~(x.forward /\ conn = c) /\ m = x.msg
  OBVIOUS
<1>3. \A i : ~Gives(Q!None, i) /\ ~NamesId(Q!None, i) /\ ~Frees(Q!None, i)
  BY DEF Q!None, Gives, NamesId, Frees
<1>4. ASSUME NEW i \in Ids, Gives(m, i)
      PROVE  now[i] = g[i] /\ g[i] # NoName
  <2>1. m = x.msg
    BY <1>2, <1>3, <1>4
  <2> QED BY <1>4, <2>1 DEF Serves
<1>5. ASSUME NEW i \in Ids, NamesId(m, i), Own(c, g[i]) PROVE f[i] = NoName
  <2>1. m = x.msg /\ ~(x.forward /\ conn = c)
    BY <1>2, <1>3, <1>5
  <2>2. Gives(m, i)
    BY <1>5 DEF NamesId, Gives
  <2>3. now[i] = g[i]
    BY <1>4, <2>2
  <2> QED BY <1>5, <2>1, <2>3 DEF Serves
<1>6. \A i \in Ids : NamesId(m, i) /\ f[i] # NoName => ~Own(c, f[i])
  BY <1>5 DEF Extends
<1>7. ASSUME NEW i \in Ids, NamesId(m, i), Own(c, g[i])
      PROVE  i \notin B /\ \A k \in DOMAIN L : ~Gives(L[k], i)
  <2>1. f[i] = NoName
    BY <1>5, <1>7
  <2> QED BY <2>1 DEF LineOK, AllNamed
<1>8. ASSUME NEW i \in Alive(g, c, B, L, Len(L)), old[i] = g[i], ~Frees(m, i)
      PROVE  now[i] = g[i]
  <2>1. i \in Ids
    BY <1>8 DEF Alive
  <2>2. PICK p \in 0 .. Len(L) : Given(g, c, B, L, p, i)
    BY <1>8 DEF Alive
  <2>3. Solo(g[i]) /\ (i \in B \/ (p \in DOMAIN L /\ Gives(L[p], i)))
    <3>1. CASE p = 0
      BY <2>2, <3>1 DEF Given
    <3>2. CASE p # 0
      BY <2>2, <3>2 DEF Given, Binds, NamesId, Gives
    <3> QED BY <3>1, <3>2
  <2>4. f[i] # NoName /\ f[i] = g[i]
    BY <2>1, <2>3 DEF LineOK, AllNamed, Extends
  <2>5. old[i] # NoName
    BY <1>8, <2>4
  <2>6. CASE ~Frees(x.msg, i)
    BY <1>8, <2>1, <2>5, <2>6 DEF Serves
  <2>7. CASE Frees(x.msg, i)
    <3>1. x.forward /\ conn = c
      BY <1>2, <1>8, <2>7
    <3>2. Own(c, g[i]) /\ i \notin ReachOf(B, L)
      BY <2>1, <2>3, <2>4, <2>7, <3>1 DEF Serves
    <3>3. CASE p = 0
      BY <2>2, <3>2, <3>3 DEF Given, ReachOf
    <3>4. CASE p # 0
      <4>1. p \in DOMAIN L /\ NamesId(L[p], i)
        BY <2>2, <3>2, <3>4 DEF Given, Binds
      <4> QED BY <2>1, <3>2, <4>1 DEF ReachOf
    <3> QED BY <3>3, <3>4
  <2> QED BY <2>6, <2>7
<1>9. LineOK(g, c, B, Append(L, m), now)
  <2>1. \A i \in Alive(g, c, B, L, Len(L)) : old[i] = g[i] /\ ~Frees(m, i) => now[i] = g[i]
    BY <1>8
  <2>2. \A i \in Ids : Gives(m, i) => now[i] = g[i] /\ g[i] # NoName
    BY <1>4
  <2>3. \A i \in Ids : Own(c, g[i]) /\ NamesId(m, i) =>
          i \notin B /\ \A k \in DOMAIN L : ~Gives(L[k], i)
    BY <1>7
  <2> QED BY <1>1, <2>1, <2>2, <2>3, FitsLonger
<1> QED BY <1>6, <1>9

LEMMA OneName ==
  ASSUME NEW st, Good(st), IsServer(st)
  PROVE  \A i, j \in Ids : st.idmap[i] # NoName /\ st.idmap[i] = st.idmap[j] => i = j
BY DEF Good, Exact, MapSound, LeadsBack

\* The server takes a change, and every client comes to hear of it.
LEMMA ServerStep ==
  ASSUME TablesInv, TablesInv', NEW f, Ordered(f),
         NEW g, Extends(g, f), Agree(g)', NEW t \in Threads, NEW conn \in Conns,
         NEW r, r.out \in Seq(Sends), Pass(Server, t, conn, r),
         ServerActs(f, conn, store[Server], r), UNCHANGED <<pendC, pendS, toClient, link>>,
         \A c \in Clients : ClientActive(c) => toServer'[c] \in Seq(FairWires(f, c, Reach(c)))
  PROVE  Ordered(g)'
<1>0. /\ NodeInv /\ Server \in Nodes /\ Clients \subseteq Nodes /\ Server \notin Clients
      /\ hand \in [Nodes -> Seq(Held)] /\ hand[Server] \in Seq(Held)
  BY ServerIsNode DEF TablesInv, NodeInv
<1>1. /\ store'[Server] = r.st
      /\ \A y \in Nodes : y # Server => store'[y] = store[y] /\ hand'[y] = hand[y]
  BY <1>0, PassAt
<1>2. SUFFICES ASSUME NEW c \in Clients PROVE OrderedAt(g, c)'
  BY DEF Ordered
<1>3. /\ store'[c] = store[c] /\ hand'[c] = hand[c] /\ toClient'[c] = toClient[c]
      /\ link'[c] = link[c] /\ pendS'[c] = pendS[c] /\ pendC'[c] = pendC[c]
  BY <1>0, <1>1
<1>4. /\ Bound(c)' = Bound(c) /\ PostedTo(c)' = PostedTo(c)
      /\ (Synchronized(c)' <=> Synchronized(c)) /\ (ClientActive(c)' <=> ClientActive(c))
  BY <1>3, BoundSame
<1>5. OrderedAt(f, c)
  BY DEF Ordered
<1>6. OneIdEach(c)' /\ (~ClientActive(c)' => pendC'[c].msgs = <<>>)
  BY <1>3, <1>4, <1>5 DEF OrderedAt, OneIdEach, LeadsBack, Has
<1>7. ASSUME Synchronized(c)
      PROVE  /\ LineOK(g, c, Bound(c), Line(c)', r.st.idmap)
             /\ \A i \in Ids : i \in Reach(c)' /\ f[i] # NoName /\ Own(c, f[i]) => i \in Reach(c)
  <2>1. PICK L \in Seq(Posts) : L = Line(c)
    BY <1>7, LineParts
  <2>2. LineOK(f, c, Bound(c), L, store[Server].idmap)
    BY <1>5, <1>7, <2>1 DEF OrderedAt, Listens
  <2>3. Reach(c) = ReachOf(Bound(c), L)
    BY <2>1 DEF Reach
  <2>4. CASE r.out = <<>>
    <3>1. hand' = hand /\ r.st.idmap = store[Server].idmap
      <4>1. hand' = hand
        BY <2>4 DEF Pass
      <4>2. ~ \E x \in Sends : r.out = <<x>>
        BY <2>4
      <4>3. r.st.idmap = store[Server].idmap
        BY <4>2 DEF ServerActs
      <4> QED BY <4>1, <4>3
    <3>2. Line(c)' = L
      BY <1>3, <1>4, <2>1, <3>1 DEF Line
    <3>3. Reach(c)' = Reach(c)
      BY <1>4, <2>3, <3>2 DEF Reach
    <3>4. LineOK(g, c, Bound(c), L, store[Server].idmap)
      BY <2>2, NamedMore
    <3> QED BY <3>1, <3>2, <3>3, <3>4
  <2>5. CASE r.out # <<>>
    <3>1. PICK x \in Sends :
            r.out = <<x>> /\ Serves(f, conn, x, store[Server].idmap, r.st.idmap)
      BY <2>5 DEF ServerActs
    <3>2. PICK h : h = [thread |-> t, conn |-> conn, out |-> r.out]
      OBVIOUS
    <3>3. h \in Held /\ h.out = <<x>> /\ h.conn = conn
      BY <2>5, <3>1, <3>2 DEF Held
    <3>4. hand'[Server] = Append(hand[Server], h)
      BY <1>0, <2>5, <3>2 DEF Pass
    <3>5. PICK m : m = SentTo(c, h)
      OBVIOUS
    <3>6. /\ m \in Posts
          /\ ComingTo(c, hand'[Server]) = Append(ComingTo(c, hand[Server]), m)
      BY <1>0, <3>3, <3>4, <3>5, ComingAppend
    <3>7. Line(c)' = Append(L, m)
      <4>1. PICK A \in Seq(Posts), X \in Seq(Posts), H \in Seq(Posts) :
              A = PostedTo(c) /\ X = pendS[c].msgs /\ H = ComingTo(c, hand[Server])
        BY <1>7, LineParts DEF Parts
      <4>2. L = A \o X \o H
        BY <2>1, <4>1 DEF Line
      <4>3. Line(c)' = A \o X \o Append(H, m)
        BY <1>3, <1>4, <3>6, <4>1 DEF Line
      <4>4. PICK Z \in Seq(Posts) : Z = A \o X
        BY <4>1, Concat
      <4>5. Z \o Append(H, m) = Append(Z \o H, m)
        BY <3>6, JoinAppend
      <4> QED BY <4>2, <4>3, <4>4, <4>5
    <3>8. \A i, j \in Ids : r.st.idmap[i] # NoName /\ r.st.idmap[i] = r.st.idmap[j] => i = j
      <4>1. Good(store'[Server]) /\ IsServer(store'[Server])
        BY <1>0 DEF TablesInv, NodeInv
      <4> QED BY <1>1, <4>1, OneName
    <3>9. Means(g, r.st)
      BY <1>1 DEF Agree
    <3>10. conn = c => Reach(c) = ReachOf(Bound(c), L)
      BY <2>3
    <3>11. /\ LineOK(g, c, Bound(c), Append(L, m), r.st.idmap)
           /\ \A i \in Ids : NamesId(m, i) /\ f[i] # NoName => ~Own(c, f[i])
      <4>1. PICK old, now, B : old = store[Server].idmap /\ now = r.st.idmap /\ B = Bound(c)
        OBVIOUS
      <4>2. LineOK(f, c, B, L, old) /\ (conn = c => Reach(c) = ReachOf(B, L))
        BY <2>2, <3>10, <4>1
      <4>3. /\ \A i, j \in Ids : now[i] # NoName /\ now[i] = now[j] => i = j
            /\ \A i \in Ids : now[i] # NoName => g[i] = now[i]
            /\ Serves(f, conn, x, old, now)
        BY <3>1, <3>8, <3>9, <4>1 DEF Means
      <4>4. m = IF x.forward /\ conn = c THEN Q!None ELSE x.msg
        BY <3>3, <3>5 DEF SentTo
      <4>5. /\ LineOK(g, c, B, Append(L, m), now)
            /\ \A i \in Ids : NamesId(m, i) /\ f[i] # NoName => ~Own(c, f[i])
        BY <3>6, <4>2, <4>3, <4>4, LineLonger
      <4> QED BY <4>1, <4>5
    <3>12. ASSUME NEW i \in Ids, i \in Reach(c)', f[i] # NoName, Own(c, f[i])
           PROVE  i \in Reach(c)
      <4>1. Reach(c)' = ReachOf(Bound(c), Append(L, m))
        BY <1>4, <3>7 DEF Reach
      <4>2. CASE i \in Bound(c)
        BY <2>3, <4>2 DEF ReachOf
      <4>3. CASE i \notin Bound(c)
        <5>1. PICK K \in Seq(Posts) : K = Append(L, m)
          BY <3>6, AppendProperties
        <5>2. Len(K) = Len(L) + 1 /\ K[Len(L) + 1] = m /\ \A k \in 1 .. Len(L) : K[k] = L[k]
          BY <3>6, <5>1
        <5>3. PICK p \in DOMAIN K : NamesId(K[p], i)
          BY <3>12, <4>1, <4>3, <5>1 DEF ReachOf
        <5>4. p # Len(L) + 1
          BY <3>11, <3>12, <5>2, <5>3
        <5>5. p \in DOMAIN L /\ NamesId(L[p], i)
          BY <5>2, <5>3, <5>4
        <5> QED BY <2>3, <5>5 DEF ReachOf
      <4> QED BY <4>2, <4>3
    <3> QED BY <3>7, <3>11, <3>12
  <2> QED BY <2>4, <2>5
<1>8. Listens(g, c)'
  <2>1. SUFFICES ASSUME Synchronized(c)
                 PROVE  PendOK(pendS'[c]) /\ LineOK(g, c, Bound(c)', Line(c)', store'[Server].idmap)
    BY <1>4 DEF Listens
  <2>2. PendOK(pendS[c])
    BY <1>5, <2>1 DEF OrderedAt, Listens
  <2> QED BY <1>1, <1>3, <1>4, <1>7, <2>1, <2>2
<1>9. ASSUME ClientActive(c) PROVE Spoken(g, c, Reach(c))'
  <2>1. Synchronized(c)
    BY <1>9 DEF ClientActive, Synchronized
  <2>2. Fair(f, c, Reach(c)) \subseteq Fair(g, c, Reach(c)')
    BY <1>7, <2>1, FairMore
  <2>3. /\ hand'[c] \in Seq(HeldOf(FairSends(f, c, Reach(c))))
        /\ pendC'[c].msgs \in Seq(Fair(f, c, Reach(c)))
        /\ toServer'[c] \in Seq(FairWires(f, c, Reach(c)))
    BY <1>3, <1>5, <1>9 DEF OrderedAt, Spoken
  <2>4. PICK R : R = Reach(c)'
    OBVIOUS
  <2>5. /\ Seq(Fair(f, c, Reach(c))) \subseteq Seq(Fair(g, c, R))
        /\ Seq(HeldOf(FairSends(f, c, Reach(c)))) \subseteq Seq(HeldOf(FairSends(g, c, R)))
        /\ Seq(FairWires(f, c, Reach(c))) \subseteq Seq(FairWires(g, c, R))
    BY <2>2, <2>4, FairWithin
  <2> QED BY <2>3, <2>4, <2>5 DEF Spoken
<1> QED BY <1>4, <1>6, <1>8, <1>9 DEF OrderedAt

-----------------------------------------------------------------------------
\* The server has one id more, that nobody has heard of.
LEMMA GivesNewActs ==
  ASSUME NEW st, Good(st), IsServer(st), NEW f, \A i \in Ids : i >= st.size => f[i] = NoName,
         NEW n \in Names, NEW r, GivesNew(st, n, r), NEW conn
  PROVE  ServerActs(f, conn, st, r) /\ Len(r.out) <= 1
<1>1. PICK m \in Msgs : /\ r.out = <<ToAll(m)>> /\ m.id = st.size
                        /\ m.type \in {"assign", "update"}
  BY DEF GivesNew
<1>2. PICK x : x = ToAll(m)
  OBVIOUS
<1>3. x \in Sends /\ x.msg = m /\ x.forward = FALSE
  BY <1>2, SendIsSends DEF ToAll
<1>4. st.size \in Ids /\ r.st.idmap = [st.idmap EXCEPT ![st.size] = n] /\ st \in Store
  BY DEF GivesNew, Good
<1>5. st.idmap \in Namings /\ st.size \in Nat
  BY <1>4, StorageAssumption DEF Store, Namings
<1>6. \A i \in Ids : r.st.idmap[i] = IF i = st.size THEN n ELSE st.idmap[i]
  BY <1>4, <1>5 DEF Namings
<1>7. \A i \in Ids : st.idmap[i] # NoName => i # st.size
  BY <1>5, IdsAre, ServerLinked DEF Linked
<1>8. f[st.size] = NoName
  BY <1>4, <1>5
<1>9. n # NoName
  BY StorageAssumption
<1>10. ASSUME NEW i \in Ids
       PROVE  /\ st.idmap[i] # NoName /\ ~Frees(x.msg, i) => r.st.idmap[i] = st.idmap[i]
              /\ Gives(x.msg, i) => r.st.idmap[i] # NoName
              /\ \A c \in Clients : NamesId(x.msg, i) /\ Own(c, r.st.idmap[i]) =>
                   f[i] = NoName \/ (x.forward /\ conn = c)
              /\ x.forward /\ Frees(x.msg, i) /\ Solo(f[i]) =>
                   Own(conn, f[i]) /\ i \notin Reach(conn)
  <2>1. st.idmap[i] # NoName /\ ~Frees(x.msg, i) => r.st.idmap[i] = st.idmap[i]
    BY <1>6, <1>7
  <2>2. Gives(x.msg, i) => r.st.idmap[i] # NoName
    BY <1>1, <1>3, <1>6, <1>9 DEF Gives
  <2>3. NamesId(x.msg, i) => f[i] = NoName
    BY <1>1, <1>3, <1>8 DEF NamesId
  <2>4. ~x.forward
    BY <1>3
  <2> QED BY <2>1, <2>2, <2>3, <2>4
<1>11. ServerActs(f, conn, st, r)
  BY <1>1, <1>2, <1>3, <1>10 DEF ServerActs, Serves
<1> QED BY <1>1, <1>11

\* The server's own program.
LEMMA UserServes ==
  ASSUME TablesInv, NEW f, Named(f), NEW n \in Names, Server \in Writers[n],
         NEW r, UserActs(store[Server], n, r)
  PROVE  ServerActs(f, "none", store[Server], r) /\ Len(r.out) <= 1
<1>1. PICK st : st = store[Server]
  OBVIOUS
<1>2. Good(st) /\ Linked(st) /\ IsServer(st) /\ st.idmap \in Namings
  BY <1>1, NodeLinked, ServerIsNode DEF TablesInv, NodeInv, Good, Store, Namings
<1>3. \A i \in Ids : i >= st.size => f[i] = NoName
  BY <1>1 DEF Named, Agree
<1>4. \A c \in Clients : ~Own(c, n)
  BY ServerIsNode DEF Own
<1>5. CASE UserKeeps(st, n, r)
  <2>1. r.st.idmap = st.idmap
    BY <1>5 DEF UserKeeps, KeepsIds
  <2>2. CASE r.out = <<>>
    <3>1. Len(r.out) <= 1
      BY <2>2
    <3> QED BY <1>1, <2>1, <2>2, <3>1 DEF ServerActs, Serves
  <2>3. CASE r.out # <<>>
    <3>1. PICK m \in Msgs : /\ r.out = <<ToAll(m)>> /\ m.id = st.entries[n].id
                            /\ m.type \in {"assign", "update", "flags"}
      BY <1>5, <2>3 DEF UserKeeps
    <3>2. PICK x : x = ToAll(m)
      OBVIOUS
    <3>3. x \in Sends /\ x.msg = m /\ x.forward = FALSE
      BY <3>2, SendIsSends DEF ToAll
    <3>4. ASSUME NEW i \in Ids, Gives(m, i) PROVE st.idmap[i] = n
      <4>1. st.entries[n].id = i /\ i # NoId
        BY <3>1, <3>4, IdsAre DEF Gives
      <4> QED BY <1>2, <4>1 DEF Linked
    <3>5. ASSUME NEW i \in Ids
          PROVE  /\ st.idmap[i] # NoName /\ ~Frees(x.msg, i) => r.st.idmap[i] = st.idmap[i]
                 /\ Gives(x.msg, i) => r.st.idmap[i] # NoName
                 /\ \A c \in Clients : NamesId(x.msg, i) /\ Own(c, r.st.idmap[i]) =>
                      f[i] = NoName \/ (x.forward /\ "none" = c)
                 /\ x.forward /\ Frees(x.msg, i) /\ Solo(f[i]) =>
                      Own("none", f[i]) /\ i \notin Reach("none")
      <4>1. Gives(x.msg, i) => r.st.idmap[i] = n /\ n # NoName
        BY <2>1, <3>3, <3>4, StorageAssumption
      <4>2. NamesId(x.msg, i) => Gives(x.msg, i)
        BY DEF NamesId, Gives
      <4>3. ~x.forward
        BY <3>3
      <4> QED BY <1>4, <2>1, <4>1, <4>2, <4>3
    <3>6. ServerActs(f, "none", st, r)
      BY <3>1, <3>2, <3>3, <3>5 DEF ServerActs, Serves
    <3>7. Len(r.out) <= 1
      BY <3>1
    <3> QED BY <1>1, <3>6, <3>7
  <2> QED BY <2>2, <2>3
<1>6. CASE GivesNew(st, n, r)
  BY <1>1, <1>2, <1>3, <1>6, GivesNewActs
<1>7. CASE UserDrops(st, n, r)
  <2>1. PICK j \in Ids : /\ r.st.idmap = [st.idmap EXCEPT ![j] = NoName]
                         /\ r.out = <<ToAll(EntryDelete(j))>>
    BY <1>7 DEF UserDrops
  <2>2. PICK x : x = ToAll(EntryDelete(j))
    OBVIOUS
  <2>3. /\ x \in Sends /\ x.msg.type = "delete" /\ x.msg.id = j /\ x.forward = FALSE
    <3>1. EntryDelete(j) \in Msgs
      BY DEF EntryDelete, Deletes, Msgs
    <3> QED BY <2>2, <3>1, SendIsSends DEF ToAll, EntryDelete
  <2>4. \A i \in Ids : i # j => r.st.idmap[i] = st.idmap[i]
    BY <1>2, <2>1 DEF Namings
  <2>5. ASSUME NEW i \in Ids
        PROVE  /\ st.idmap[i] # NoName /\ ~Frees(x.msg, i) => r.st.idmap[i] = st.idmap[i]
               /\ Gives(x.msg, i) => r.st.idmap[i] # NoName
               /\ \A c \in Clients : NamesId(x.msg, i) /\ Own(c, r.st.idmap[i]) =>
                    f[i] = NoName \/ (x.forward /\ "none" = c)
               /\ x.forward /\ Frees(x.msg, i) /\ Solo(f[i]) =>
                    Own("none", f[i]) /\ i \notin Reach("none")
    <3>1. ~Frees(x.msg, i) => r.st.idmap[i] = st.idmap[i]
      BY <2>3, <2>4 DEF Frees
    <3>2. ~Gives(x.msg, i) /\ ~NamesId(x.msg, i) /\ ~x.forward
      BY <2>3 DEF Gives, NamesId
    <3> QED BY <3>1, <3>2
  <2>6. ServerActs(f, "none", st, r)
    BY <2>1, <2>2, <2>3, <2>5 DEF ServerActs, Serves
  <2>7. Len(r.out) <= 1
    BY <2>1
  <2> QED BY <1>1, <2>6, <2>7
<1> QED BY <1>1, <1>5, <1>6, <1>7 DEF UserActs

LEMMA ClearServes ==
  ASSUME NEW f, NEW st, NEW r, r = Ignored(st) \/ (Wipes(st, r.st) /\ r.out = <<ToAll(ClearEntries)>>)
  PROVE  ServerActs(f, "none", st, r) /\ Len(r.out) <= 1
<1>1. CASE r = Ignored(st)
  <2>1. r.out = <<>> /\ r.st = st
    BY <1>1 DEF Ignored, Result
  <2> QED BY <2>1 DEF ServerActs, Serves
<1>2. CASE r.out = <<ToAll(ClearEntries)>>
  <2>1. PICK x : x = ToAll(ClearEntries)
    OBVIOUS
  <2>2. x \in Sends /\ x.msg.type = "clear" /\ x.forward = FALSE
    <3>1. ClearEntries \in Msgs
      BY DEF ClearEntries, Clears, Msgs
    <3> QED BY <2>1, <3>1, SendIsSends DEF ToAll, ClearEntries
  <2>3. \A i \in Ids : Frees(x.msg, i) /\ ~Gives(x.msg, i) /\ ~NamesId(x.msg, i) /\ ~x.forward
    BY <2>2 DEF Frees, Gives, NamesId
  <2>4. ServerActs(f, "none", st, r)
    BY <1>2, <2>1, <2>2, <2>3 DEF ServerActs, Serves
  <2>5. Len(r.out) <= 1
    BY <1>2
  <2> QED BY <2>4, <2>5
<1> QED BY <1>1, <1>2

\* The server takes what a client says of its own entries.
LEMMA HostServes ==
  ASSUME TablesInv, NEW f, Named(f), NEW d \in Clients, NEW m \in Msgs, NEW R,
         R = Reach(d), m \in Fair(f, d, R), NEW r, Hosts(store[Server], m, r)
  PROVE  ServerActs(f, d, store[Server], r) /\ Len(r.out) <= 1
<1>1. PICK st : st = store[Server]
  OBVIOUS
<1>2. Good(st) /\ Linked(st) /\ IsServer(st) /\ st.idmap \in Namings
  BY <1>1, NodeLinked, ServerIsNode DEF TablesInv, NodeInv, Good, Store, Namings
<1>3. \A i \in Ids : i >= st.size => f[i] = NoName
  BY <1>1 DEF Named, Agree
<1>4. \A i \in Ids : st.idmap[i] # NoName => f[i] = st.idmap[i]
  BY <1>1 DEF Named, Agree, Means
<1>5. /\ m.type # "clear"
      /\ m.type = "delete" => /\ f[m.id] # NoName
                              /\ Solo(f[m.id]) => Own(d, f[m.id]) /\ m.id \notin R
      /\ m.type = "assign" /\ m.id # NoId => /\ f[m.id] # NoName
                                             /\ Solo(f[m.id]) => Own(d, f[m.id])
  BY DEF Fair
\* It is passed on, and the id map is the same, or one is freed.
<1>6. ASSUME NEW x \in Msgs, x.type = m.type, x.id = m.id, r.out = <<Onward(x)>>,
             st.idmap[m.id] # NoName, m.id \in Ids,
             r.st.idmap \in Namings,
             \A i \in Ids : r.st.idmap[i] = st.idmap[i] \/ Frees(m, i)
      PROVE  ServerActs(f, d, st, r) /\ Len(r.out) <= 1
  <2>1. PICK y : y = Onward(x)
    OBVIOUS
  <2>2. y \in Sends /\ y.msg = x /\ y.forward = TRUE
    BY <2>1, SendIsSends DEF Onward
  <2>3. \A i : /\ Frees(y.msg, i) <=> Frees(m, i)
               /\ Gives(y.msg, i) <=> Gives(m, i)
               /\ NamesId(y.msg, i) <=> NamesId(m, i)
    BY <1>6, <2>2 DEF Frees, Gives, NamesId
  <2>4. ASSUME NEW i \in Ids
        PROVE  /\ st.idmap[i] # NoName /\ ~Frees(y.msg, i) => r.st.idmap[i] = st.idmap[i]
               /\ Gives(y.msg, i) => r.st.idmap[i] # NoName
               /\ \A c \in Clients : NamesId(y.msg, i) /\ Own(c, r.st.idmap[i]) =>
                    f[i] = NoName \/ (y.forward /\ d = c)
               /\ y.forward /\ Frees(y.msg, i) /\ Solo(f[i]) =>
                    Own(d, f[i]) /\ i \notin Reach(d)
    <3>1. st.idmap[i] # NoName /\ ~Frees(y.msg, i) => r.st.idmap[i] = st.idmap[i]
      BY <1>6, <2>3
    <3>2. Gives(m, i) => ~Frees(m, i) /\ i = m.id
      BY DEF Gives, Frees
    <3>3. Gives(y.msg, i) => r.st.idmap[i] # NoName
      BY <1>6, <2>3, <3>2
    <3>4. ASSUME NEW c \in Clients, NamesId(y.msg, i), Own(c, r.st.idmap[i])
          PROVE  y.forward /\ d = c
      <4>1. m.type = "assign" /\ m.id = i /\ i # NoId
        BY <2>3, <3>4, IdsAre DEF NamesId
      <4>2. r.st.idmap[i] = f[i]
        BY <1>4, <1>6, <3>2, <4>1 DEF Gives
      <4>3. Solo(f[i])
        BY <3>4, <4>2, ServerIsNode DEF Own, Solo, OneWriter
      <4>4. Own(d, f[i])
        BY <1>5, <4>1, <4>3
      <4> QED BY <2>2, <3>4, <4>2, <4>4 DEF Own
    <3>5. ASSUME Frees(y.msg, i), Solo(f[i]) PROVE Own(d, f[i]) /\ i \notin Reach(d)
      <4>1. m.type = "delete" /\ m.id = i
        BY <1>5, <2>3, <3>5 DEF Frees
      <4> QED BY <1>5, <3>5, <4>1
    <3> QED BY <3>1, <3>3, <3>4, <3>5
  <2>5. ServerActs(f, d, st, r)
    BY <1>6, <2>1, <2>2, <2>4 DEF ServerActs, Serves
  <2>6. Len(r.out) <= 1
    BY <1>6
  <2> QED BY <2>5, <2>6
<1>7. CASE Heeds(st, m, r)
  <2>1. r.st.idmap = st.idmap
    BY <1>7 DEF Heeds, KeepsIds
  <2>2. CASE r.out = <<>>
    <3>1. Len(r.out) <= 1
      BY <2>2
    <3> QED BY <1>1, <2>1, <2>2, <3>1 DEF ServerActs, Serves
  <2>3. CASE r.out # <<>>
    <3>1. m.id \in Ids /\ st.idmap[m.id] # NoName
      BY <1>2, <1>7, <2>3 DEF Heeds
    <3>2. PICK x \in Msgs : r.out = <<Onward(x)>> /\ x.type = m.type /\ x.id = m.id
      BY <1>2, <1>7, <2>3 DEF Heeds
    <3>3. \A i \in Ids : r.st.idmap[i] = st.idmap[i] \/ Frees(m, i)
      BY <2>1
    <3> QED BY <1>1, <1>2, <1>6, <2>1, <3>1, <3>2, <3>3
  <2> QED BY <2>2, <2>3
<1>8. CASE m.type = "assign" /\ GivesNew(st, m.name, r)
  <2>1. m.name \in Names
    BY <1>8, PostTypes DEF Assigns, Posts
  <2> QED BY <1>1, <1>2, <1>3, <1>8, <2>1, GivesNewActs
<1>9. CASE m.type = "delete" /\ Forgets(st, m, r)
  <2>1. m.id \in Ids /\ st.idmap[m.id] # NoName /\ r.st.idmap = [st.idmap EXCEPT ![m.id] = NoName]
    BY <1>9 DEF Forgets
  <2>2. r.out = <<Onward(m)>>
    BY <1>2, <1>9 DEF Forgets, If, IsServer
  <2>3. r.st.idmap \in Namings
    BY <1>2, <2>1 DEF Namings
  <2>4. \A i \in Ids : r.st.idmap[i] = st.idmap[i] \/ Frees(m, i)
    BY <1>2, <1>9, <2>1 DEF Frees, Namings
  <2> QED BY <1>1, <1>6, <2>1, <2>2, <2>3, <2>4
<1>10. Heeds(st, m, r) \/ (m.type = "assign" /\ GivesNew(st, m.name, r))
       \/ (m.type = "delete" /\ Forgets(st, m, r))
  BY <1>1, <1>5 DEF Hosts
<1> QED BY <1>1, <1>7, <1>8, <1>9, <1>10

-----------------------------------------------------------------------------
(***************************************************************************)
(* The steps, while all is calm.                                           *)
(***************************************************************************)

StaysOrdered == \E g : Named(g)' /\ Ordered(g)'

\* A naming for both sides of a step.
Ready(g) ==
  /\ Named(g)' /\ Ordered(g)
  /\ Means(g, store[Server])
  /\ \A c \in Clients : ClientActive(c) => Means(g, store[c])

LEMMA OrderedMore ==
  ASSUME TablesInv, NEW f, Ordered(f), NEW g, Extends(g, f)
  PROVE  Ordered(g)
<1>1. SUFFICES ASSUME NEW c \in Clients PROVE OrderedAt(g, c)
  BY DEF Ordered
<1>2. OrderedAt(f, c)
  BY DEF Ordered
<1>3. Listens(g, c)
  <2>1. SUFFICES ASSUME Synchronized(c)
                 PROVE  PendOK(pendS[c]) /\ LineOK(g, c, Bound(c), Line(c), store[Server].idmap)
    BY DEF Listens
  <2>2. PendOK(pendS[c]) /\ LineOK(f, c, Bound(c), Line(c), store[Server].idmap)
    BY <1>2, <2>1 DEF OrderedAt, Listens
  <2>3. Line(c) \in Seq(Posts)
    BY <2>1, LineParts
  <2> QED BY <2>2, <2>3, NamedMore
<1>4. ClientActive(c) => Spoken(g, c, Reach(c))
  <2>1. Fair(f, c, Reach(c)) \subseteq Fair(g, c, Reach(c))
    BY FairMore
  <2> QED BY <1>2, <2>1, SpokenMore DEF OrderedAt
<1> QED BY <1>2, <1>3, <1>4 DEF OrderedAt

LEMMA NextNaming ==
  ASSUME TablesInv, NEW f, Named(f), Ordered(f), Follows(f)
  PROVE  \E g : Ready(g)
<1>1. PICK g \in Namings : Extends(g, f) /\ Agree(g)'
  BY DEF Follows
<1>2. Named(g)'
  BY <1>1 DEF Named, Follows
<1>3. Ordered(g)
  BY <1>1, OrderedMore
<1>4. Means(f, store[Server]) /\ \A c \in Clients : ClientActive(c) => Means(f, store[c])
  BY DEF Named, Agree, Heard
<1>5. Means(g, store[Server]) /\ \A c \in Clients : ClientActive(c) => Means(g, store[c])
  BY <1>1, <1>4, MeansMore DEF Named
<1> QED BY <1>2, <1>3, <1>5 DEF Ready

\* A step that does not concern a client.
LEMMA OrderedSame ==
  ASSUME NEW f, NEW c, OrderedAt(f, c), store'[c] = store[c], hand'[c] = hand[c],
         toClient'[c] = toClient[c], toServer'[c] = toServer[c], link'[c] = link[c],
         pendS'[c] = pendS[c], pendC'[c] = pendC[c],
         hand'[Server] = hand[Server], store'[Server].idmap = store[Server].idmap
  PROVE  OrderedAt(f, c)'
<1>1. /\ Bound(c)' = Bound(c) /\ PostedTo(c)' = PostedTo(c)
      /\ (Synchronized(c)' <=> Synchronized(c)) /\ (ClientActive(c)' <=> ClientActive(c))
  BY BoundSame
<1>2. Line(c)' = Line(c)
  BY <1>1 DEF Line
<1>3. Reach(c)' = Reach(c)
  BY <1>1, <1>2 DEF Reach
<1>4. OneIdEach(c)' <=> OneIdEach(c)
  BY DEF OneIdEach, LeadsBack, Has
<1>5. Listens(f, c) => Listens(f, c)'
  BY <1>1, <1>2 DEF Listens
<1>6. ClientActive(c) => Spoken(f, c, Reach(c))'
  BY <1>3 DEF OrderedAt, Spoken
<1> QED BY <1>1, <1>4, <1>5, <1>6 DEF OrderedAt

\* A step of one client.
LEMMA OneClient ==
  ASSUME NEW g, Ordered(g), NEW c \in Clients, OrderedAt(g, c)',
         hand'[Server] = hand[Server], store'[Server].idmap = store[Server].idmap,
         \A d \in Clients \ {c} :
           /\ store'[d] = store[d] /\ hand'[d] = hand[d]
           /\ toClient'[d] = toClient[d] /\ toServer'[d] = toServer[d] /\ link'[d] = link[d]
           /\ pendS'[d] = pendS[d] /\ pendC'[d] = pendC[d]
  PROVE  Ordered(g)'
<1>1. ASSUME NEW d \in Clients PROVE OrderedAt(g, d)'
  <2>1. CASE d = c
    BY <2>1
  <2>2. CASE d # c
    BY <2>2, OrderedSame DEF Ordered
  <2> QED BY <2>1, <2>2
<1> QED BY <1>1 DEF Ordered

\* A thread holds what it has to say, too.
LEMMA HeldMore ==
  ASSUME NodeInv, NEW x \in Nodes, NEW t \in Threads, NEW conn \in Conns, NEW r,
         Pass(x, t, conn, r), NEW S, S \subseteq Sends, hand[x] \in Seq(HeldOf(S)), r.out \in Seq(S)
  PROVE  hand'[x] \in Seq(HeldOf(S))
<1>1. CASE r.out = <<>>
  BY <1>1 DEF Pass
<1>2. CASE r.out # <<>>
  <2>1. PICK h : h = [thread |-> t, conn |-> conn, out |-> r.out]
    OBVIOUS
  <2>2. r.out \in Seq(Sends) \ {<<>>}
    BY <1>2, SeqMore
  <2>3. h \in HeldOf(S)
    BY <2>1, <2>2 DEF HeldOf, Held
  <2>4. hand' = [hand EXCEPT ![x] = Append(hand[x], h)]
    BY <1>2, <2>1 DEF Pass
  <2>5. Append(hand[x], h) \in Seq(HeldOf(S))
    BY <2>3, AppendProperties
  <2> QED BY <2>4, <2>5 DEF NodeInv
<1> QED BY <1>1, <1>2

\* What the programs do.
LEMMA ChangeFacts ==
  ASSUME TablesInv, NEW f, Named(f), NEW x \in Nodes, Change(x)
  PROVE  \E n \in Names : \E r :
           /\ x \in Writers[n] /\ Pass(x, User, "none", r) /\ r.out \in Seq(Sends)
           /\ Linked(r.st) /\ UserActs(store[x], n, r) /\ StaysBare(store[x], r)
<1>1. HasRoom(store[Server]) /\ NodeInv
  BY DEF Change, TablesInv
<1>2. Good(store[x]) /\ Linked(store[x]) /\ (HasRoom(store[x]) \/ ~IsServer(store[x]))
  BY <1>1, RoomFor, NodeLinked
<1>3. PICK n \in {m \in Names : x \in Writers[m]} :
        \/ \E v \in Writes[n] :
             \/ Pass(x, User, "none", SetDefaultEntryValue(store[x], n, v))
             \/ Pass(x, User, "none", SetEntryValue(store[x], n, v))
             \/ Pass(x, User, "none", SetEntryTypeValue(store[x], n, v))
        \/ Pass(x, User, "none", DeleteEntry(store[x], n))
  BY DEF Change
<1>4. n \in Names /\ x \in Writers[n]
  OBVIOUS
<1>5. ASSUME NEW r, Pass(x, User, "none", r), Outcome(store[x], r), Traced(store[x], r),
             UserActs(store[x], n, r), StaysBare(store[x], r)
      PROVE  \E k \in Names : \E q :
               /\ x \in Writers[k] /\ Pass(x, User, "none", q) /\ q.out \in Seq(Sends)
               /\ Linked(q.st) /\ UserActs(store[x], k, q) /\ StaysBare(store[x], q)
  <2>1. r.out \in Seq(Sends) /\ Linked(r.st)
    BY <1>5 DEF Outcome, Traced
  <2> QED BY <1>4, <1>5, <2>1
<1>6. ASSUME NEW v \in Writes[n], NEW r, r = SetDefaultEntryValue(store[x], n, v)
      PROVE  /\ Outcome(store[x], r) /\ Traced(store[x], r)
             /\ UserActs(store[x], n, r) /\ StaysBare(store[x], r)
  <2>1. v \in Values
    BY <1>4, TablesAssumption
  <2>2. Outcome(store[x], r)
    BY <1>2, <1>4, <1>6, <2>1, DefaultOutcome
  <2>3. Traced(store[x], r)
    BY <1>2, <1>4, <1>6, <2>1, DefaultIds
  <2> QED BY <1>2, <1>4, <1>6, <2>1, <2>2, <2>3, DefaultActs
<1>7. ASSUME NEW v \in Writes[n], NEW r, r = SetEntryValue(store[x], n, v)
      PROVE  /\ Outcome(store[x], r) /\ Traced(store[x], r)
             /\ UserActs(store[x], n, r) /\ StaysBare(store[x], r)
  <2>1. v \in Values
    BY <1>4, TablesAssumption
  <2>2. Outcome(store[x], r)
    BY <1>2, <1>4, <1>7, <2>1, ValueOutcome
  <2>3. Traced(store[x], r)
    BY <1>2, <1>4, <1>7, <2>1, SetValueIds
  <2> QED BY <1>2, <1>4, <1>7, <2>1, <2>2, <2>3, SetValueActs
<1>8. ASSUME NEW v \in Writes[n], NEW r, r = SetEntryTypeValue(store[x], n, v)
      PROVE  /\ Outcome(store[x], r) /\ Traced(store[x], r)
             /\ UserActs(store[x], n, r) /\ StaysBare(store[x], r)
  <2>1. v \in Values
    BY <1>4, TablesAssumption
  <2>2. Outcome(store[x], r)
    BY <1>2, <1>4, <1>8, <2>1, TypeValueOutcome
  <2>3. Traced(store[x], r)
    BY <1>2, <1>4, <1>8, <2>1, SetTypeValueIds
  <2> QED BY <1>2, <1>4, <1>8, <2>1, <2>2, <2>3, SetTypeValueActs
<1>9. ASSUME NEW r, r = DeleteEntry(store[x], n)
      PROVE  /\ Outcome(store[x], r) /\ Traced(store[x], r)
             /\ UserActs(store[x], n, r) /\ StaysBare(store[x], r)
  <2>1. Outcome(store[x], r) /\ Traced(store[x], r)
    BY <1>2, <1>4, <1>9, DeleteOutcome, DeleteIds
  <2> QED BY <1>2, <1>4, <1>9, <2>1, DeleteActs
<1>10. ASSUME NEW v \in Writes[n], Pass(x, User, "none", SetDefaultEntryValue(store[x], n, v))
       PROVE  \E r : /\ Pass(x, User, "none", r) /\ Outcome(store[x], r) /\ Traced(store[x], r)
                     /\ UserActs(store[x], n, r) /\ StaysBare(store[x], r)
  BY <1>6, <1>10
<1>11. ASSUME NEW v \in Writes[n], Pass(x, User, "none", SetEntryValue(store[x], n, v))
       PROVE  \E r : /\ Pass(x, User, "none", r) /\ Outcome(store[x], r) /\ Traced(store[x], r)
                     /\ UserActs(store[x], n, r) /\ StaysBare(store[x], r)
  BY <1>7, <1>11
<1>12. ASSUME NEW v \in Writes[n], Pass(x, User, "none", SetEntryTypeValue(store[x], n, v))
       PROVE  \E r : /\ Pass(x, User, "none", r) /\ Outcome(store[x], r) /\ Traced(store[x], r)
                     /\ UserActs(store[x], n, r) /\ StaysBare(store[x], r)
  BY <1>8, <1>12
<1>13. ASSUME Pass(x, User, "none", DeleteEntry(store[x], n))
       PROVE  \E r : /\ Pass(x, User, "none", r) /\ Outcome(store[x], r) /\ Traced(store[x], r)
                     /\ UserActs(store[x], n, r) /\ StaysBare(store[x], r)
  BY <1>9, <1>13
<1> QED BY <1>3, <1>5, <1>10, <1>11, <1>12, <1>13

LEMMA ChangeFlagsFacts ==
  ASSUME TablesInv, NEW f, Named(f), NEW x \in Nodes, ChangeFlags(x)
  PROVE  \E n \in Names : \E r :
           /\ x \in Writers[n] /\ Pass(x, User, "none", r) /\ r.out \in Seq(Sends)
           /\ Linked(r.st) /\ UserActs(store[x], n, r)
<1>1. PICK n \in {m \in Names : x \in Writers[m]}, b \in {0, 1} :
        Pass(x, User, "none", SetEntryFlags(store[x], n, b))
  BY DEF ChangeFlags
<1>2. PICK r : r = SetEntryFlags(store[x], n, b)
  OBVIOUS
<1>3. Good(store[x]) /\ Linked(store[x]) /\ n \in Names /\ x \in Writers[n]
  BY NodeLinked
<1>4. Outcome(store[x], r) /\ Traced(store[x], r)
  BY <1>2, <1>3, FlagsOutcome, SetFlagsIds
<1>5. UserActs(store[x], n, r)
  BY <1>2, <1>3, SetFlagsActs
<1>6. r.out \in Seq(Sends) /\ Linked(r.st)
  BY <1>4 DEF Outcome, Traced
<1> QED BY <1>1, <1>2, <1>3, <1>5, <1>6

-----------------------------------------------------------------------------
\* The program of a client: its id map stays exact, and gains nothing.
LEMMA UserOne ==
  ASSUME NEW st, ~IsServer(st), st.idmap \in Namings, Linked(st), NEW n \in Names,
         NEW r, Linked(r.st), UserActs(st, n, r),
         \A i \in Ids : st.idmap[i] # NoName /\ OneWriter(st.idmap[i]) => LeadsBack(st, i)
  PROVE  /\ \A i \in Ids : r.st.idmap[i] # NoName /\ OneWriter(r.st.idmap[i]) => LeadsBack(r.st, i)
         /\ \A i \in Ids : r.st.idmap[i] # NoName => st.idmap[i] # NoName
<1>1. CASE KeepsIds(st, r.st)
  <2>1. r.st.idmap = st.idmap
    BY <1>1 DEF KeepsIds
  <2>2. ASSUME NEW i \in Ids, r.st.idmap[i] # NoName, OneWriter(r.st.idmap[i])
        PROVE  LeadsBack(r.st, i)
    <3>1. PICK k \in Names : k = st.idmap[i] /\ k = r.st.idmap[i]
      BY <2>1, <2>2 DEF Namings
    <3>2. st.entries[k].id = i /\ i # NoId
      BY <2>1, <2>2, <3>1, IdsAre DEF LeadsBack
    <3>3. r.st.entries[k].id = i
      BY <1>1, <3>1, <3>2 DEF KeepsIds
    <3> QED BY <3>1, <3>2, <3>3 DEF Linked, LeadsBack
  <2> QED BY <2>1, <2>2
<1>2. CASE UserDrops(st, n, r)
  <2>1. PICK j \in Ids : /\ st.entries[n].id = j /\ st.idmap[j] = n
                         /\ r.st.idmap = [st.idmap EXCEPT ![j] = NoName]
                         /\ \A k \in Names : k # n => r.st.entries[k] = st.entries[k]
    BY <1>2 DEF UserDrops
  <2>2. \A i \in Ids : r.st.idmap[i] = IF i = j THEN NoName ELSE st.idmap[i]
    BY <2>1 DEF Namings
  <2>3. ASSUME NEW i \in Ids, r.st.idmap[i] # NoName, OneWriter(r.st.idmap[i])
        PROVE  LeadsBack(r.st, i)
    <3>1. i # j /\ r.st.idmap[i] = st.idmap[i]
      BY <2>2, <2>3
    <3>2. PICK k \in Names : k = st.idmap[i] /\ k = r.st.idmap[i]
      BY <2>3, <3>1 DEF Namings
    <3>3. Has(st, k) /\ st.entries[k].id = i
      BY <2>3, <3>2 DEF LeadsBack
    <3>4. k # n
      BY <2>1, <3>1, <3>3
    <3>5. r.st.entries[k] = st.entries[k]
      BY <2>1, <3>4
    <3> QED BY <3>2, <3>3, <3>5 DEF LeadsBack, Has
  <2> QED BY <2>2, <2>3
<1>3. KeepsIds(st, r.st) \/ UserDrops(st, n, r)
  BY DEF UserActs, UserKeeps, GivesNew
<1> QED BY <1>1, <1>2, <1>3

\* It speaks of an entry it writes, by the id it has; and frees it when it says so.
LEMMA UserIsFair ==
  ASSUME NEW g, NEW c \in Clients, NEW st, st = store[c], ~IsServer(st), Linked(st), Means(g, st),
         NEW n \in Names, c \in Writers[n], NEW r, UserActs(st, n, r), st.idmap \in Namings,
         NEW L, NEW B, NEW C, B = {i \in Ids : st.idmap[i] # NoName},
         C = {i \in Ids : r.st.idmap[i] # NoName}, NewOnly(g, c, B, L)
  PROVE  r.out \in Seq(FairSends(g, c, ReachOf(C, L)))
<1>1. Solo(n) => Own(c, n)
  BY ServerIsNode DEF Solo, Own, OneWriter
<1>2. n # NoName
  BY StorageAssumption
<1>3. ASSUME NEW m \in Msgs, m \in Fair(g, c, ReachOf(C, L)), r.out = <<ToAll(m)>>
      PROVE  r.out \in Seq(FairSends(g, c, ReachOf(C, L)))
  <2>1. ToAll(m) \in FairSends(g, c, ReachOf(C, L))
    BY <1>3, SendIsSends DEF FairSends, ToAll
  <2> QED BY <1>3, <2>1, OneMessage
<1>4. CASE UserKeeps(st, n, r)
  <2>1. CASE r.out = <<>>
    BY <2>1, EmptySeq
  <2>2. CASE r.out # <<>>
    <3>1. PICK m \in Msgs : /\ r.out = <<ToAll(m)>> /\ m.id = st.entries[n].id
                            /\ m.type \in {"assign", "update", "flags"}
      BY <1>4, <2>2 DEF UserKeeps
    <3>2. ASSUME m.type = "assign", m.id # NoId
          PROVE  g[m.id] = n
      <4>1. m.id \in Ids
        BY <3>2, PostTypes DEF Posts, Assigns, NewIds
      <4>2. st.idmap[m.id] = n
        BY <3>1, <3>2 DEF Linked
      <4> QED BY <1>2, <4>1, <4>2 DEF Means
    <3>3. m \in Posts /\ m.type # "clear" /\ m.type # "delete"
      BY <3>1 DEF Posts
    <3>4. m.type = "assign" /\ m.id # NoId =>
            g[m.id] # NoName /\ (Solo(g[m.id]) => Own(c, g[m.id]))
      BY <1>1, <1>2, <3>2
    <3>5. m \in Fair(g, c, ReachOf(C, L))
      BY <3>3, <3>4 DEF Fair
    <3> QED BY <1>3, <3>1, <3>5
  <2> QED BY <2>1, <2>2
<1>5. CASE UserDrops(st, n, r)
  <2>1. PICK j \in Ids : /\ st.entries[n].id = j /\ st.idmap[j] = n
                         /\ r.st.idmap = [st.idmap EXCEPT ![j] = NoName]
                         /\ r.out = <<ToAll(EntryDelete(j))>>
    BY <1>5 DEF UserDrops
  <2>2. PICK m : m = EntryDelete(j)
    OBVIOUS
  <2>3. m \in Msgs /\ m.type = "delete" /\ m.id = j
    BY <2>2 DEF EntryDelete, Deletes, Msgs
  <2>4. g[j] = n /\ j \in B /\ j \notin C
    BY <1>2, <2>1 DEF Means, Namings
  <2>5. ASSUME Own(c, n) PROVE j \notin ReachOf(C, L)
    BY <2>4, <2>5 DEF ReachOf, NewOnly
  <2>6. m \in Fair(g, c, ReachOf(C, L))
    BY <1>1, <1>2, <2>3, <2>4, <2>5 DEF Fair, Posts
  <2> QED BY <1>3, <2>1, <2>2, <2>3, <2>6
<1>6. UserKeeps(st, n, r) \/ UserDrops(st, n, r)
  BY DEF UserActs, GivesNew
<1> QED BY <1>4, <1>5, <1>6

LEMMA ClientUserOrder ==
  ASSUME TablesInv, NEW f, Named(f), NEW g, Ready(g), NEW c \in Clients, NEW n \in Names, c \in Writers[n],
         NEW r, Pass(c, User, "none", r), r.out \in Seq(Sends), Linked(r.st),
         UserActs(store[c], n, r), UNCHANGED net
  PROVE  Ordered(g)'
<1>0. /\ NodeInv /\ c \in Nodes /\ Server \in Nodes /\ c # Server /\ Clients \subseteq Nodes
      /\ User \in Threads /\ "none" \in Conns
  BY ServerIsNode DEF TablesInv, Threads, Conns
<1>1. PICK st : st = store[c]
  OBVIOUS
<1>2. /\ Linked(st) /\ ~IsServer(st) /\ st.idmap \in Namings
  BY <1>0, <1>1, NodeLinked DEF NodeInv, Good, Store, Namings
<1>3. /\ store'[c] = r.st
      /\ \A y \in Nodes : y # c => store'[y] = store[y] /\ hand'[y] = hand[y]
  BY <1>0, PassAt
<1>4. UNCHANGED <<pendC, pendS, toServer, toClient, link>>
  BY DEF net
<1>5. OrderedAt(g, c)
  BY DEF Ready, Ordered
<1>6. /\ \A i \in Ids : r.st.idmap[i] # NoName /\ OneWriter(r.st.idmap[i]) => LeadsBack(r.st, i)
      /\ \A i \in Ids : r.st.idmap[i] # NoName => st.idmap[i] # NoName
  <2>1. \A i \in Ids : st.idmap[i] # NoName /\ OneWriter(st.idmap[i]) => LeadsBack(st, i)
    BY <1>1, <1>5 DEF OrderedAt, OneIdEach
  <2> QED BY <1>1, <1>2, <2>1, UserOne
<1>7. OneIdEach(c)'
  BY <1>3, <1>6 DEF OneIdEach
<1>8. /\ PostedTo(c)' = PostedTo(c)
      /\ (Synchronized(c)' <=> Synchronized(c)) /\ (ClientActive(c)' <=> ClientActive(c))
  BY <1>4 DEF PostedTo, Synchronized, ClientActive
<1>9. Line(c)' = Line(c)
  BY <1>0, <1>3, <1>4, <1>8 DEF Line
<1>10. Bound(c)' \subseteq Bound(c)
  <2>1. CASE link[c] = "sent"
    BY <1>4, <2>1 DEF Bound
  <2>2. CASE link[c] # "sent"
    BY <1>1, <1>3, <1>4, <1>6, <2>2 DEF Bound
  <2> QED BY <2>1, <2>2
<1>11. Listens(g, c)'
  <2>1. SUFFICES ASSUME Synchronized(c)
                 PROVE  PendOK(pendS'[c]) /\ LineOK(g, c, Bound(c)', Line(c)', store'[Server].idmap)
    BY <1>8 DEF Listens
  <2>2. PendOK(pendS[c]) /\ LineOK(g, c, Bound(c), Line(c), store[Server].idmap)
    BY <1>5, <2>1 DEF OrderedAt, Listens
  <2>3. Line(c) \in Seq(Posts)
    BY <2>1, LineParts
  <2>4. LineOK(g, c, Bound(c)', Line(c), store[Server].idmap)
    <3>1. PICK L \in Seq(Posts) : L = Line(c)
      BY <2>3
    <3>2. \A k \in 1 .. Len(L) : TellsLess(g, c, L[k], L[k])
                                 /\ \A i \in Ids : Frees(L[k], i) => Frees(L[k], i)
      BY SameTells
    <3>3. LineOK(g, c, Bound(c), L, store[Server].idmap)
      BY <2>2, <3>1
    <3> QED BY <1>10, <3>1, <3>2, <3>3, FitsMilder
  <2> QED BY <1>0, <1>3, <1>4, <1>9, <2>2, <2>4
<1>12. ASSUME ClientActive(c) PROVE Spoken(g, c, Reach(c))'
  <2>1. Synchronized(c) /\ link[c] # "sent" /\ Means(g, st)
    BY <1>1, <1>12 DEF ClientActive, Synchronized, Ready
  <2>2. Spoken(g, c, Reach(c))
    BY <1>5, <1>12 DEF OrderedAt
  <2>3. Fair(g, c, Reach(c)) \subseteq Fair(g, c, Reach(c)')
    <3>1. Reach(c)' \subseteq Reach(c)
      BY <1>9, <1>10 DEF Reach, ReachOf
    <3>2. Extends(g, g)
      BY DEF Extends
    <3> QED BY <3>1, <3>2, FairMore
  <2>4. PICK S : S = FairSends(g, c, Reach(c)')
    OBVIOUS
  <2>5. /\ Seq(Fair(g, c, Reach(c))) \subseteq Seq(Fair(g, c, Reach(c)'))
        /\ Seq(HeldOf(FairSends(g, c, Reach(c)))) \subseteq Seq(HeldOf(S))
        /\ Seq(FairWires(g, c, Reach(c))) \subseteq Seq(FairWires(g, c, Reach(c)'))
        /\ hand[c] \in Seq(HeldOf(S)) /\ S \subseteq Sends
    <3>1. PICK T : T = Reach(c)'
      OBVIOUS
    <3>2. /\ Seq(Fair(g, c, Reach(c))) \subseteq Seq(Fair(g, c, T))
          /\ Seq(HeldOf(FairSends(g, c, Reach(c)))) \subseteq Seq(HeldOf(FairSends(g, c, T)))
          /\ Seq(FairWires(g, c, Reach(c))) \subseteq Seq(FairWires(g, c, T))
      BY <2>3, <3>1, FairWithin
    <3>3. S \subseteq Sends
      BY <2>4 DEF FairSends
    <3> QED BY <2>2, <2>4, <3>1, <3>2, <3>3 DEF Spoken
  <2>6. r.out \in Seq(S)
    <3>1. PICK B, C : /\ B = {i \in Ids : st.idmap[i] # NoName}
                      /\ C = {i \in Ids : r.st.idmap[i] # NoName}
      OBVIOUS
    <3>2. B = Bound(c) /\ C = Bound(c)'
      BY <1>1, <1>3, <1>4, <2>1, <3>1 DEF Bound
    <3>3. NewOnly(g, c, B, Line(c))
      BY <1>5, <2>1, <3>2 DEF OrderedAt, Listens, LineOK
    <3>4. r.out \in Seq(FairSends(g, c, ReachOf(C, Line(c))))
      BY <1>1, <1>2, <2>1, <3>1, <3>3, UserIsFair
    <3> QED BY <1>9, <2>4, <3>2, <3>4 DEF Reach
  <2>7. hand'[c] \in Seq(HeldOf(S))
    BY <1>0, <2>5, <2>6, HeldMore
  <2>8. /\ pendC'[c].msgs \in Seq(Fair(g, c, Reach(c)'))
        /\ toServer'[c] \in Seq(FairWires(g, c, Reach(c)'))
    BY <1>4, <2>2, <2>5 DEF Spoken
  <2> QED BY <2>4, <2>7, <2>8 DEF Spoken
<1>13. OrderedAt(g, c)'
  BY <1>4, <1>5, <1>7, <1>8, <1>11, <1>12 DEF OrderedAt
<1> QED BY <1>0, <1>3, <1>4, <1>13, OneClient DEF Ready

\* The server's own changes.
LEMMA ServerUserOrder ==
  ASSUME TablesInv, TablesInv', NEW f, Named(f), Ordered(f), Follows(f),
         NEW r, r.out \in Seq(Sends), Pass(Server, User, "none", r),
         ServerActs(f, "none", store[Server], r), UNCHANGED net
  PROVE  StaysOrdered
<1>1. PICK g \in Namings : Extends(g, f) /\ Agree(g)'
  BY DEF Follows
<1>2. Named(g)'
  BY <1>1 DEF Named, Follows
<1>3. UNCHANGED <<pendC, pendS, toClient, link>> /\ UNCHANGED toServer
  BY DEF net
<1>4. \A c \in Clients : ClientActive(c) => toServer'[c] \in Seq(FairWires(f, c, Reach(c)))
  BY <1>3 DEF Ordered, OrderedAt, Spoken
<1>5. User \in Threads /\ "none" \in Conns
  BY DEF Threads, Conns
<1>6. Ordered(g)'
  BY <1>1, <1>3, <1>4, <1>5, ServerStep
<1> QED BY <1>2, <1>6 DEF StaysOrdered

LEMMA UserOrder ==
  ASSUME TablesInv, TablesInv', NEW f, Named(f), Ordered(f), Follows(f),
         NEW x \in Nodes, NEW n \in Names, x \in Writers[n],
         NEW r, Pass(x, User, "none", r), r.out \in Seq(Sends), Linked(r.st),
         UserActs(store[x], n, r), UNCHANGED net
  PROVE  StaysOrdered
<1>1. CASE x = Server
  <2>1. ServerActs(f, "none", store[Server], r)
    BY <1>1, UserServes
  <2> QED BY <1>1, <2>1, ServerUserOrder
<1>2. CASE x # Server
  <2>1. x \in Clients
    BY <1>2 DEF Nodes
  <2>2. PICK g : Ready(g)
    BY NextNaming
  <2>3. Ordered(g)'
    BY <2>1, <2>2, ClientUserOrder
  <2> QED BY <2>2, <2>3 DEF StaysOrdered, Ready
<1> QED BY <1>1, <1>2

LEMMA ChangeOrder ==
  ASSUME TablesInv, TablesInv', NEW f, Named(f), Ordered(f), Follows(f),
         NEW x \in Nodes, Change(x) \/ ChangeFlags(x)
  PROVE  StaysOrdered
<1>1. UNCHANGED net
  BY DEF Change, ChangeFlags
<1>2. PICK n \in Names : \E r :
        /\ x \in Writers[n] /\ Pass(x, User, "none", r) /\ r.out \in Seq(Sends)
        /\ Linked(r.st) /\ UserActs(store[x], n, r)
  BY ChangeFacts, ChangeFlagsFacts
<1> QED BY <1>1, <1>2, UserOrder

\* In the calm only the server clears.
LEMMA ClearOrder ==
  ASSUME TablesInv, TablesInv', NEW f, Named(f), Ordered(f), Follows(f), Clear(Server)
  PROVE  StaysOrdered
<1>1. UNCHANGED net /\ Pass(Server, User, "none", DeleteAllEntries(store[Server]))
  BY DEF Clear
<1>2. PICK r : r = DeleteAllEntries(store[Server])
  OBVIOUS
<1>3. Good(store[Server])
  BY ServerIsNode DEF TablesInv, NodeInv
<1>4. r.out \in Seq(Sends)
  BY <1>2, <1>3, AllOutcome DEF Outcome
<1>5. ServerActs(f, "none", store[Server], r)
  BY <1>2, <1>3, DeleteAllWipes, ClearServes
<1> QED BY <1>1, <1>2, <1>4, <1>5, ServerUserOrder

-----------------------------------------------------------------------------
\* The server takes what a client has to say.
LEMMA ServerTakesOrder ==
  ASSUME TablesInv, TablesInv', NEW f, Named(f), Ordered(f), Follows(f), HasRoom(store[Server]),
         NEW c \in Clients, NEW m \in Msgs, m \in Fair(f, c, Reach(c)),
         Pass(Server, c, c, ProcessIncoming(store[Server], m)),
         UNCHANGED <<pendC, pendS, toClient, link>>,
         toServer'[c] \in Seq(FairWires(f, c, Reach(c))),
         \A d \in Clients \ {c} : toServer'[d] = toServer[d]
  PROVE  StaysOrdered
<1>1. PICK g \in Namings : Extends(g, f) /\ Agree(g)'
  BY DEF Follows
<1>2. Named(g)'
  BY <1>1 DEF Named, Follows
<1>3. Good(store[Server]) /\ IsServer(store[Server]) /\ c \in Threads /\ c \in Conns
  BY ServerIsNode DEF TablesInv, NodeInv, Threads, Conns
<1>4. PICK r : r = ProcessIncoming(store[Server], m)
  OBVIOUS
<1>5. r.out \in Seq(Sends)
  BY <1>3, <1>4, IncomingOutcome DEF Outcome
<1>6. Hosts(store[Server], m, r)
  BY <1>3, <1>4, ServerHosts
<1>7. ServerActs(f, c, store[Server], r)
  <2>1. PICK R : R = Reach(c)
    OBVIOUS
  <2> QED BY <1>6, <2>1, HostServes
<1>8. ASSUME NEW d \in Clients, ClientActive(d)
      PROVE  toServer'[d] \in Seq(FairWires(f, d, Reach(d)))
  <2>1. CASE d = c
    BY <2>1
  <2>2. CASE d # c
    <3>1. toServer'[d] = toServer[d]
      BY <2>2
    <3>2. toServer[d] \in Seq(FairWires(f, d, Reach(d)))
      BY <1>8 DEF Ordered, OrderedAt, Spoken
    <3> QED BY <3>1, <3>2
  <2> QED BY <2>1, <2>2
<1>9. Pass(Server, c, c, r)
  BY <1>4
<1>10. Ordered(g)'
  BY <1>1, <1>3, <1>5, <1>7, <1>8, <1>9, ServerStep
<1> QED BY <1>2, <1>10 DEF StaysOrdered

\* The first thing a client has posted, and the rest.
LEMMA PostedFair ==
  ASSUME NEW f, Ordered(f), NEW c \in Clients, ClientActive(c), toServer[c] # <<>>
  PROVE  /\ Head(toServer[c]) \in FairWires(f, c, Reach(c))
         /\ Tail(toServer[c]) \in Seq(FairWires(f, c, Reach(c)))
<1>1. PICK s \in Seq(FairWires(f, c, Reach(c))) : s = toServer[c] /\ s # <<>>
  BY DEF Ordered, OrderedAt, Spoken
<1> QED BY <1>1, HeadTailProperties

LEMMA FinishHandshakeOrder ==
  ASSUME TablesInv, TablesInv', NEW f, Named(f), Ordered(f), Follows(f),
         NEW c \in Clients, FinishHandshake(c)
  PROVE  StaysOrdered
<1>0. /\ NetInv /\ link[c] = "applied" /\ toServer[c] # <<>> /\ ClientActive(c) /\ Synchronized(c)
      /\ link \in [Clients -> {"down", "hello", "sent", "applied", "up"}]
      /\ toServer \in [Clients -> Seq(Wires)] /\ UNCHANGED <<pendC, pendS, toClient>>
  BY DEF TablesInv, NetInv, FinishHandshake, ClientActive, Synchronized
<1>1. PICK h \in Replies : h = Head(toServer[c])
  BY <1>0 DEF NetInv, StreamsAgree
<1>2. PICK todo \in Seq(Msgs) : todo = h.msgs
  BY DEF Replies
<1>3. PICK R : R = Reach(c)
  OBVIOUS
<1>4. PICK F : F = Fair(f, c, R)
  OBVIOUS
<1>5. todo \in Seq(F) /\ Tail(toServer[c]) \in Seq(FairWires(f, c, R))
  <2>1. h \in FairWires(f, c, R) /\ Tail(toServer[c]) \in Seq(FairWires(f, c, R))
    BY <1>0, <1>1, <1>3, PostedFair
  <2>2. h \notin Fair(f, c, R)
    <3>1. h.type = "reply"
      BY DEF Replies
    <3>2. h \notin Posts
      BY <3>1, PostTypes
    <3> QED BY <3>2 DEF Fair
  <2>3. h.msgs \in Seq(Fair(f, c, R))
    BY <2>1, <2>2 DEF FairWires
  <2> QED BY <1>2, <1>4, <2>1, <2>3
<1>6. CASE /\ todo # <<>> /\ HasRoom(store[Server])
           /\ Pass(Server, c, c, ProcessIncoming(store[Server], Head(todo)))
           /\ toServer' = [toServer EXCEPT ![c][1] = Reply(Tail(todo))]
           /\ UNCHANGED link
  <2>1. Head(todo) \in Msgs /\ Head(todo) \in F /\ Tail(todo) \in Seq(F) /\ Tail(todo) \in Seq(Msgs)
    BY <1>5, <1>6, HeadTailProperties
  <2>2. PICK w : w = Reply(Tail(todo))
    OBVIOUS
  <2>3. w \in FairWires(f, c, R)
    BY <1>4, <2>1, <2>2 DEF FairWires, Reply, Replies
  <2>4. PICK s \in Seq(FairWires(f, c, R)) : s = toServer[c]
    BY <1>0, <1>3 DEF Ordered, OrderedAt, Spoken
  <2>5. [s EXCEPT ![1] = w] \in Seq(FairWires(f, c, R))
    BY <2>3, SeqExcept
  <2>6. toServer'[c] = [s EXCEPT ![1] = w] /\ \A d \in Clients \ {c} : toServer'[d] = toServer[d]
    BY <1>0, <1>6, <2>2, <2>4
  <2>7. toServer'[c] \in Seq(FairWires(f, c, Reach(c)))
    BY <1>3, <2>5, <2>6
  <2>8. PICK m \in Msgs : m = Head(todo)
    BY <2>1
  <2>9. m \in Fair(f, c, Reach(c))
    BY <1>3, <1>4, <2>1, <2>8
  <2>10. Pass(Server, c, c, ProcessIncoming(store[Server], m)) /\ HasRoom(store[Server])
         /\ UNCHANGED <<pendC, pendS, toClient, link>>
    BY <1>0, <1>6, <2>8
  <2> QED BY <2>6, <2>7, <2>9, <2>10, ServerTakesOrder
<1>7. CASE /\ toServer' = [toServer EXCEPT ![c] = Tail(toServer[c])]
           /\ link' = [link EXCEPT ![c] = "up"]
           /\ UNCHANGED <<store, hand>>
  <2>1. PICK g : Ready(g)
    BY NextNaming
  <2>2. OrderedAt(g, c)
    BY <2>1 DEF Ready, Ordered
  <2>3. link'[c] = "up" /\ toServer'[c] = Tail(toServer[c])
    BY <1>0, <1>7
  <2>4. /\ Bound(c)' = Bound(c) /\ PostedTo(c)' = PostedTo(c)
        /\ Synchronized(c)' /\ ClientActive(c)'
    BY <1>0, <1>7, <2>3 DEF Bound, PostedTo, Synchronized, ClientActive
  <2>5. Line(c)' = Line(c)
    BY <1>0, <1>7, <2>4 DEF Line
  <2>6. Listens(g, c)' /\ OneIdEach(c)'
    BY <1>0, <1>7, <2>2, <2>4, <2>5 DEF OrderedAt, Listens, OneIdEach, LeadsBack, Has
  <2>7. Spoken(g, c, Reach(c))'
    <3>1. Reach(c)' = Reach(c)
      BY <2>4, <2>5 DEF Reach
    <3>2. Spoken(g, c, Reach(c))
      BY <1>0, <2>2 DEF OrderedAt
    <3>3. toServer'[c] \in Seq(FairWires(g, c, Reach(c)))
      BY <1>0, <2>1, <2>3, PostedFair DEF Ready
    <3> QED BY <1>0, <1>7, <3>1, <3>2, <3>3 DEF Spoken
  <2>8. OrderedAt(g, c)'
    BY <2>4, <2>6, <2>7 DEF OrderedAt
  <2>9. \A d \in Clients \ {c} : toServer'[d] = toServer[d] /\ link'[d] = link[d]
    BY <1>0, <1>7
  <2>10. Ordered(g)'
    BY <1>0, <1>7, <2>1, <2>8, <2>9, OneClient DEF Ready
  <2> QED BY <2>1, <2>10 DEF StaysOrdered, Ready
<1>8. \/ /\ todo # <<>> /\ HasRoom(store[Server])
         /\ Pass(Server, c, c, ProcessIncoming(store[Server], Head(todo)))
         /\ toServer' = [toServer EXCEPT ![c][1] = Reply(Tail(todo))]
         /\ UNCHANGED link
      \/ /\ toServer' = [toServer EXCEPT ![c] = Tail(toServer[c])]
         /\ link' = [link EXCEPT ![c] = "up"]
         /\ UNCHANGED <<store, hand>>
  BY <1>1, <1>2 DEF FinishHandshake
<1> QED BY <1>6, <1>7, <1>8

LEMMA ServerReadsOrder ==
  ASSUME TablesInv, TablesInv', NEW f, Named(f), Ordered(f), Follows(f),
         NEW c \in Clients, ServerReads(c)
  PROVE  StaysOrdered
<1>0. /\ NetInv /\ link[c] = "up" /\ toServer[c] # <<>> /\ HasRoom(store[Server]) /\ ClientActive(c)
      /\ toServer \in [Clients -> Seq(Wires)]
      /\ toServer' = [toServer EXCEPT ![c] = Tail(toServer[c])]
      /\ UNCHANGED <<pendC, pendS, toClient, link>>
  BY DEF TablesInv, NetInv, ServerReads, ClientActive
<1>1. PICK s \in Seq(Posts) : s = toServer[c] /\ s # <<>>
  BY <1>0 DEF NetInv, StreamsAgree
<1>2. PICK m \in Posts : m = Head(toServer[c])
  BY <1>1, HeadTailProperties
<1>3. toServer'[c] = Tail(toServer[c]) /\ \A d \in Clients \ {c} : toServer'[d] = toServer[d]
  BY <1>0
<1>4. m \in Fair(f, c, Reach(c)) /\ toServer'[c] \in Seq(FairWires(f, c, Reach(c)))
  <2>1. m \in FairWires(f, c, Reach(c)) /\ toServer'[c] \in Seq(FairWires(f, c, Reach(c)))
    BY <1>0, <1>2, <1>3, PostedFair
  <2>2. m \notin Replies
    BY PostTypes DEF Replies
  <2> QED BY <2>1, <2>2 DEF FairWires
<1>5. CASE m = Q!None
  <2>1. UNCHANGED <<store, hand>>
    BY <1>2, <1>5 DEF ServerReads
  <2>2. PICK g : Ready(g)
    BY NextNaming
  <2>3. OrderedAt(g, c)
    BY <2>2 DEF Ready, Ordered
  <2>4. /\ Bound(c)' = Bound(c) /\ PostedTo(c)' = PostedTo(c)
        /\ (Synchronized(c)' <=> Synchronized(c)) /\ (ClientActive(c)' <=> ClientActive(c))
    BY <1>0, <2>1, BoundSame
  <2>5. Line(c)' = Line(c)
    BY <1>0, <2>1, <2>4 DEF Line
  <2>6. Listens(g, c)' /\ OneIdEach(c)'
    BY <1>0, <2>1, <2>3, <2>4, <2>5 DEF OrderedAt, Listens, OneIdEach, LeadsBack, Has
  <2>7. Spoken(g, c, Reach(c))'
    <3>1. Reach(c)' = Reach(c)
      BY <2>4, <2>5 DEF Reach
    <3>2. Spoken(g, c, Reach(c))
      BY <1>0, <2>3 DEF OrderedAt
    <3>3. toServer'[c] \in Seq(FairWires(g, c, Reach(c)))
      BY <1>0, <1>3, <2>2, PostedFair DEF Ready
    <3> QED BY <1>0, <2>1, <3>1, <3>2, <3>3 DEF Spoken
  <2>8. OrderedAt(g, c)'
    BY <1>0, <2>4, <2>6, <2>7 DEF OrderedAt
  <2>9. Ordered(g)'
    BY <1>0, <1>3, <2>1, <2>2, <2>8, OneClient DEF Ready
  <2> QED BY <2>2, <2>9 DEF StaysOrdered, Ready
<1>6. CASE m # Q!None
  <2>1. m \in Msgs
    BY <1>6 DEF Posts
  <2>2. Pass(Server, c, c, ProcessIncoming(store[Server], m))
    BY <1>2, <1>6 DEF ServerReads
  <2> QED BY <1>0, <1>3, <1>4, <2>1, <2>2, ServerTakesOrder
<1> QED BY <1>5, <1>6

-----------------------------------------------------------------------------
\* What a client says when it answers is always fair.
LEMMA TalkIsFair ==
  ASSUME NEW f, NEW c, NEW R
  PROVE  Talk \subseteq FairSends(f, c, R)
<1>1. SUFFICES ASSUME NEW s \in Talk PROVE s \in FairSends(f, c, R)
  OBVIOUS
<1>2. s \in Sends /\ s.msg.type \in {"update", "flags"} /\ s.msg \in Posts
  BY <1>1 DEF Talk, Sends, Posts
<1> QED BY <1>2 DEF FairSends, Fair

LEMMA TailJoin ==
  ASSUME NEW S, NEW s \in Seq(S), NEW t \in Seq(S), s # <<>>
  PROVE  Tail(s \o t) = Tail(s) \o t
OBVIOUS

\* An id map stays exact when an entry keeps one id.
LEMMA ReadOne ==
  ASSUME NEW g, NEW c, NEW st, NEW s, s.idmap \in Namings, Means(g, s), KeepsSolo(st, s),
         \A i \in Ids : st.idmap[i] # NoName /\ OneWriter(st.idmap[i]) => LeadsBack(st, i),
         NEW C, C = {i \in Ids : s.idmap[i] # NoName}, NEW K \in Seq(Posts), InTurn(g, c, C, K)
  PROVE  \A i \in Ids : s.idmap[i] # NoName /\ OneWriter(s.idmap[i]) => LeadsBack(s, i)
<1>1. SUFFICES ASSUME NEW h \in Ids, s.idmap[h] # NoName, OneWriter(s.idmap[h])
               PROVE  LeadsBack(s, h)
  OBVIOUS
<1>2. PICK n \in Names : n = s.idmap[h]
  BY <1>1 DEF Namings
<1>3. n # NoName /\ Solo(n)
  BY <1>1, <1>2, StorageAssumption DEF Solo
<1>4. \A i \in Ids : st.idmap[i] = n => LeadsBack(st, i)
  BY <1>1, <1>2, <1>3
<1>5. ASSUME NEW i \in Ids, NEW j \in Ids, s.idmap[i] = n, s.idmap[j] = n PROVE i = j
  <2>1. i \in C /\ j \in C /\ g[i] = n /\ g[j] = n
    BY <1>3, <1>5 DEF Means
  <2>2. 0 \in 0 .. Len(K) /\ 0 \in 0 .. 0
    OBVIOUS
  <2>3. \A r \in (0 + 1) .. 0 : FALSE
    OBVIOUS
  <2>4. i \in Alive(g, c, C, K, 0) /\ j \in Alive(g, c, C, K, 0)
    BY <1>3, <2>1, <2>2, <2>3 DEF Alive, Given
  <2> QED BY <2>1, <2>2, <2>4 DEF InTurn
<1> QED BY <1>2, <1>4, <1>5 DEF KeepsSolo

\* What a client makes of the first message of its line.
ReadsFirst(g, st, s, m) ==
  /\ s.idmap \in Namings /\ KeepsSolo(st, s)
  /\ \A i \in Ids : s.idmap[i] # NoName => st.idmap[i] # NoName \/ NamesId(m, i)
  /\ \A i \in Ids : s.idmap[i] # NoName /\ st.idmap[i] # NoName /\ Solo(g[i]) => ~Frees(m, i)

LEMMA ReadFirst ==
  ASSUME NEW g, NEW st, Good(st), Linked(st), ~IsServer(st), Means(g, st),
         \A i \in Ids : st.idmap[i] # NoName /\ OneWriter(st.idmap[i]) => LeadsBack(st, i),
         NEW m \in Msgs, m.type = "clear" => Bare(st), NEW r, r = ProcessIncoming(st, m)
  PROVE  ReadsFirst(g, st, r.st, m) /\ r.out \in Seq(Talk)
<1>1. Linked(r.st) /\ Learns(st, r.st, m)
  BY ClientIncomingIds
<1>2. Takes(st, m, r)
  BY ClientTakes
<1>3. Good(r.st)
  BY IncomingOutcome DEF Outcome
<1>4. PICK s : s = r.st
  OBVIOUS
<1>5. s.idmap \in Namings /\ KeepsSolo(st, s)
  BY <1>2, <1>3, <1>4 DEF Good, Store, Namings, Takes
<1>6. \A i \in Ids : s.idmap[i] # NoName => st.idmap[i] # NoName \/ NamesId(m, i)
  BY <1>1, <1>4 DEF Learns, NamesId
<1>7. ASSUME NEW i \in Ids, s.idmap[i] # NoName, st.idmap[i] # NoName, Solo(g[i]), Frees(m, i)
      PROVE  FALSE
  <2>1. g[i] = st.idmap[i]
    BY <1>7 DEF Means
  <2>2. LeadsBack(st, i)
    BY <1>7, <2>1 DEF Solo
  <2> QED BY <1>2, <1>4, <1>7, <2>2 DEF Takes
<1>8. ReadsFirst(g, st, s, m)
  BY <1>5, <1>6, <1>7 DEF ReadsFirst
<1> QED BY <1>2, <1>4, <1>8 DEF Takes

LEMMA ReadNothing ==
  ASSUME NEW g, NEW st, Good(st), Linked(st)
  PROVE  ReadsFirst(g, st, st, Q!None)
<1>1. st.idmap \in Namings /\ KeepsSolo(st, st)
  BY DEF Good, Store, Namings, KeepsSolo
<1> QED BY <1>1 DEF ReadsFirst, Frees, Q!None

LEMMA ClientReadsOrder ==
  ASSUME TablesInv, TablesInv', NEW f, Named(f), Ordered(f), Follows(f),
         NEW c \in Clients, ClientReads(c), Head(toClient[c]).type = "clear" => Bare(store[c])
  PROVE  StaysOrdered
<1>0. /\ NodeInv /\ NetInv /\ link[c] \in {"applied", "up"} /\ toClient[c] # <<>>
      /\ c \in Nodes /\ c # Server /\ Server \in Nodes /\ Clients \subseteq Nodes
      /\ toClient \in [Clients -> Seq(Wires)]
      /\ toClient' = [toClient EXCEPT ![c] = Tail(toClient[c])]
      /\ UNCHANGED <<pendC, pendS, toServer, link>>
      /\ "reader" \in Threads /\ "none" \in Conns
  BY ServerIsNode DEF TablesInv, NetInv, ClientReads, ClientActive, Threads, Conns
<1>1. ClientActive(c) /\ Synchronized(c) /\ link[c] # "sent"
  BY <1>0 DEF ClientActive, Synchronized
<1>2. PICK A \in Seq(Posts) : A = toClient[c] /\ A # <<>>
  BY <1>0 DEF NetInv, StreamsAgree
<1>3. PICK m \in Posts : m = Head(A)
  BY <1>2, HeadTailProperties
<1>4. PICK g : Ready(g)
  BY NextNaming
<1>5. OrderedAt(g, c)
  BY <1>4 DEF Ready, Ordered
<1>6. PICK st : st = store[c]
  OBVIOUS
<1>7. Good(st) /\ Linked(st) /\ ~IsServer(st) /\ Means(g, st)
  BY <1>0, <1>1, <1>4, <1>6, NodeLinked DEF NodeInv, Ready
<1>8. \A i \in Ids : st.idmap[i] # NoName /\ OneWriter(st.idmap[i]) => LeadsBack(st, i)
  BY <1>5, <1>6 DEF OrderedAt, OneIdEach
<1>9. /\ ReadsFirst(g, st, store'[c], m)
      /\ \A y \in Nodes : y # c => store'[y] = store[y] /\ hand'[y] = hand[y]
      /\ \A S : Talk \subseteq S /\ S \subseteq Sends /\ hand[c] \in Seq(HeldOf(S)) =>
           hand'[c] \in Seq(HeldOf(S))
  <2>1. CASE m = Q!None
    <3>1. UNCHANGED <<store, hand>>
      BY <1>2, <1>3, <2>1 DEF ClientReads
    <3>2. ReadsFirst(g, st, st, m)
      BY <1>7, <2>1, ReadNothing
    <3> QED BY <1>6, <3>1, <3>2
  <2>2. CASE m # Q!None
    <3>1. m \in Msgs /\ (m.type = "clear" => Bare(st))
      BY <1>2, <1>3, <1>6, <2>2 DEF Posts
    <3>2. PICK r : r = ProcessIncoming(st, m)
      OBVIOUS
    <3>3. Pass(c, "reader", "none", r)
      BY <1>2, <1>3, <1>6, <2>2, <3>2 DEF ClientReads
    <3>4. ReadsFirst(g, st, r.st, m) /\ r.out \in Seq(Talk)
      BY <1>7, <1>8, <3>1, <3>2, ReadFirst
    <3>5. /\ store'[c] = r.st
          /\ \A y \in Nodes : y # c => store'[y] = store[y] /\ hand'[y] = hand[y]
      BY <1>0, <3>3, PassAt
    <3>6. ASSUME NEW S, Talk \subseteq S, S \subseteq Sends, hand[c] \in Seq(HeldOf(S))
          PROVE  hand'[c] \in Seq(HeldOf(S))
      <4>1. r.out \in Seq(S)
        BY <3>4, <3>6, SeqMore
      <4> QED BY <1>0, <3>3, <3>6, <4>1, HeldMore
    <3> QED BY <3>4, <3>5, <3>6
  <2> QED BY <2>1, <2>2
<1>10. PICK s : s = store'[c]
  OBVIOUS
<1>11. PICK B, C : /\ B = {i \in Ids : st.idmap[i] # NoName}
                   /\ C = {i \in Ids : s.idmap[i] # NoName}
  OBVIOUS
<1>12. B = Bound(c) /\ C = Bound(c)'
  BY <1>0, <1>1, <1>6, <1>10, <1>11 DEF Bound
<1>13. PICK L \in Seq(Posts), K \in Seq(Posts) :
         /\ L = Line(c) /\ K = Line(c)' /\ K = Tail(L) /\ L # <<>> /\ L[1] = m
         /\ Len(K) = Len(L) - 1 /\ \A k \in DOMAIN K : K[k] = L[k + 1]
  <2>1. PICK X \in Seq(Posts), H \in Seq(Posts) :
          X = pendS[c].msgs /\ H = ComingTo(c, hand[Server]) /\ PostedTo(c) = A
    BY <1>1, <1>2, LineParts DEF Parts, PostedTo
  <2>2. Line(c) = A \o (X \o H) /\ Line(c)' = Tail(A) \o (X \o H)
    <3>1. PostedTo(c)' = Tail(A)
      BY <1>0, <1>1, <1>2 DEF PostedTo
    <3>2. pendS'[c].msgs = X /\ ComingTo(c, hand'[Server]) = H
      BY <1>0, <1>9, <2>1
    <3>3. Line(c) = A \o X \o H /\ Line(c)' = Tail(A) \o X \o H
      BY <2>1, <3>1, <3>2 DEF Line
    <3>4. A \o X \o H = A \o (X \o H)
      BY ConcatAssociative
    <3>5. Tail(A) \in Seq(Posts)
      BY <1>2, HeadTailProperties
    <3>6. PICK T \in Seq(Posts) : T = Tail(A)
      BY <3>5
    <3>7. T \o X \o H = T \o (X \o H)
      BY ConcatAssociative
    <3> QED BY <3>3, <3>4, <3>6, <3>7
  <2>3. PICK Z \in Seq(Posts) : Z = X \o H
    BY <2>1, Concat
  <2>4. A \o Z \in Seq(Posts) /\ Len(A \o Z) = Len(A) + Len(Z)
        /\ \A k \in 1 .. Len(A) : (A \o Z)[k] = A[k]
    BY JoinedAt
  <2>5. Tail(A \o Z) = Tail(A) \o Z
    BY <1>2, TailJoin
  <2>6. PICK L \in Seq(Posts) : L = A \o Z
    BY <2>4
  <2>7. Len(A) >= 1 /\ Len(A) \in Nat /\ Len(Z) \in Nat /\ A[1] = m
    BY <1>2, <1>3
  <2>8. L # <<>> /\ L[1] = m /\ Len(L) >= 1
    BY <2>4, <2>6, <2>7
  <2>9. PICK K \in Seq(Posts) : K = Tail(L)
    BY <2>8, HeadTailProperties
  <2>10. Len(K) = Len(L) - 1 /\ \A k \in DOMAIN K : K[k] = L[k + 1]
    BY <2>8, <2>9
  <2>11. L = Line(c) /\ K = Line(c)'
    BY <2>2, <2>3, <2>5, <2>6, <2>9
  <2> QED BY <2>8, <2>9, <2>10, <2>11
<1>14. ReadsFirst(g, st, s, m)
  BY <1>9, <1>10
<1>15. LineOK(g, c, C, K, store'[Server].idmap) /\ PendOK(pendS'[c])
  <2>1. PendOK(pendS[c]) /\ LineOK(g, c, B, L, store[Server].idmap)
    BY <1>1, <1>5, <1>12, <1>13 DEF OrderedAt, Listens
  <2>2. C \subseteq Ids
    BY <1>11
  <2>3. \A i \in Ids : i \in C => (i \in B \/ NamesId(L[1], i))
                                  /\ (Solo(g[i]) /\ i \in B => ~Frees(L[1], i))
    BY <1>11, <1>13, <1>14 DEF ReadsFirst
  <2>4. LineOK(g, c, C, K, store[Server].idmap)
    BY <1>0, <1>13, <2>1, <2>2, <2>3, FitsRead
  <2> QED BY <1>0, <1>9, <2>1, <2>4
<1>16. Listens(g, c)'
  BY <1>12, <1>13, <1>15 DEF Listens
<1>17. ClientActive(c)'
  BY <1>0, <1>1 DEF ClientActive
<1>18. OneIdEach(c)'
  <2>1. Means(g, s)
    BY <1>4, <1>10, <1>17 DEF Ready, Named, Agree, Heard
  <2>2. InTurn(g, c, C, K)
    BY <1>15 DEF LineOK, InOrder
  <2>3. s.idmap \in Namings /\ KeepsSolo(st, s)
    BY <1>14 DEF ReadsFirst
  <2>4. \A i \in Ids : s.idmap[i] # NoName /\ OneWriter(s.idmap[i]) => LeadsBack(s, i)
    BY <1>8, <1>11, <2>1, <2>2, <2>3, ReadOne
  <2> QED BY <1>10, <2>4 DEF OneIdEach
<1>19. Spoken(g, c, Reach(c))'
  <2>1. ASSUME NEW i \in Reach(c)' PROVE i \in Reach(c)
    <3>1. i \in ReachOf(C, K)
      BY <1>12, <1>13, <2>1 DEF Reach
    <3>2. CASE i \in C
      <4>1. i \in Ids /\ (i \in B \/ NamesId(m, i))
        BY <1>11, <1>14, <3>2 DEF ReadsFirst
      <4>2. 1 \in DOMAIN L
        BY <1>13, EmptySeq
      <4> QED BY <1>12, <1>13, <4>1, <4>2 DEF Reach, ReachOf
    <3>3. CASE i \notin C
      <4>1. PICK p \in DOMAIN K : i \in Ids /\ NamesId(K[p], i)
        BY <3>1, <3>3 DEF ReachOf
      <4>2. p + 1 \in DOMAIN L /\ K[p] = L[p + 1]
        BY <1>13, <4>1
      <4> QED BY <1>13, <4>1, <4>2 DEF Reach, ReachOf
    <3> QED BY <3>2, <3>3
  <2>2. Extends(g, g)
    BY DEF Extends
  <2>3. Fair(g, c, Reach(c)) \subseteq Fair(g, c, Reach(c)')
    BY <2>1, <2>2, FairMore
  <2>4. Spoken(g, c, Reach(c))
    BY <1>1, <1>5 DEF OrderedAt
  <2>5. PICK S : S = FairSends(g, c, Reach(c)')
    OBVIOUS
  <2>6. hand[c] \in Seq(HeldOf(S)) /\ S \subseteq Sends /\ Talk \subseteq S
    <3>1. hand[c] \in Seq(HeldOf(S))
      BY <2>3, <2>4, <2>5, FairWithin DEF Spoken
    <3>2. S \subseteq Sends
      BY <2>5 DEF FairSends
    <3>3. Talk \subseteq S
      BY <2>5, TalkIsFair
    <3> QED BY <3>1, <3>2, <3>3
  <2>7. hand'[c] \in Seq(HeldOf(S))
    BY <1>9, <2>6
  <2>8. /\ pendC'[c].msgs \in Seq(Fair(g, c, Reach(c)'))
        /\ toServer'[c] \in Seq(FairWires(g, c, Reach(c)'))
    BY <1>0, <2>3, <2>4, FairWithin DEF Spoken
  <2> QED BY <2>5, <2>7, <2>8 DEF Spoken
<1>20. OrderedAt(g, c)'
  BY <1>16, <1>17, <1>18, <1>19 DEF OrderedAt
<1>21. \A d \in Clients \ {c} : toClient'[d] = toClient[d]
  BY <1>0
<1>22. Ordered(g)'
  BY <1>0, <1>4, <1>9, <1>20, <1>21, OneClient DEF Ready
<1> QED BY <1>4, <1>22 DEF StaysOrdered, Ready

-----------------------------------------------------------------------------
\* Nothing is on its way to a client that the server does not speak to.
LEMMA OffLine ==
  ASSUME NEW g, NEW c, ~Synchronized(c)', OneIdEach(c)', pendC'[c].msgs = <<>>
  PROVE  OrderedAt(g, c)'
<1>1. ~ClientActive(c)'
  BY DEF Synchronized, ClientActive
<1> QED BY <1>1 DEF OrderedAt, Listens

LEMMA ConnectOrder ==
  ASSUME TablesInv, NEW f, Named(f), Ordered(f), Follows(f), NEW c \in Clients, Connect(c)
  PROVE  StaysOrdered
<1>1. PICK g : Ready(g)
  BY NextNaming
<1>2. OrderedAt(g, c) /\ Ordered(g) /\ Named(g)'
  BY <1>1 DEF Ready, Ordered
<1>3. /\ link[c] = "down" /\ link' = [link EXCEPT ![c] = "hello"]
      /\ UNCHANGED <<store, hand, pendC, pendS, toServer, toClient>>
  BY DEF Connect
<1>4. link \in [Clients -> {"down", "hello", "sent", "applied", "up"}]
  BY DEF TablesInv, NetInv
<1>5. OrderedAt(g, c)'
  <2>1. ~Synchronized(c)' /\ ~ClientActive(c)
    BY <1>3, <1>4 DEF Synchronized, ClientActive
  <2>2. OneIdEach(c)'
    BY <1>2, <1>3 DEF OrderedAt, OneIdEach, LeadsBack, Has
  <2>3. pendC'[c].msgs = <<>>
    BY <1>2, <1>3, <2>1 DEF OrderedAt
  <2> QED BY <2>1, <2>2, <2>3, OffLine
<1>6. Ordered(g)'
  <2>1. \A d \in Clients \ {c} : link'[d] = link[d]
    BY <1>3, <1>4
  <2> QED BY <1>2, <1>3, <1>5, <2>1, OneClient
<1> QED BY <1>2, <1>6 DEF StaysOrdered

LEMMA DisconnectOrder ==
  ASSUME TablesInv, NEW f, Named(f), Ordered(f), Follows(f), NEW c \in Clients, Disconnect(c)
  PROVE  StaysOrdered
<1>1. PICK g : Ready(g)
  BY NextNaming
<1>2. OrderedAt(g, c) /\ Ordered(g) /\ Named(g)'
  BY <1>1 DEF Ready, Ordered
<1>3. Lost({c}) /\ UNCHANGED <<store, hand>>
  BY DEF Disconnect
<1>4. /\ link'[c] = "down" /\ pendC'[c] = Q!NoPending
      /\ \A d \in Clients \ {c} :
           /\ toClient'[d] = toClient[d] /\ toServer'[d] = toServer[d] /\ link'[d] = link[d]
           /\ pendS'[d] = pendS[d] /\ pendC'[d] = pendC[d]
  BY <1>3 DEF Lost
<1>5. OrderedAt(g, c)'
  <2>1. ~Synchronized(c)'
    BY <1>4 DEF Synchronized
  <2>2. OneIdEach(c)'
    BY <1>2, <1>3 DEF OrderedAt, OneIdEach, LeadsBack, Has
  <2>3. pendC'[c].msgs = <<>>
    BY <1>4, NothingPends
  <2> QED BY <2>1, <2>2, <2>3, OffLine
<1>6. Ordered(g)'
  BY <1>2, <1>3, <1>4, <1>5, OneClient
<1> QED BY <1>2, <1>6 DEF StaysOrdered

\* Nothing happens that matters here.
LEMMA StillOrdered ==
  ASSUME TablesInv, NEW f, Named(f), Ordered(f), Follows(f), UNCHANGED <<hand, net>>,
         \A x \in Clients : store'[x] = store[x], store'[Server].idmap = store[Server].idmap
  PROVE  StaysOrdered
<1>1. PICK g : Ready(g)
  BY NextNaming
<1>2. UNCHANGED <<hand, pendC, pendS, toServer, toClient, link>>
  BY DEF net
<1>3. ASSUME NEW c \in Clients PROVE OrderedAt(g, c)'
  <2>1. OrderedAt(g, c)
    BY <1>1 DEF Ready, Ordered
  <2> QED BY <1>2, <2>1, OrderedSame
<1> QED BY <1>1, <1>3 DEF StaysOrdered, Ready, Ordered

LEMMA SavePersistentOrder ==
  ASSUME TablesInv, NEW f, Named(f), Ordered(f), Follows(f), SavePersistent
  PROVE  StaysOrdered
<1>1. store' = [store EXCEPT ![Server].dirty = FALSE] /\ UNCHANGED <<hand, net>>
  BY DEF SavePersistent
<1>2. store \in [Nodes -> Store] /\ Server \in Nodes /\ Server \notin Clients /\ Clients \subseteq Nodes
  BY ServerIsNode DEF TablesInv, NodeInv
<1>3. \A x \in Clients : store'[x] = store[x]
  BY <1>1, <1>2
<1>4. store'[Server].idmap = store[Server].idmap
  BY <1>1, <1>2 DEF Store
<1> QED BY <1>1, <1>3, <1>4, StillOrdered

\* A new server speaks to nobody yet.
LEMMA ServerRestartsOrder ==
  ASSUME TablesInv, NEW f, Named(f), Ordered(f), ServerRestarts
  PROVE  StaysOrdered
<1>1. IdsInv
  BY DEF IdsInv, Named
<1>2. PICK g : Named(g)'
  BY <1>1, ServerRestartsIds DEF IdsInv, Named
<1>3. Lost(Clients) /\ store' = [store EXCEPT ![Server] = Loaded(file)]
  BY DEF ServerRestarts
<1>4. ASSUME NEW c \in Clients PROVE OrderedAt(g, c)'
  <2>1. link'[c] = "down" /\ pendC'[c] = Q!NoPending
    BY <1>3 DEF Lost
  <2>2. store'[c] = store[c]
    BY <1>3, ServerIsNode DEF TablesInv, NodeInv
  <2>3. OneIdEach(c)
    BY DEF Ordered, OrderedAt
  <2>4. OneIdEach(c)'
    BY <2>2, <2>3 DEF OneIdEach, LeadsBack, Has
  <2>5. ~Synchronized(c)'
    BY <2>1 DEF Synchronized
  <2>6. pendC'[c].msgs = <<>>
    BY <2>1, NothingPends
  <2> QED BY <2>4, <2>5, <2>6, OffLine
<1> QED BY <1>2, <1>4 DEF StaysOrdered, Ordered

\* What is posted comes next.
LEMMA ClientPostsOrder ==
  ASSUME TablesInv, NEW f, Named(f), Ordered(f), Follows(f), NEW c \in Clients, ClientPosts(c)
  PROVE  StaysOrdered
<1>1. PICK g : Ready(g)
  BY NextNaming
<1>2. OrderedAt(g, c) /\ Ordered(g) /\ Named(g)'
  BY <1>1 DEF Ready, Ordered
<1>3. /\ ClientActive(c) /\ toServer' = [toServer EXCEPT ![c] = @ \o pendC[c].msgs]
      /\ pendC' = [pendC EXCEPT ![c] = Q!NoPending]
      /\ UNCHANGED <<store, hand, pendS, toClient, link>>
  BY DEF ClientPosts, Q!Posted
<1>4. toServer \in [Clients -> Seq(Wires)] /\ pendC \in [Clients -> Pending]
  BY DEF TablesInv, NetInv
<1>5. /\ Bound(c)' = Bound(c) /\ PostedTo(c)' = PostedTo(c)
      /\ (Synchronized(c)' <=> Synchronized(c)) /\ (ClientActive(c)' <=> ClientActive(c))
  BY <1>3, BoundSame
<1>6. Line(c)' = Line(c)
  BY <1>3, <1>5 DEF Line
<1>7. Reach(c)' = Reach(c)
  BY <1>5, <1>6 DEF Reach
<1>8. pendC'[c].msgs = <<>>
  BY <1>3, <1>4, NothingPends
<1>9. PICK R : R = Reach(c)
  OBVIOUS
<1>10. Spoken(g, c, R)
  BY <1>2, <1>3, <1>9 DEF OrderedAt
<1>11. toServer'[c] \in Seq(FairWires(g, c, R))
  <2>1. pendC[c].msgs \in Seq(FairWires(g, c, R))
    <3>1. Fair(g, c, R) \subseteq FairWires(g, c, R)
      BY DEF FairWires
    <3>2. pendC[c].msgs \in Seq(Fair(g, c, R))
      BY <1>10 DEF Spoken
    <3> QED BY <3>1, <3>2, SeqMore
  <2>2. toServer[c] \in Seq(FairWires(g, c, R))
    BY <1>10 DEF Spoken
  <2> QED BY <1>3, <1>4, <2>1, <2>2, Concat
<1>12. Spoken(g, c, Reach(c))'
  <2>1. hand'[c] \in Seq(HeldOf(FairSends(g, c, R)))
    BY <1>3, <1>10 DEF Spoken
  <2> QED BY <1>7, <1>8, <1>9, <1>11, <2>1, EmptySeq DEF Spoken
<1>13. OneIdEach(c)'
  BY <1>2, <1>3 DEF OrderedAt, OneIdEach, LeadsBack, Has
<1>14. Listens(g, c)'
  BY <1>2, <1>3, <1>5, <1>6 DEF OrderedAt, Listens
<1>15. OrderedAt(g, c)'
  BY <1>8, <1>12, <1>13, <1>14 DEF OrderedAt
<1>16. Ordered(g)'
  <2>1. \A d \in Clients \ {c} : toServer'[d] = toServer[d] /\ pendC'[d] = pendC[d]
    BY <1>3, <1>4
  <2> QED BY <1>2, <1>3, <1>15, <2>1, OneClient
<1> QED BY <1>2, <1>16 DEF StaysOrdered

LEMMA ServerPostsOrder ==
  ASSUME TablesInv, NEW f, Named(f), Ordered(f), Follows(f), NEW c \in Clients, ServerPosts(c)
  PROVE  StaysOrdered
<1>1. PICK g : Ready(g)
  BY NextNaming
<1>2. OrderedAt(g, c) /\ Ordered(g) /\ Named(g)'
  BY <1>1 DEF Ready, Ordered
<1>3. /\ link[c] = "up" /\ toClient' = [toClient EXCEPT ![c] = @ \o pendS[c].msgs]
      /\ pendS' = [pendS EXCEPT ![c] = Q!NoPending]
      /\ UNCHANGED <<store, hand, pendC, toServer, link>>
  BY DEF ServerPosts, Q!Posted
<1>4. toClient \in [Clients -> Seq(Wires)] /\ pendS \in [Clients -> Pending]
  BY DEF TablesInv, NetInv
<1>5. Synchronized(c)
  BY <1>3 DEF Synchronized
<1>6. /\ Bound(c)' = Bound(c)
      /\ (Synchronized(c)' <=> Synchronized(c)) /\ (ClientActive(c)' <=> ClientActive(c))
  BY <1>3 DEF Bound, Synchronized, ClientActive
<1>7. pendS'[c] = Q!NoPending /\ pendS'[c].msgs = <<>>
  BY <1>3, <1>4, NothingPends
<1>8. Line(c)' = Line(c)
  <2>1. PICK A, X, H : A = PostedTo(c) /\ X = pendS[c].msgs /\ H = ComingTo(c, hand[Server])
    OBVIOUS
  <2>2. A = toClient[c] /\ A \in Seq(Posts) /\ X \in Seq(Posts)
    BY <1>3, <1>5, <2>1, LineParts DEF PostedTo, Parts
  <2>3. PostedTo(c)' = A \o X
    BY <1>3, <1>4, <2>1, <2>2 DEF PostedTo
  <2>4. A \o X \in Seq(Posts)
    BY <2>2, Concat
  <2>5. (A \o X) \o <<>> = A \o X
    BY <2>4, ConcatEmptySeq
  <2>6. Line(c) = A \o X \o H
    BY <2>1 DEF Line
  <2>7. ComingTo(c, hand[Server])' = H
    BY <1>3, <2>1 DEF ComingTo, SentTo
  <2> QED BY <1>7, <2>3, <2>5, <2>6, <2>7 DEF Line
<1>9. Reach(c)' = Reach(c)
  BY <1>6, <1>8 DEF Reach
<1>10. Listens(g, c)'
  <2>1. PendOK(pendS[c]) /\ LineOK(g, c, Bound(c), Line(c), store[Server].idmap)
    BY <1>2, <1>5 DEF OrderedAt, Listens
  <2>2. PendOK(pendS'[c])
    BY <1>7, NothingKept
  <2> QED BY <1>3, <1>6, <1>8, <2>1, <2>2 DEF Listens
<1>11. ClientActive(c) => Spoken(g, c, Reach(c))'
  BY <1>2, <1>3, <1>9 DEF OrderedAt, Spoken
<1>12. OneIdEach(c)'
  BY <1>2, <1>3 DEF OrderedAt, OneIdEach, LeadsBack, Has
<1>13. OrderedAt(g, c)'
  BY <1>2, <1>3, <1>6, <1>10, <1>11, <1>12 DEF OrderedAt
<1>14. Ordered(g)'
  <2>1. \A d \in Clients \ {c} : toClient'[d] = toClient[d] /\ pendS'[d] = pendS[d]
    BY <1>3, <1>4
  <2> QED BY <1>2, <1>3, <1>13, <2>1, OneClient
<1> QED BY <1>2, <1>14 DEF StaysOrdered

-----------------------------------------------------------------------------
LEMMA FairMerges ==
  ASSUME NEW f, NEW c, NEW R, NEW old \in Fair(f, c, R), NEW m \in Fair(f, c, R),
         m \in Assigns \cup Updates
  PROVE  Q!MergeInto(old, m) \in Fair(f, c, R)
<1>1. PICK x : x = Q!MergeInto(old, m)
  OBVIOUS
<1>2. old \in Posts /\ x \in Posts
  BY <1>1, MergeType DEF Fair
<1>3. CASE old.type = "assign" /\ m.type = "update"
  <2>1. old \in Assigns
    BY <1>2, <1>3, PostTypes
  <2>2. x = [old EXCEPT !.seq = m.seq, !.value = m.value]
    BY <1>1, <1>3 DEF Q!MergeInto
  <2>3. x.type = old.type /\ x.id = old.id
    BY <2>1, <2>2 DEF Assigns
  <2> QED BY <1>1, <1>2, <1>3, <2>3 DEF Fair
<1>4. CASE ~(old.type = "assign" /\ m.type = "update")
  BY <1>4 DEF Q!MergeInto
<1> QED BY <1>3, <1>4

LEMMA FairNone ==
  ASSUME NEW f, NEW c, NEW R
  PROVE  Q!None \in Fair(f, c, R)
BY DEF Fair, Posts, Q!None

\* A client queues what it says; or drops it, when it is not connected.
LEMMA QueueClientOrder ==
  ASSUME TablesInv, NEW f, Named(f), Ordered(f), Follows(f),
         NEW c \in Clients, NEW k \in DOMAIN hand[c], Queue(c, k)
  PROVE  StaysOrdered
<1>1. PICK g : Ready(g)
  BY NextNaming
<1>2. OrderedAt(g, c) /\ Ordered(g) /\ Named(g)'
  BY <1>1 DEF Ready, Ordered
<1>3. /\ c \in Nodes /\ Server \in Nodes /\ c # Server /\ Clients \subseteq Nodes
      /\ hand \in [Nodes -> Seq(Held)] /\ pendC \in [Clients -> Pending]
  BY ServerIsNode DEF TablesInv, NodeInv, NetInv
<1>4. PICK held, h : held = hand[c] /\ h = held[k]
  OBVIOUS
<1>5. k \in 1 .. Len(held) /\ held \in Seq(Held) /\ h \in Held
  BY <1>3, <1>4
<1>6. /\ pendC' = [pendC EXCEPT ![c] = IF ClientActive(c) THEN Q!QueueOutgoing(@, Head(h.out).msg) ELSE @]
      /\ hand' = [hand EXCEPT ![c] = WithoutFirst(held, k)]
      /\ UNCHANGED <<store, pendS, toServer, toClient, link>>
  BY <1>3, <1>4 DEF Queue, QueueAt
<1>7. /\ Bound(c)' = Bound(c) /\ PostedTo(c)' = PostedTo(c)
      /\ (Synchronized(c)' <=> Synchronized(c)) /\ (ClientActive(c)' <=> ClientActive(c))
  BY <1>6, BoundSame
<1>8. hand'[Server] = hand[Server] /\ hand'[c] = WithoutFirst(held, k)
  BY <1>3, <1>6
<1>9. Line(c)' = Line(c)
  BY <1>6, <1>7, <1>8 DEF Line
<1>10. Reach(c)' = Reach(c)
  BY <1>7, <1>9 DEF Reach
<1>11. OneIdEach(c)'
  BY <1>2, <1>6 DEF OrderedAt, OneIdEach, LeadsBack, Has
<1>12. Listens(g, c)'
  BY <1>2, <1>6, <1>7, <1>9 DEF OrderedAt, Listens
<1>13. ASSUME ClientActive(c) PROVE Spoken(g, c, Reach(c))'
  <2>1. PICK R, S : R = Reach(c) /\ S = FairSends(g, c, R)
    OBVIOUS
  <2>2. Spoken(g, c, R)
    BY <1>2, <1>13, <2>1 DEF OrderedAt
  <2>3. held \in Seq(HeldOf(S)) /\ S \subseteq Sends
    BY <1>4, <2>1, <2>2 DEF Spoken, FairSends
  <2>4. WithoutFirst(held, k) \in Seq(HeldOf(S))
    BY <1>5, <2>3, WithoutFirstWithin
  <2>5. PICK m : m = Head(h.out).msg
    OBVIOUS
  <2>6. m \in Fair(g, c, R) /\ m \in Msgs
    <3>1. h \in HeldOf(S)
      BY <1>4, <1>5, <2>3
    <3>2. h.out \in Seq(S) /\ h.out # <<>>
      BY <3>1 DEF HeldOf, Held
    <3>3. Head(h.out) \in S
      BY <3>2, HeadTailProperties
    <3> QED BY <2>1, <2>5, <3>3 DEF FairSends, Sends
  <2>7. Q!QueueOutgoing(pendC[c], m).msgs \in Seq(Fair(g, c, R))
    <3>1. pendC[c] \in Pending /\ pendC[c].msgs \in Seq(Fair(g, c, R))
      BY <1>3, <2>2 DEF Spoken
    <3>2. m \in Assigns \cup Updates => \A old \in Fair(g, c, R) : Q!MergeInto(old, m) \in Fair(g, c, R)
      BY <2>6, FairMerges
    <3> QED BY <2>6, <3>1, <3>2, FairNone, QueueWithin
  <2>8. pendC'[c].msgs \in Seq(Fair(g, c, R))
    BY <1>3, <1>6, <1>13, <2>5, <2>7
  <2>9. toServer'[c] \in Seq(FairWires(g, c, R))
    BY <1>6, <2>2 DEF Spoken
  <2>10. Reach(c)' = R
    BY <1>10, <2>1
  <2> QED BY <1>8, <2>1, <2>4, <2>8, <2>9, <2>10 DEF Spoken
<1>14. ASSUME ~ClientActive(c) PROVE pendC'[c].msgs = <<>>
  BY <1>2, <1>3, <1>6, <1>14 DEF OrderedAt
<1>15. OrderedAt(g, c)'
  BY <1>7, <1>11, <1>12, <1>13, <1>14 DEF OrderedAt
<1>16. Ordered(g)'
  <2>1. \A d \in Clients \ {c} : hand'[d] = hand[d] /\ pendC'[d] = pendC[d]
    BY <1>3, <1>6
  <2> QED BY <1>2, <1>6, <1>8, <1>15, <2>1, OneClient
<1> QED BY <1>2, <1>16 DEF StaysOrdered

\* What is queued names no other ids.
LEMMA QueuedNames ==
  ASSUME NEW X \in Seq(Posts), NEW Y \in Seq(Posts), NEW m \in Msgs, Queued(X, Y, m),
         NEW r \in 1 .. Len(Y), NEW i \in Ids, NamesId(Y[r], i)
  PROVE  NamesId(m, i) \/ \E s \in 1 .. Len(X) : NamesId(X[s], i)
<1>0. ~NamesId(Q!None, i)
  BY DEF NamesId, Q!None
<1>1. CASE Y = Append(X, m)
  <2>1. (r \in 1 .. Len(X) /\ Y[r] = X[r]) \/ Y[r] = m
    BY <1>1
  <2> QED BY <2>1
<1>2. CASE MergedIn(X, Y, m)
  <2>1. r \in 1 .. Len(X)
    BY <1>2 DEF MergedIn
  <2> QED BY <1>2, <2>1 DEF MergedIn
<1>3. CASE Struck(X, Y, m)
  <2>1. r \in 1 .. Len(X) \/ r = Len(X) + 1
    BY <1>3 DEF Struck
  <2> QED BY <1>0, <1>3, <2>1 DEF Struck
<1>4. CASE Wiped(X, Y, m)
  <2>1. r \in 1 .. Len(X) \/ r = Len(X) + 1
    BY <1>4 DEF Wiped
  <2> QED BY <1>0, <1>4, <2>1 DEF Wiped
<1> QED BY <1>1, <1>2, <1>3, <1>4 DEF Queued

LEMMA ReachFewer ==
  ASSUME NEW B, NEW A, NEW X, NEW Y, NEW G, NEW H, NEW L, NEW K,
         Parts(L, A, X, G), Parts(K, A, Y, H),
         Len(G) = Len(H) + 1, \A k \in 1 .. Len(H) : H[k] = G[k + 1],
         \A r \in 1 .. Len(Y), i \in Ids : NamesId(Y[r], i) =>
           NamesId(G[1], i) \/ \E s \in 1 .. Len(X) : NamesId(X[s], i)
  PROVE  ReachOf(B, K) \subseteq ReachOf(B, L)
<1>1. SUFFICES ASSUME NEW i \in Ids, NEW p \in DOMAIN K, NamesId(K[p], i)
               PROVE  \E q \in DOMAIN L : NamesId(L[q], i)
  BY DEF ReachOf
<1>2. PICK a, x, y, n : a = Len(A) /\ x = Len(X) /\ y = Len(Y) /\ n = Len(H)
  OBVIOUS
<1>3. a \in Nat /\ x \in Nat /\ y \in Nat /\ n \in Nat
  BY <1>2 DEF Parts
<1>4. /\ L \in Seq(Posts) /\ K \in Seq(Posts)
      /\ Len(L) = a + x + n + 1 /\ Len(K) = a + y + n
      /\ DOMAIN L = 1 .. Len(L) /\ DOMAIN K = 1 .. Len(K)
  BY <1>2, <1>3 DEF Parts
<1>5. CASE p <= a
  <2>1. p \in 1 .. a /\ p \in DOMAIN L
    BY <1>3, <1>4, <1>5
  <2>2. K[p] = A[p] /\ L[p] = A[p]
    BY <1>2, <2>1 DEF Parts
  <2> QED BY <1>1, <2>1, <2>2
<1>6. CASE a < p /\ p <= a + y
  <2>1. PICK r \in 1 .. y : p = a + r
    <3>1. p - a \in 1 .. y /\ p = a + (p - a)
      BY <1>3, <1>4, <1>6
    <3> QED BY <3>1
  <2>2. K[p] = Y[r]
    BY <1>2, <2>1 DEF Parts
  <2>3. CASE NamesId(G[1], i)
    <3>1. L[a + x + 1] = G[1]
      BY <1>2, <1>3 DEF Parts
    <3>2. a + x + 1 \in DOMAIN L
      BY <1>3, <1>4
    <3> QED BY <2>3, <3>1, <3>2
  <2>4. CASE \E s \in 1 .. Len(X) : NamesId(X[s], i)
    <3>1. PICK s \in 1 .. x : NamesId(X[s], i)
      BY <1>2, <2>4
    <3>2. L[a + s] = X[s]
      BY <1>2, <3>1 DEF Parts
    <3>3. a + s \in DOMAIN L
      BY <1>3, <1>4, <3>1
    <3> QED BY <3>1, <3>2, <3>3
  <2> QED BY <1>1, <1>2, <2>1, <2>2, <2>3, <2>4
<1>7. CASE a + y < p
  <2>1. PICK k \in 1 .. n : p = a + y + k
    <3>1. p - (a + y) \in 1 .. n /\ p = a + y + (p - (a + y))
      BY <1>3, <1>4, <1>7
    <3> QED BY <3>1
  <2>2. K[p] = H[k]
    BY <1>2, <2>1 DEF Parts
  <2>3. H[k] = G[k + 1]
    BY <1>2, <2>1
  <2>4. L[a + x + (k + 1)] = G[k + 1]
    BY <1>2, <1>3, <2>1 DEF Parts
  <2>5. a + x + (k + 1) \in DOMAIN L
    <3>1. PICK m : m = Len(L)
      OBVIOUS
    <3>2. m = a + x + n + 1 /\ DOMAIN L = 1 .. m
      BY <1>4, <3>1
    <3>3. a + x + (k + 1) \in 1 .. (a + x + n + 1)
      BY <1>3, <2>1
    <3> QED BY <3>2, <3>3
  <2> QED BY <1>1, <2>2, <2>3, <2>4, <2>5
<1> QED BY <1>3, <1>4, <1>5, <1>6, <1>7

\* When each holds one message, queueing the first is taking it away.
LEMMA WithoutFirstIsTail ==
  ASSUME NEW held \in Seq(Held), held # <<>>, Len(held[1].out) = 1,
         NEW rest, rest = WithoutFirst(held, 1)
  PROVE  Len(held) = Len(rest) + 1 /\ \A k \in 1 .. Len(rest) : rest[k] = held[k + 1]
<1>1. rest = SubSeq(held, 1, 0) \o SubSeq(held, 2, Len(held))
  BY DEF WithoutFirst
<1>2. PICK n \in Nat : n = Len(held)
  OBVIOUS
<1>3. n >= 1
  BY <1>2
<1>4. PICK a, b : a = SubSeq(held, 1, 0) /\ b = SubSeq(held, 2, n)
  OBVIOUS
<1>5. a \in Seq(Held) /\ Len(a) = 0
  <2>1. 1 - 1 <= 0
    OBVIOUS
  <2> QED BY <1>4, SubSeqProperties
<1>6. b \in Seq(Held) /\ Len(b) = n - 1 /\ \A k \in 1 .. (n - 1) : b[k] = held[k + 1]
  <2>1. b \in Seq(Held) /\ Len(b) = n - 1
    BY <1>2, <1>3, <1>4, SubSeqProperties
  <2>2. ASSUME NEW k \in 1 .. (n - 1) PROVE b[k] = held[k + 1]
    BY <1>2, <1>3, <1>4, <2>1, SubSeqProperties
  <2> QED BY <2>1, <2>2
<1>7. a \o b = b
  BY <1>5, <1>6, EmptySeq, ConcatEmptySeq
<1> QED BY <1>1, <1>2, <1>3, <1>4, <1>6, <1>7

\* The server queues its first message for one client.
LEMMA QueueServerAt ==
  ASSUME TablesInv, TablesInv', NEW g, NEW c \in Clients, OrderedAt(g, c),
         hand[Server] # <<>>, Len(hand[Server][1].out) = 1, Queue(Server, 1)
  PROVE  OrderedAt(g, c)'
<1>0. /\ c \in Nodes /\ Server \in Nodes /\ c # Server
      /\ hand \in [Nodes -> Seq(Held)] /\ pendS \in [Clients -> Pending] /\ pendS' \in [Clients -> Pending]
      /\ hand' \in [Nodes -> Seq(Held)]
  BY ServerIsNode DEF TablesInv, NodeInv, NetInv
<1>1. PICK held, rest, h, s : /\ held = hand[Server] /\ rest = hand'[Server]
                              /\ h = held[1] /\ s = Head(h.out)
  OBVIOUS
<1>2. /\ rest = WithoutFirst(held, 1) /\ hand'[c] = hand[c]
      /\ pendS'[c] = IF Synchronized(c) /\ ~(s.forward /\ h.conn = c)
                     THEN Q!QueueOutgoing(pendS[c], s.msg) ELSE pendS[c]
      /\ UNCHANGED <<store, pendC, toServer, toClient, link>>
  BY <1>0, <1>1 DEF Queue, QueueAt
<1>3. held \in Seq(Held) /\ rest \in Seq(Held) /\ held # <<>> /\ h \in Held /\ 1 \in DOMAIN held
  BY <1>0, <1>1
<1>4. Len(held) = Len(rest) + 1 /\ \A k \in 1 .. Len(rest) : rest[k] = held[k + 1]
  BY <1>1, <1>2, <1>3, WithoutFirstIsTail
<1>5. s = h.out[1] /\ s.msg \in Msgs
  <2>1. h.out \in Seq(Sends) /\ h.out # <<>>
    BY <1>3 DEF Held
  <2>2. Head(h.out) = h.out[1] /\ Head(h.out) \in Sends
    BY <2>1, HeadTailProperties
  <2> QED BY <1>1, <2>2 DEF Sends
<1>6. /\ Bound(c)' = Bound(c) /\ PostedTo(c)' = PostedTo(c)
      /\ (Synchronized(c)' <=> Synchronized(c)) /\ (ClientActive(c)' <=> ClientActive(c))
  BY <1>2, BoundSame
<1>7. ASSUME Synchronized(c)
      PROVE  /\ PendOK(pendS'[c]) /\ LineOK(g, c, Bound(c), Line(c)', store[Server].idmap)
             /\ Reach(c)' \subseteq Reach(c)
  <2>1. PendOK(pendS[c]) /\ LineOK(g, c, Bound(c), Line(c), store[Server].idmap)
    BY <1>7, OrderedAt(g, c) DEF OrderedAt, Listens
  <2>2. PICK A, X, Y, G, H : /\ A = PostedTo(c) /\ X = pendS[c].msgs /\ Y = pendS'[c].msgs
                             /\ G = ComingTo(c, held) /\ H = ComingTo(c, rest)
    OBVIOUS
  <2>3. PICK L, K : L = Line(c) /\ K = Line(c)'
    OBVIOUS
  <2>4. Parts(L, A, X, G)
    BY <1>1, <1>7, <2>2, <2>3, LineParts
  <2>5. /\ G \in Seq(Posts) /\ Len(G) = Len(held) /\ \A k \in 1 .. Len(held) : G[k] = SentTo(c, held[k])
        /\ H \in Seq(Posts) /\ Len(H) = Len(rest) /\ \A k \in 1 .. Len(rest) : H[k] = SentTo(c, rest[k])
    BY <1>3, <2>2, ComingTyped
  <2>6. Parts(K, A, Y, H)
    <3>1. K = A \o Y \o H
      BY <1>1, <1>6, <2>2, <2>3 DEF Line
    <3>2. A \in Seq(Posts)
      BY <2>4 DEF Parts
    <3>3. Y \in Seq(Posts)
      BY <1>0, <2>2 DEF Pending
    <3> QED BY <2>5, <3>1, <3>2, <3>3, PartsOf
  <2>7. Len(G) = Len(H) + 1 /\ \A k \in 1 .. Len(H) : H[k] = G[k + 1]
    <3>1. ASSUME NEW k \in 1 .. Len(H) PROVE H[k] = G[k + 1]
      <4>1. k \in 1 .. Len(rest) /\ k + 1 \in 1 .. Len(held)
        BY <1>3, <1>4, <2>5
      <4> QED BY <1>4, <2>5, <4>1
    <3> QED BY <1>4, <2>5, <3>1
  <2>8. G[1] = IF s.forward /\ h.conn = c THEN Q!None ELSE s.msg
    BY <1>1, <1>3, <1>5, <2>5 DEF SentTo
  <2>9. PICK B, idmap : B = Bound(c) /\ idmap = store[Server].idmap
    OBVIOUS
  <2>10. LineOK(g, c, B, L, idmap)
    BY <2>1, <2>3, <2>9
  <2>11. CASE s.forward /\ h.conn = c
    <3>1. pendS'[c] = pendS[c] /\ Y = X /\ G[1] = Q!None
      BY <1>2, <2>2, <2>8, <2>11
    <3>2. Parts(K, A, X, H)
      BY <2>6, <3>1
    <3>3. LineOK(g, c, B, K, idmap)
      BY <2>4, <2>7, <2>10, <3>1, <3>2, LineSkipped
    <3>4. ReachOf(B, K) \subseteq ReachOf(B, L)
      <4>1. \A r \in 1 .. Len(X), i \in Ids : NamesId(X[r], i) =>
              NamesId(G[1], i) \/ \E q \in 1 .. Len(X) : NamesId(X[q], i)
        OBVIOUS
      <4> QED BY <2>4, <2>7, <3>2, <4>1, ReachFewer
    <3> QED BY <1>6, <2>1, <2>3, <2>9, <3>1, <3>3, <3>4 DEF Reach
  <2>12. CASE ~(s.forward /\ h.conn = c)
    <3>1. PICK m \in Msgs : m = s.msg
      BY <1>5
    <3>2. pendS'[c] = Q!QueueOutgoing(pendS[c], m) /\ G[1] = m
      BY <1>2, <1>7, <2>8, <2>12, <3>1
    <3>3. PendOK(pendS'[c]) /\ Queued(X, Y, m)
      <4>1. PICK p, q : p = pendS[c] /\ q = pendS'[c] /\ p \in Pending
        BY <1>0
      <4>2. PendOK(q) /\ Queued(p.msgs, q.msgs, m)
        BY <2>1, <3>2, <4>1, QueueOutcome
      <4> QED BY <2>2, <4>1, <4>2
    <3>4. LineOK(g, c, B, K, idmap)
      BY <2>4, <2>6, <2>7, <2>10, <3>2, <3>3, LineQueued
    <3>5. ReachOf(B, K) \subseteq ReachOf(B, L)
      <4>1. X \in Seq(Posts) /\ Y \in Seq(Posts)
        BY <2>4, <2>6 DEF Parts
      <4>2. \A r \in 1 .. Len(Y), i \in Ids : NamesId(Y[r], i) =>
              NamesId(G[1], i) \/ \E q \in 1 .. Len(X) : NamesId(X[q], i)
        BY <3>2, <3>3, <4>1, QueuedNames
      <4> QED BY <2>4, <2>6, <2>7, <4>2, ReachFewer
    <3> QED BY <1>6, <2>3, <2>9, <3>3, <3>4, <3>5 DEF Reach
  <2> QED BY <2>11, <2>12
<1>8. OneIdEach(c)'
  BY <1>2, OrderedAt(g, c) DEF OrderedAt, OneIdEach, LeadsBack, Has
<1>9. Listens(g, c)'
  BY <1>2, <1>6, <1>7 DEF Listens
<1>10. ASSUME ClientActive(c) PROVE Spoken(g, c, Reach(c))'
  <2>1. Synchronized(c)
    BY <1>10 DEF ClientActive, Synchronized
  <2>2. PICK R, S : R = Reach(c) /\ S = Reach(c)'
    OBVIOUS
  <2>3. Fair(g, c, R) \subseteq Fair(g, c, S)
    <3>1. S \subseteq R
      BY <1>7, <2>1, <2>2
    <3>2. Extends(g, g)
      BY DEF Extends
    <3> QED BY <3>1, <3>2, FairMore
  <2>4. Spoken(g, c, R)
    BY <1>10, <2>2, OrderedAt(g, c) DEF OrderedAt
  <2>5. Spoken(g, c, S)
    BY <2>3, <2>4, SpokenMore
  <2> QED BY <1>2, <2>2, <2>5 DEF Spoken
<1> QED BY <1>2, <1>6, <1>8, <1>9, <1>10, OrderedAt(g, c) DEF OrderedAt

LEMMA QueueServerOrder ==
  ASSUME TablesInv, TablesInv', NEW f, Named(f), Ordered(f), Follows(f),
         hand[Server] # <<>>, Len(hand[Server][1].out) = 1, Queue(Server, 1)
  PROVE  StaysOrdered
<1>1. PICK g : Ready(g)
  BY NextNaming
<1>2. ASSUME NEW c \in Clients PROVE OrderedAt(g, c)'
  <2>1. OrderedAt(g, c)
    BY <1>1 DEF Ready, Ordered
  <2> QED BY <2>1, QueueServerAt
<1> QED BY <1>1, <1>2 DEF StaysOrdered, Ready, Ordered

-----------------------------------------------------------------------------
\* What a client says when it has applied the snapshot of a new server.
LEMMA ApplySpeaks ==
  ASSUME NEW st, Good(st), ~IsServer(st), NEW msgs \in Seq(Answers),
         NEW r, r = ApplyInitialAssignments(st, msgs, TRUE)
  PROVE  /\ r.out = <<>> /\ r.requests \in Seq({m \in Assigns : m.id = NoId})
         /\ Bare(st) /\ (\A k \in DOMAIN msgs : BareMsg(msgs[k])) =>
              Bare(r.st) /\ r.requests \in Seq({m \in Assigns : m.id = NoId /\ BareMsg(m)})
<1> DEFINE theirs(n) == CHOOSE m \in InitialFor(msgs, n) : TRUE
           known == {n \in Names : InitialFor(msgs, n) # {}}
           unassigned == Present(st) \ known
           won == {k \in known : TheirsWins(st.entries[k], theirs(k), TRUE)}
           kept == {k \in known : ~TheirsWins(st.entries[k], theirs(k), TRUE)}
           es == [n \in Names |->
                    IF n \in known THEN Merged(st.entries[n], theirs(n), TRUE)
                    ELSE [st.entries[n] EXCEPT !.id = NoId]]
           im == [i \in Ids |-> IF \E n \in known : theirs(n).id = i
                                THEN CHOOSE n \in known : theirs(n).id = i ELSE NoName]
           top == {m.id + 1 : m \in ToSet(msgs)} \cup {0}
           z == CHOOSE t \in top : \A u \in top : u <= t
           told(n) == Note(n, theirs(n).value, {IF Has(st, n) THEN "update" ELSE "new"})
           upd(n) == ToAll(EntryUpdate(NoId, st.entries[n].seq, st.entries[n].value))
           notes == SetToSeq({told(n) : n \in won})
           out == SetToSeq({upd(n) : n \in kept})
           requests == SetToSeq({AssignOf(n, es[n]) : n \in unassigned})
           s == [st EXCEPT !.entries = es, !.idmap = im, !.size = z]
<1>0. r.st = s /\ r.out = out /\ r.requests = requests
  BY DEF ApplyInitialAssignments
<1>1. st \in Store /\ st.entries \in [Names -> Entry]
  BY DEF Good, Store
<1>2. ToSet(msgs) \subseteq Answers
  BY DEF ToSet
<1>3. ASSUME NEW n \in known
      PROVE  theirs(n) \in Answers /\ theirs(n) \in ToSet(msgs)
  <2>1. theirs(n) \in InitialFor(msgs, n)
    OBVIOUS
  <2> HIDE DEF theirs
  <2> QED BY <1>2, <2>1 DEF InitialFor
<1>4. known \subseteq Names /\ unassigned \subseteq Present(st) /\ unassigned \cap known = {}
      /\ Present(st) \subseteq Names
  BY DEF Present
<1>5. out = <<>>
  <2>1. kept = {}
    BY DEF TheirsWins
  <2>2. {upd(n) : n \in kept} = {}
    BY <2>1
  <2>3. out = SetToSeq({})
    BY <2>2
  <2>4. IsFiniteSet({})
    BY FS_EmptySet
  <2> HIDE DEF out
  <2>5. out \in Seq({})
    BY <2>3, <2>4, SetSeq
  <2> QED BY <2>5, EmptySeq
<1>6. \A n \in Names : es[n] = IF n \in known THEN Merged(st.entries[n], theirs(n), TRUE)
                               ELSE [st.entries[n] EXCEPT !.id = NoId]
  OBVIOUS
<1> HIDE DEF theirs, known, unassigned, won, kept, es, im, z
<1>7. ASSUME NEW n \in unassigned
      PROVE  /\ AssignOf(n, es[n]) \in Assigns /\ AssignOf(n, es[n]).id = NoId
             /\ Bare(st) => AssignOf(n, es[n]).flags = 0
  <2>1. n \in Names /\ n \notin known /\ Has(st, n)
    BY <1>4 DEF Present
  <2>2. es[n] = [st.entries[n] EXCEPT !.id = NoId]
    BY <1>6, <2>1
  <2>3. st.entries[n] \in Entry /\ st.entries[n].value \in Values
    BY <1>1, <2>1, EntryTypes
  <2>4. es[n] \in Entry /\ es[n].value \in Values /\ es[n].id = NoId /\ es[n].flags = st.entries[n].flags
    BY <2>2, <2>3 DEF Entry
  <2> QED BY <2>1, <2>4, AssignIsMsg DEF AssignOf, EntryAssign, Bare
<1>8. ASSUME Bare(st), \A k \in DOMAIN msgs : BareMsg(msgs[k]), NEW n \in Names
      PROVE  es[n].flags = 0
  <2>1. st.entries[n] \in Entry /\ st.entries[n].flags = 0
    BY <1>1, <1>8 DEF Bare
  <2>2. CASE n \in known
    <3>1. es[n] = [value |-> theirs(n).value, flags |-> theirs(n).flags,
                   id |-> theirs(n).id, seq |-> theirs(n).seq]
      BY <1>6, <2>2 DEF Merged, TheirsWins
    <3>2. theirs(n).type = "assign" /\ \E k \in DOMAIN msgs : theirs(n) = msgs[k]
      BY <1>3, <2>2 DEF Answers, Assigns, ToSet
    <3>3. theirs(n).flags = 0
      BY <1>8, <3>2 DEF BareMsg
    <3> QED BY <3>1, <3>3
  <2>3. CASE n \notin known
    BY <1>6, <2>1, <2>3 DEF Entry
  <2> QED BY <2>2, <2>3
<1>9. s.entries = es
  BY <1>1 DEF Store
<1>10. \A T : (\A n \in unassigned : AssignOf(n, es[n]) \in T) => requests \in Seq(T)
  <2> DEFINE S == {AssignOf(n, es[n]) : n \in unassigned}
             f == [n \in unassigned |-> AssignOf(n, es[n])]
  <2>1. unassigned \subseteq Names
    BY <1>4
  <2>2. IsFiniteSet(S)
    <3>1. f \in [unassigned -> S] /\ \A x \in S : \E n \in unassigned : f[n] = x
      OBVIOUS
    <3> HIDE DEF f, S
    <3> QED BY <2>1, <3>1, FiniteOver
  <2>3. \A T : (\A n \in unassigned : AssignOf(n, es[n]) \in T) => S \subseteq T
    OBVIOUS
  <2>4. requests = SetToSeq(S)
    OBVIOUS
  <2> HIDE DEF S, requests
  <2>5. requests \in Seq(S)
    BY <2>2, <2>4, SetSeq
  <2> QED BY <2>3, <2>5, SeqMore
<1> HIDE DEF s, notes, out, requests
<1>11. requests \in Seq({m \in Assigns : m.id = NoId})
  BY <1>7, <1>10
<1>12. ASSUME Bare(st), \A k \in DOMAIN msgs : BareMsg(msgs[k])
       PROVE  Bare(r.st) /\ requests \in Seq({m \in Assigns : m.id = NoId /\ BareMsg(m)})
  <2>1. Bare(r.st)
    BY <1>8, <1>9, <1>0, <1>12 DEF Bare
  <2>2. \A n \in unassigned : AssignOf(n, es[n]) \in {m \in Assigns : m.id = NoId /\ BareMsg(m)}
    BY <1>7, <1>12 DEF BareMsg
  <2> QED BY <1>10, <2>1, <2>2
<1> QED BY <1>5, <1>0, <1>11, <1>12

\* The server speaks to one more client.
LEMMA SendInitialOrder ==
  ASSUME TablesInv, NEW f, Named(f), Ordered(f), Follows(f),
         NEW c \in Clients, SendInitial(c), hand[Server] = <<>>
  PROVE  StaysOrdered
<1>1. PICK g : Ready(g)
  BY NextNaming
<1>2. OrderedAt(g, c) /\ Ordered(g) /\ Named(g)' /\ Means(g, store[Server])
  BY <1>1 DEF Ready, Ordered
<1>3. PICK st, snap : st = store[Server] /\ snap = GetInitialAssignments(st)
  OBVIOUS
<1>4. /\ link[c] = "hello" /\ link' = [link EXCEPT ![c] = "sent"]
      /\ toClient' = [toClient EXCEPT ![c] = <<Initial(snap)>>]
      /\ UNCHANGED <<store, hand, pendC, pendS, toServer>>
  BY <1>3 DEF SendInitial
<1>5. /\ link \in [Clients -> {"down", "hello", "sent", "applied", "up"}]
      /\ toClient \in [Clients -> Seq(Wires)]
      /\ pendS[c] = Q!NoPending
  BY <1>4 DEF TablesInv, NetInv, StreamsAgree
<1>6. Good(st) /\ IsServer(st)
  BY <1>3, ServerIsNode DEF TablesInv, NodeInv
<1>7. snap \in Seq(Answers) /\ \A k \in DOMAIN snap : Says(st.idmap, snap[k])
  BY <1>3, <1>6, InitialFacts, InitialSays
<1>8. link'[c] = "sent" /\ toClient'[c] = <<Initial(snap)>>
  BY <1>4, <1>5
<1>9. PICK B : B = Bound(c)'
  OBVIOUS
<1>10. B = {snap[k].id : k \in DOMAIN snap}
  <2>1. Head(toClient'[c]).msgs = snap
    BY <1>8 DEF Initial
  <2> QED BY <1>8, <1>9, <2>1 DEF Bound
<1>11. \A i \in B : i \in Ids /\ st.idmap[i] \in Names
  <2>1. ASSUME NEW k \in DOMAIN snap PROVE snap[k].id \in Ids /\ st.idmap[snap[k].id] \in Names
    <3>1. snap[k] \in Answers
      BY <1>7
    <3> QED BY <1>7, <3>1 DEF Answers, Assigns, Says
  <2> QED BY <1>10, <2>1
<1>12. LineOK(g, c, B, <<>>, st.idmap)
  <2>1. \A i \in B : g[i] # NoName /\ st.idmap[i] = g[i]
    BY <1>2, <1>3, <1>11, StorageAssumption DEF Means
  <2>2. \A i, j \in B : st.idmap[i] = st.idmap[j] => i = j
    BY <1>6, <1>11, OneName, StorageAssumption
  <2> QED BY <1>11, <2>1, <2>2, LineStart
<1>13. Line(c)' = <<>>
  <2>1. PostedTo(c)' = <<>>
    BY <1>8 DEF PostedTo
  <2>2. pendS'[c].msgs = <<>>
    BY <1>4, <1>5, NothingPends
  <2>3. ComingTo(c, hand'[Server]) = <<>>
    <3>1. PICK held \in Seq(Held) : held = <<>>
      BY EmptySeq
    <3>2. ComingTo(c, held) \in Seq(Posts) /\ Len(ComingTo(c, held)) = 0
      BY <3>1, ComingTyped
    <3> QED BY <1>4, <3>1, <3>2, EmptySeq
  <2>4. Line(c)' = <<>> \o <<>> \o <<>>
    BY <2>1, <2>2, <2>3 DEF Line
  <2> QED BY <2>4, EmptySeq, ConcatEmptySeq
<1>14. Listens(g, c)'
  BY <1>3, <1>4, <1>5, <1>9, <1>12, <1>13, NothingKept DEF Listens
<1>15. ~ClientActive(c) /\ ~ClientActive(c)'
  BY <1>4, <1>8 DEF ClientActive
<1>16. OneIdEach(c)'
  BY <1>2, <1>4 DEF OrderedAt, OneIdEach, LeadsBack, Has
<1>17. OrderedAt(g, c)'
  BY <1>2, <1>4, <1>14, <1>15, <1>16 DEF OrderedAt
<1>18. Ordered(g)'
  <2>1. \A d \in Clients \ {c} : link'[d] = link[d] /\ toClient'[d] = toClient[d]
    BY <1>4, <1>5
  <2> QED BY <1>2, <1>4, <1>17, <2>1, OneClient
<1> QED BY <1>2, <1>18 DEF StaysOrdered

\* A client takes its ids from the snapshot alone, and asks for new ones.
LEMMA ApplyInitialOrder ==
  ASSUME TablesInv, NEW f, Named(f), Ordered(f), Follows(f),
         NEW c \in Clients, ApplyInitial(c), hand[c] = <<>>
  PROVE  StaysOrdered
<1>1. PICK g : Ready(g)
  BY NextNaming
<1>2. OrderedAt(g, c) /\ Ordered(g) /\ Named(g)'
  BY <1>1 DEF Ready, Ordered
<1>3. /\ NodeInv /\ c \in Nodes /\ Server \in Nodes /\ c # Server /\ Clients \subseteq Nodes
      /\ hand \in [Nodes -> Seq(Held)]
  BY ServerIsNode DEF TablesInv, NodeInv
<1>4. /\ link \in [Clients -> {"down", "hello", "sent", "applied", "up"}]
      /\ toClient \in [Clients -> Seq(Wires)] /\ toServer \in [Clients -> Seq(Wires)]
  BY DEF TablesInv, NetInv
<1>5. PICK st, msgs, r : /\ st = store[c] /\ msgs = Head(toClient[c]).msgs
                         /\ r = ApplyInitialAssignments(st, msgs, TRUE)
  OBVIOUS
<1>6. /\ link[c] = "sent" /\ toClient[c] # <<>>
      /\ Pass(c, "reader", "none", r)
      /\ toServer' = [toServer EXCEPT ![c] = <<Reply(r.requests)>>]
      /\ toClient' = [toClient EXCEPT ![c] = Tail(@)]
      /\ link' = [link EXCEPT ![c] = "applied"]
      /\ UNCHANGED <<pendC, pendS>>
  BY <1>5 DEF ApplyInitial, NewServer
<1>7. Head(toClient[c]) \in Initials /\ Tail(toClient[c]) = <<>>
  BY <1>6 DEF TablesInv, NetInv, StreamsAgree
<1>8. msgs \in Seq(Answers) /\ Head(toClient[c]).type = "initial"
  BY <1>5, <1>7 DEF Initials
<1>9. \A k \in DOMAIN msgs : Says(f, msgs[k])
  <2>1. toClient[c] \in Seq(SaidWires(f))
    BY DEF Named, Agree, Heard
  <2>2. Head(toClient[c]) \in SaidWires(f)
    BY <1>6, <2>1, HeadTailProperties
  <2> QED BY <1>5, <1>8, <2>2 DEF SaidWires
<1>10. Good(st) /\ ~IsServer(st)
  BY <1>3, <1>5 DEF NodeInv
<1>11. OnlyTold(r.st, msgs)
  BY <1>5, <1>8, <1>9, <1>10, ApplyIds
<1>12. r.out = <<>> /\ r.requests \in Seq({m \in Assigns : m.id = NoId})
  BY <1>5, <1>8, <1>10, ApplySpeaks
<1>13. /\ store'[c] = r.st
       /\ \A y \in Nodes : y # c => store'[y] = store[y] /\ hand'[y] = hand[y]
  BY <1>3, <1>6, PassAt
<1>14. hand'[c] = <<>>
  BY <1>6, <1>12 DEF Pass
<1>15. link'[c] = "applied" /\ toClient'[c] = <<>> /\ toServer'[c] = <<Reply(r.requests)>>
  BY <1>4, <1>6, <1>7
<1>16. OneIdEach(c)'
  BY <1>11, <1>13 DEF OneIdEach, OnlyTold
<1>17. Line(c)' = Line(c)
  BY <1>3, <1>6, <1>13, <1>15 DEF Line, PostedTo
<1>18. Bound(c)' \subseteq Bound(c)
  <2>1. Bound(c)' = {i \in Ids : r.st.idmap[i] # NoName}
    BY <1>13, <1>15 DEF Bound
  <2>2. Bound(c) = {msgs[k].id : k \in DOMAIN msgs}
    BY <1>5, <1>6 DEF Bound
  <2> QED BY <1>11, <2>1, <2>2 DEF OnlyTold
<1>19. Synchronized(c) /\ ClientActive(c)' /\ ~ClientActive(c)
  BY <1>6, <1>15 DEF Synchronized, ClientActive
<1>20. Listens(g, c)'
  <2>1. PendOK(pendS[c]) /\ LineOK(g, c, Bound(c), Line(c), store[Server].idmap)
    BY <1>2, <1>19 DEF OrderedAt, Listens
  <2>2. PICK L \in Seq(Posts) : L = Line(c)
    BY <1>19, LineParts
  <2>3. \A k \in 1 .. Len(L) : TellsLess(g, c, L[k], L[k])
                               /\ \A i \in Ids : Frees(L[k], i) => Frees(L[k], i)
    BY SameTells
  <2>4. LineOK(g, c, Bound(c), L, store[Server].idmap)
    BY <2>1, <2>2
  <2>5. LineOK(g, c, Bound(c)', L, store[Server].idmap)
    BY <1>18, <2>2, <2>3, <2>4, FitsMilder
  <2> QED BY <1>3, <1>6, <1>13, <1>17, <2>1, <2>2, <2>5 DEF Listens
<1>21. Spoken(g, c, Reach(c))'
  <2>1. PICK R : R = Reach(c)'
    OBVIOUS
  <2>2. Reply(r.requests) \in FairWires(g, c, R)
    <3>1. {m \in Assigns : m.id = NoId} \subseteq Fair(g, c, R)
      BY DEF Fair, Posts, Msgs, Assigns
    <3>2. r.requests \in Seq(Fair(g, c, R))
      BY <1>12, <3>1, SeqMore
    <3>3. r.requests \in Seq(Msgs)
      <4>1. {m \in Assigns : m.id = NoId} \subseteq Msgs
        BY DEF Msgs
      <4> QED BY <1>12, <4>1, SeqMore
    <3> QED BY <3>2, <3>3 DEF FairWires, Reply, Replies
  <2>3. toServer'[c] \in Seq(FairWires(g, c, R))
    BY <1>15, <2>2, OneMessage
  <2>4. pendC'[c].msgs = <<>>
    BY <1>2, <1>6, <1>19 DEF OrderedAt
  <2> QED BY <1>14, <2>1, <2>3, <2>4, EmptySeq DEF Spoken
<1>22. OrderedAt(g, c)'
  BY <1>16, <1>19, <1>20, <1>21 DEF OrderedAt
<1>23. Ordered(g)'
  <2>1. \A d \in Clients \ {c} :
          link'[d] = link[d] /\ toClient'[d] = toClient[d] /\ toServer'[d] = toServer[d]
    BY <1>4, <1>6
  <2> QED BY <1>2, <1>3, <1>6, <1>13, <1>22, <2>1, OneClient
<1> QED BY <1>2, <1>23 DEF StaysOrdered

-----------------------------------------------------------------------------
(***************************************************************************)
(* What the history says of the messages: nothing has flags unless flags   *)
(* were changed, no ClearEntries is about unless one was sent, and what a  *)
(* thread of the server holds is one message.                              *)
(***************************************************************************)
Plain(s) ==
  {m \in Posts : ("flagged" \in s \/ BareMsg(m)) /\ (m.type = "clear" => "cleared" \in s)}

PlainSends(s) == {x \in Sends : x.msg \in Plain(s)}
PlainWires(s) == Plain(s) \cup {w \in Initials \cup Replies : w.msgs \in Seq(Plain(s))}
Solos         == {h \in Held : Len(h.out) = 1}

PlainNode(s, x) ==
  ("flagged" \in s \/ Bare(store[x])) /\ hand[x] \in Seq(HeldOf(PlainSends(s)))

PlainNodes ==
  /\ \A x \in Nodes : PlainNode(seen, x)
  /\ hand[Server] \in Seq(Solos)

PlainFile == "flagged" \in seen \/ file = NoFile

PlainStreams(s, c) ==
  /\ pendC[c].msgs \in Seq(Plain(s)) /\ pendS[c].msgs \in Seq(Plain(s))
  /\ toServer[c] \in Seq(PlainWires(s)) /\ toClient[c] \in Seq(PlainWires(s))

PlainNet == \A c \in Clients : PlainStreams(seen, c)

PlainInv == PlainNodes /\ PlainFile /\ PlainNet

\* The history only grows.
LEMMA PlainMore ==
  ASSUME NEW s, NEW t, s \subseteq t
  PROVE  /\ Seq(Plain(s)) \subseteq Seq(Plain(t))
         /\ Seq(HeldOf(PlainSends(s))) \subseteq Seq(HeldOf(PlainSends(t)))
         /\ Seq(PlainWires(s)) \subseteq Seq(PlainWires(t))
<1>1. Plain(s) \subseteq Plain(t)
  BY DEF Plain
<1>2. Seq(Plain(s)) \subseteq Seq(Plain(t))
  BY <1>1, SeqMore
<1>3. PlainSends(s) \subseteq PlainSends(t)
  BY <1>1 DEF PlainSends
<1>4. Seq(PlainSends(s)) \subseteq Seq(PlainSends(t))
  BY <1>3, SeqMore
<1>5. HeldOf(PlainSends(s)) \subseteq HeldOf(PlainSends(t))
  BY <1>4 DEF HeldOf
<1>6. Seq(HeldOf(PlainSends(s))) \subseteq Seq(HeldOf(PlainSends(t)))
  BY <1>5, SeqMore
<1>7. PlainWires(s) \subseteq PlainWires(t)
  BY <1>1, <1>2 DEF PlainWires
<1>8. Seq(PlainWires(s)) \subseteq Seq(PlainWires(t))
  BY <1>7, SeqMore
<1> QED BY <1>2, <1>6, <1>8

LEMMA PlainNetSame ==
  ASSUME PlainNet, UNCHANGED net, seen \subseteq seen'
  PROVE  PlainNet'
<1>1. SUFFICES ASSUME NEW c \in Clients PROVE PlainStreams(seen, c)'
  BY DEF PlainNet
<1>2. PICK s, t : s = seen /\ t = seen'
  OBVIOUS
<1>3. PlainStreams(s, c)
  BY <1>2 DEF PlainNet
<1>4. /\ Seq(Plain(s)) \subseteq Seq(Plain(t))
      /\ Seq(PlainWires(s)) \subseteq Seq(PlainWires(t))
  BY <1>2, PlainMore
<1>5. PlainStreams(t, c)
  BY <1>3, <1>4 DEF PlainStreams
<1>6. UNCHANGED <<pendC, pendS, toServer, toClient>>
  BY DEF net
<1> QED BY <1>2, <1>5, <1>6 DEF PlainStreams

\* A thread's pass, when what it leaves and says is plain.
LEMMA PlainPass ==
  ASSUME TablesInv, PlainNodes, seen \subseteq seen', NEW x \in Nodes, NEW t \in Threads,
         NEW conn \in Conns, NEW r, Pass(x, t, conn, r),
         "flagged" \in seen' \/ Bare(r.st), r.out \in Seq(PlainSends(seen')),
         x = Server => Len(r.out) <= 1
  PROVE  PlainNodes'
<1>0. NodeInv /\ Server \in Nodes /\ hand \in [Nodes -> Seq(Held)]
  BY ServerIsNode DEF TablesInv, NodeInv
<1>1. PICK s, z : s = seen /\ z = seen'
  OBVIOUS
<1>2. /\ store'[x] = r.st
      /\ \A y \in Nodes : y # x => store'[y] = store[y] /\ hand'[y] = hand[y]
  BY <1>0, PassAt
<1>3. Seq(HeldOf(PlainSends(s))) \subseteq Seq(HeldOf(PlainSends(z)))
  BY <1>1, PlainMore
<1>4. \A y \in Nodes : PlainNode(s, y)
  BY <1>1 DEF PlainNodes
<1>5. ASSUME NEW y \in Nodes, y # x PROVE PlainNode(z, y)'
  BY <1>1, <1>2, <1>3, <1>4, <1>5 DEF PlainNode, Bare
<1>6. hand'[x] \in Seq(HeldOf(PlainSends(z)))
  <2>1. PICK S : S = PlainSends(z)
    OBVIOUS
  <2>2. S \subseteq Sends /\ hand[x] \in Seq(HeldOf(S)) /\ r.out \in Seq(S)
    BY <1>1, <1>3, <1>4, <2>1 DEF PlainNode, PlainSends
  <2>3. hand'[x] \in Seq(HeldOf(S))
    BY <1>0, <2>2, HeldMore
  <2> QED BY <2>1, <2>3
<1>7. PlainNode(z, x)'
  BY <1>1, <1>2, <1>6 DEF PlainNode, Bare
<1>8. hand'[Server] \in Seq(Solos)
  <2>1. hand[Server] \in Seq(Solos)
    BY DEF PlainNodes
  <2>2. CASE x # Server \/ r.out = <<>>
    BY <1>0, <1>2, <2>1, <2>2 DEF Pass
  <2>3. CASE x = Server /\ r.out # <<>>
    <3>1. PICK h : h = [thread |-> t, conn |-> conn, out |-> r.out]
      OBVIOUS
    <3>2. r.out \in Seq(Sends) \ {<<>>} /\ Len(r.out) = 1
      <4>1. PlainSends(seen') \subseteq Sends
        BY DEF PlainSends
      <4>2. r.out \in Seq(Sends)
        BY <4>1, SeqMore
      <4>3. PICK n \in Nat \ {0} : n = Len(r.out)
        BY <2>3, <4>2, EmptySeq
      <4>4. n <= 1
        BY <2>3, <4>3
      <4>5. n = 1
        BY <4>4
      <4> QED BY <2>3, <4>2, <4>3, <4>5
    <3>3. h \in Solos
      BY <3>1, <3>2 DEF Solos, Held
    <3>4. hand'[Server] = Append(hand[Server], h)
      BY <1>0, <2>3, <3>1 DEF Pass
    <3> QED BY <2>1, <3>3, <3>4, AppendProperties
  <2> QED BY <2>2, <2>3
<1> QED BY <1>1, <1>5, <1>7, <1>8 DEF PlainNodes

\* One message or none, plain if it is of this kind.
LEMMA OnePlain ==
  ASSUME NEW s, NEW out, out = <<>> \/ \E x \in Sends : out = <<x>> /\ (x.msg.type = "clear" => "cleared" \in s),
         "flagged" \in s \/ out \in Seq(BareSends)
  PROVE  out \in Seq(PlainSends(s)) /\ Len(out) <= 1
<1>1. CASE out = <<>>
  BY <1>1, EmptySeq
<1>2. CASE out # <<>>
  <2>1. PICK x \in Sends : out = <<x>> /\ (x.msg.type = "clear" => "cleared" \in s)
    BY <1>2
  <2>2. "flagged" \in s \/ BareMsg(x.msg)
    <3>1. CASE out \in Seq(BareSends)
      <4>1. out[1] \in BareSends
        BY <2>1, <3>1
      <4> QED BY <2>1, <4>1 DEF BareSends
    <3> QED BY <3>1
  <2>3. x \in PlainSends(s)
    BY <2>1, <2>2 DEF PlainSends, Plain, Posts, Sends
  <2> QED BY <2>1, <2>3, OneMessage
<1> QED BY <1>1, <1>2

\* What the programs do is plain.
LEMMA UserIsPlain ==
  ASSUME NEW st, NEW n, NEW r, UserActs(st, n, r)
  PROVE  r.out = <<>> \/ \E x \in Sends : r.out = <<x>> /\ x.msg.type # "clear"
<1>1. ASSUME NEW m \in Msgs PROVE ToAll(m) \in Sends /\ ToAll(m).msg = m
  BY SendIsSends DEF ToAll
<1>2. CASE UserKeeps(st, n, r)
  <2>1. CASE r.out # <<>>
    <3>1. PICK m \in Msgs : r.out = <<ToAll(m)>> /\ m.type \in {"assign", "update", "flags"}
      BY <1>2, <2>1 DEF UserKeeps
    <3> QED BY <1>1, <3>1
  <2> QED BY <2>1
<1>3. CASE GivesNew(st, n, r)
  <2>1. PICK m \in Msgs : r.out = <<ToAll(m)>> /\ m.type \in {"assign", "update"}
    BY <1>3 DEF GivesNew
  <2> QED BY <1>1, <2>1
<1>4. CASE UserDrops(st, n, r)
  <2>1. PICK i \in Ids : r.out = <<ToAll(EntryDelete(i))>>
    BY <1>4 DEF UserDrops
  <2>2. EntryDelete(i) \in Msgs /\ EntryDelete(i).type # "clear"
    BY DEF EntryDelete, Msgs, Deletes
  <2> QED BY <1>1, <2>1, <2>2
<1> QED BY <1>2, <1>3, <1>4 DEF UserActs

\* What a server does with a message is as plain as the message.
LEMMA HostIsPlain ==
  ASSUME NEW st, IsServer(st), NEW m \in Msgs, NEW r, Hosts(st, m, r)
  PROVE  r.out = <<>> \/ \E x \in Sends : r.out = <<x>> /\ (x.msg.type = "clear" => m.type = "clear")
<1>1. ASSUME NEW y \in Msgs PROVE Onward(y) \in Sends /\ Onward(y).msg = y
  BY SendIsSends DEF Onward
<1>2. CASE Heeds(st, m, r)
  <2>1. CASE r.out # <<>>
    <3>1. PICK x \in Msgs : r.out = <<Onward(x)>> /\ x.type = m.type
      BY <1>2, <2>1 DEF Heeds
    <3> QED BY <1>1, <3>1
  <2> QED BY <2>1
<1>3. CASE GivesNew(st, m.name, r)
  <2>1. PICK x \in Msgs : r.out = <<ToAll(x)>> /\ x.type \in {"assign", "update"}
    BY <1>3 DEF GivesNew
  <2>2. ToAll(x) \in Sends /\ ToAll(x).msg = x
    BY SendIsSends DEF ToAll
  <2> QED BY <2>1, <2>2
<1>4. CASE Forgets(st, m, r)
  <2>1. r.out = <<Onward(m)>>
    BY <1>4 DEF Forgets, If, IsServer
  <2> QED BY <1>1, <2>1
<1>5. CASE m.type = "clear" /\ r.out = <<Onward(m)>>
  BY <1>1, <1>5
<1> QED BY <1>2, <1>3, <1>4, <1>5 DEF Hosts

LEMMA PlainTaken ==
  ASSUME TablesInv, PlainNodes, UNCHANGED seen, NEW x \in Nodes, Linked(store[x]),
         HasRoom(store[Server]) \/ x # Server, NEW m \in Msgs, m \in Plain(seen),
         NEW t \in Threads, NEW conn \in Conns,
         Pass(x, t, conn, ProcessIncoming(store[x], m))
  PROVE  PlainNodes'
<1>1. PICK st, r : st = store[x] /\ r = ProcessIncoming(st, m)
  OBVIOUS
<1>2. Good(st) /\ (IsServer(st) <=> x = Server) /\ Linked(st)
  BY <1>1 DEF TablesInv, NodeInv
<1>3. ("flagged" \in seen \/ Bare(st)) /\ ("flagged" \in seen \/ BareMsg(m))
      /\ (m.type = "clear" => "cleared" \in seen)
  BY <1>1 DEF PlainNodes, PlainNode, Plain
<1>4. CASE x = Server
  <2>1. Hosts(st, m, r)
    BY <1>1, <1>2, <1>4, ServerHosts
  <2>2. r.out = <<>> \/ \E y \in Sends : r.out = <<y>> /\ (y.msg.type = "clear" => "cleared" \in seen)
    BY <1>2, <1>3, <1>4, <2>1, HostIsPlain
  <2>3. "flagged" \in seen \/ (Bare(r.st) /\ r.out \in Seq(BareSends))
    BY <1>3, <2>1 DEF Hosts, StaysBare
  <2>4. r.out \in Seq(PlainSends(seen)) /\ Len(r.out) <= 1
    BY <2>2, <2>3, OnePlain
  <2> QED BY <1>1, <2>3, <2>4, PlainPass
<1>5. CASE x # Server
  <2>1. Takes(st, m, r)
    BY <1>1, <1>2, <1>5, ClientTakes
  <2>2. "flagged" \in seen \/ (Bare(r.st) /\ r.out \in Seq(BareSends))
    BY <1>3, <2>1 DEF Takes, StaysBare
  <2>3. r.out \in Seq(Talk)
    BY <2>1 DEF Takes
  <2>4. r.out \in Seq(PlainSends(seen))
    <3>1. CASE "flagged" \in seen
      <4>1. Talk \subseteq PlainSends(seen)
        BY <3>1 DEF Talk, PlainSends, Plain, Posts, Sends
      <4> QED BY <2>3, <4>1, SeqMore
    <3>2. CASE r.out \in Seq(BareSends)
      <4>1. \A k \in 1 .. Len(r.out) : r.out[k] \in Talk /\ r.out[k] \in BareSends
        BY <2>3, <3>2
      <4>2. \A k \in 1 .. Len(r.out) : r.out[k] \in PlainSends(seen)
        BY <4>1 DEF Talk, BareSends, PlainSends, Plain, Posts, Sends
      <4>3. PICK o : o = r.out
        OBVIOUS
      <4>4. o \in Seq(Talk) /\ \A k \in 1 .. Len(o) : o[k] \in PlainSends(seen)
        BY <2>3, <4>2, <4>3
      <4>5. o \in Seq(PlainSends(seen))
        BY <4>4
      <4> QED BY <4>3, <4>5
    <3> QED BY <2>2, <3>1, <3>2
  <2> QED BY <1>1, <1>5, <2>2, <2>4, PlainPass
<1> QED BY <1>4, <1>5

\* The changes of the programs.
LEMMA PlainUser ==
  ASSUME TablesInv, PlainInv, seen \subseteq seen', NEW x \in Nodes, NEW r,
         Pass(x, User, "none", r), UNCHANGED <<net, file>>,
         r.out = <<>> \/ \E y \in Sends : r.out = <<y>> /\ (y.msg.type = "clear" => "cleared" \in seen'),
         "flagged" \in seen' \/ StaysBare(store[x], r)
  PROVE  PlainInv'
<1>1. "flagged" \in seen' \/ (Bare(r.st) /\ r.out \in Seq(BareSends))
  BY DEF PlainInv, PlainNodes, PlainNode, StaysBare
<1>2. PICK s : s = seen'
  OBVIOUS
<1>3. r.out \in Seq(PlainSends(s)) /\ Len(r.out) <= 1
  BY <1>1, <1>2, OnePlain
<1>4. User \in Threads /\ "none" \in Conns
  BY DEF Threads, Conns
<1>5. PlainNodes'
  BY <1>1, <1>2, <1>3, <1>4, PlainPass DEF PlainInv
<1>6. PlainNet'
  BY PlainNetSame DEF PlainInv
<1> QED BY <1>5, <1>6 DEF PlainInv, PlainFile

LEMMA ChangePlain ==
  ASSUME TablesInv, PlainInv, NEW f, Named(f), NEW x \in Nodes, Change(x)
  PROVE  PlainInv'
<1>1. UNCHANGED <<net, file, seen>>
  BY DEF Change
<1>2. PICK n, r : n \in Names
        /\ Pass(x, User, "none", r) /\ UserActs(store[x], n, r) /\ StaysBare(store[x], r)
  BY ChangeFacts
<1>3. r.out = <<>> \/ \E y \in Sends : r.out = <<y>> /\ y.msg.type # "clear"
  BY <1>2, UserIsPlain
<1> QED BY <1>1, <1>2, <1>3, PlainUser

LEMMA ChangeFlagsPlain ==
  ASSUME TablesInv, PlainInv, NEW f, Named(f), NEW x \in Nodes, ChangeFlags(x)
  PROVE  PlainInv'
<1>1. UNCHANGED <<net, file>> /\ seen' = seen \cup {"flagged"}
  BY DEF ChangeFlags
<1>2. PICK n, r : n \in Names /\ Pass(x, User, "none", r) /\ UserActs(store[x], n, r)
  BY ChangeFlagsFacts
<1>3. r.out = <<>> \/ \E y \in Sends : r.out = <<y>> /\ y.msg.type # "clear"
  BY <1>2, UserIsPlain
<1> QED BY <1>1, <1>2, <1>3, PlainUser

LEMMA ClearPlain ==
  ASSUME TablesInv, PlainInv, NEW x \in Nodes, Clear(x)
  PROVE  PlainInv'
<1>1. /\ UNCHANGED <<net, file>> /\ seen' = seen \cup {"cleared"}
      /\ Pass(x, User, "none", DeleteAllEntries(store[x]))
  BY DEF Clear
<1>2. PICK r : r = DeleteAllEntries(store[x])
  OBVIOUS
<1>3. Good(store[x])
  BY DEF TablesInv, NodeInv
<1>4. r.out = <<>> \/ r.out = <<ToAll(ClearEntries)>>
  <2>1. r = Ignored(store[x]) \/ r.out = <<ToAll(ClearEntries)>>
    BY <1>2, <1>3, DeleteAllWipes
  <2> QED BY <2>1 DEF Ignored, Result
<1>5. ToAll(ClearEntries) \in Sends
  BY SendIsSends DEF ClearEntries, Msgs, Clears
<1>6. StaysBare(store[x], r)
  BY <1>2, <1>3, DeleteAllWipes
<1>7. r.out = <<>> \/ \E y \in Sends : r.out = <<y>> /\ (y.msg.type = "clear" => "cleared" \in seen')
  BY <1>1, <1>4, <1>5
<1> QED BY <1>1, <1>2, <1>6, <1>7, PlainUser

\* The steps of one connection.
LEMMA PlainOne ==
  ASSUME PlainNet, seen \subseteq seen', NEW c \in Clients, PlainStreams(seen, c)',
         \A d \in Clients \ {c} :
           /\ pendC'[d] = pendC[d] /\ pendS'[d] = pendS[d]
           /\ toServer'[d] = toServer[d] /\ toClient'[d] = toClient[d]
  PROVE  PlainNet'
<1>1. SUFFICES ASSUME NEW d \in Clients \ {c} PROVE PlainStreams(seen, d)'
  BY DEF PlainNet
<1>2. PICK s, t : s = seen /\ t = seen'
  OBVIOUS
<1>3. PlainStreams(s, d)
  BY <1>2 DEF PlainNet
<1>4. /\ Seq(Plain(s)) \subseteq Seq(Plain(t))
      /\ Seq(PlainWires(s)) \subseteq Seq(PlainWires(t))
  BY <1>2, PlainMore
<1>5. PlainStreams(t, d)
  BY <1>3, <1>4 DEF PlainStreams
<1> QED BY <1>2, <1>5 DEF PlainStreams

\* What is plain of the streams.
LEMMA PlainWire ==
  ASSUME NEW s, NEW w \in PlainWires(s)
  PROVE  /\ w \in Posts => w \in Plain(s)
         /\ w \in Initials \cup Replies => w.msgs \in Seq(Plain(s))
<1>1. ASSUME w \in Posts PROVE w \in Plain(s)
  <2>1. w \notin Initials \cup Replies
    BY <1>1, PostTypes DEF Initials, Replies
  <2> QED BY <2>1 DEF PlainWires
<1>2. ASSUME w \in Initials \cup Replies PROVE w.msgs \in Seq(Plain(s))
  <2>1. w \notin Posts
    BY <1>2, PostTypes DEF Initials, Replies
  <2> QED BY <2>1 DEF PlainWires, Plain
<1> QED BY <1>1, <1>2

LEMMA PlainFirst ==
  ASSUME PlainNet, NEW c \in Clients
  PROVE  /\ toServer[c] # <<>> => /\ Head(toServer[c]) \in PlainWires(seen)
                                  /\ Tail(toServer[c]) \in Seq(PlainWires(seen))
         /\ toClient[c] # <<>> => /\ Head(toClient[c]) \in PlainWires(seen)
                                  /\ Tail(toClient[c]) \in Seq(PlainWires(seen))
<1>1. PICK s \in Seq(PlainWires(seen)) : s = toServer[c]
  BY DEF PlainNet, PlainStreams
<1>2. PICK t \in Seq(PlainWires(seen)) : t = toClient[c]
  BY DEF PlainNet, PlainStreams
<1>3. s # <<>> => Head(s) \in PlainWires(seen) /\ Tail(s) \in Seq(PlainWires(seen))
  BY HeadTailProperties
<1>4. t # <<>> => Head(t) \in PlainWires(seen) /\ Tail(t) \in Seq(PlainWires(seen))
  BY HeadTailProperties
<1> QED BY <1>1, <1>2, <1>3, <1>4

LEMMA NodesLinked ==
  ASSUME TablesInv, IdsInv, NEW x \in Nodes
  PROVE  Good(store[x]) /\ Linked(store[x])
<1>1. PICK f : Named(f)
  BY DEF IdsInv, Named
<1> QED BY <1>1, NodeLinked

LEMMA FinishHandshakePlain ==
  ASSUME TablesInv, IdsInv, PlainInv, NEW c \in Clients, FinishHandshake(c)
  PROVE  PlainInv'
<1>0. /\ NetInv /\ link[c] = "applied" /\ toServer[c] # <<>>
      /\ toServer \in [Clients -> Seq(Wires)] /\ UNCHANGED <<pendC, pendS, toClient, file, seen>>
      /\ Server \in Nodes /\ c \in Threads /\ c \in Conns
  BY ServerIsNode DEF TablesInv, NetInv, FinishHandshake, Threads, Conns
<1>1. PICK h \in Replies : h = Head(toServer[c])
  BY <1>0 DEF NetInv, StreamsAgree
<1>2. PICK todo \in Seq(Msgs) : todo = h.msgs
  BY DEF Replies
<1>3. PICK z : z = seen
  OBVIOUS
<1>4. todo \in Seq(Plain(z)) /\ Tail(toServer[c]) \in Seq(PlainWires(z))
  <2>1. h \in PlainWires(z) /\ Tail(toServer[c]) \in Seq(PlainWires(z))
    BY <1>0, <1>1, <1>3, PlainFirst DEF PlainInv
  <2> QED BY <1>2, <2>1, PlainWire
<1>5. PlainStreams(z, c)
  BY <1>3 DEF PlainInv, PlainNet
<1>6. CASE /\ todo # <<>> /\ HasRoom(store[Server])
           /\ Pass(Server, c, c, ProcessIncoming(store[Server], Head(todo)))
           /\ toServer' = [toServer EXCEPT ![c][1] = Reply(Tail(todo))]
  <2>1. Head(todo) \in Msgs /\ Head(todo) \in Plain(z) /\ Tail(todo) \in Seq(Plain(z)) /\ Tail(todo) \in Seq(Msgs)
    BY <1>4, <1>6, HeadTailProperties
  <2>2. PICK w : w = Reply(Tail(todo))
    OBVIOUS
  <2>3. w \in PlainWires(z)
    BY <2>1, <2>2 DEF PlainWires, Reply, Replies
  <2>4. PICK s \in Seq(PlainWires(z)) : s = toServer[c]
    BY <1>5 DEF PlainStreams
  <2>5. [s EXCEPT ![1] = w] \in Seq(PlainWires(z))
    BY <2>3, SeqExcept
  <2>6. toServer'[c] = [s EXCEPT ![1] = w] /\ \A d \in Clients \ {c} : toServer'[d] = toServer[d]
    BY <1>0, <1>6, <2>2, <2>4
  <2>7. PlainNet'
    <3>1. PlainStreams(seen, c)'
      BY <1>0, <1>3, <1>5, <2>5, <2>6 DEF PlainStreams
    <3> QED BY <1>0, <2>6, <3>1, PlainOne DEF PlainInv
  <2>8. PICK m \in Msgs : m = Head(todo)
    BY <2>1
  <2>9. PlainNodes'
    <3>1. m \in Plain(seen) /\ Pass(Server, c, c, ProcessIncoming(store[Server], m))
          /\ HasRoom(store[Server]) /\ UNCHANGED seen
      BY <1>0, <1>3, <1>6, <2>1, <2>8
    <3>2. Linked(store[Server]) /\ PlainNodes
      BY <1>0, NodesLinked DEF PlainInv
    <3> QED BY <1>0, <3>1, <3>2, PlainTaken
  <2> QED BY <1>0, <2>7, <2>9 DEF PlainInv, PlainFile
<1>7. CASE /\ toServer' = [toServer EXCEPT ![c] = Tail(toServer[c])]
           /\ UNCHANGED <<store, hand>>
  <2>1. toServer'[c] = Tail(toServer[c]) /\ \A d \in Clients \ {c} : toServer'[d] = toServer[d]
    BY <1>0, <1>7
  <2>2. PlainStreams(seen, c)'
    BY <1>0, <1>3, <1>4, <1>5, <2>1 DEF PlainStreams
  <2>3. PlainNet'
    BY <1>0, <2>1, <2>2, PlainOne DEF PlainInv
  <2> QED BY <1>0, <1>7, <2>3 DEF PlainInv, PlainFile, PlainNodes, PlainNode, Bare
<1> QED BY <1>1, <1>2, <1>6, <1>7 DEF FinishHandshake

LEMMA ServerReadsPlain ==
  ASSUME TablesInv, IdsInv, PlainInv, NEW c \in Clients, ServerReads(c)
  PROVE  PlainInv'
<1>0. /\ NetInv /\ link[c] = "up" /\ toServer[c] # <<>> /\ HasRoom(store[Server])
      /\ toServer \in [Clients -> Seq(Wires)]
      /\ toServer' = [toServer EXCEPT ![c] = Tail(toServer[c])]
      /\ UNCHANGED <<pendC, pendS, toClient, file, seen>>
      /\ Server \in Nodes /\ c \in Threads /\ c \in Conns
  BY ServerIsNode DEF TablesInv, NetInv, ServerReads, Threads, Conns
<1>1. PICK s \in Seq(Posts) : s = toServer[c] /\ s # <<>>
  BY <1>0 DEF NetInv, StreamsAgree
<1>2. PICK m \in Posts : m = Head(toServer[c])
  BY <1>1, HeadTailProperties
<1>3. m \in Plain(seen) /\ Tail(toServer[c]) \in Seq(PlainWires(seen))
  <2>1. m \in PlainWires(seen) /\ Tail(toServer[c]) \in Seq(PlainWires(seen))
    BY <1>0, <1>2, PlainFirst DEF PlainInv
  <2> QED BY <2>1, PlainWire
<1>4. PlainNet'
  <2>1. toServer'[c] = Tail(toServer[c]) /\ \A d \in Clients \ {c} : toServer'[d] = toServer[d]
    BY <1>0
  <2>2. PlainStreams(seen, c)'
    BY <1>0, <1>3, <2>1 DEF PlainInv, PlainNet, PlainStreams
  <2> QED BY <1>0, <2>1, <2>2, PlainOne DEF PlainInv
<1>5. PlainNodes'
  <2>1. CASE m = Q!None
    <3>1. UNCHANGED <<store, hand>>
      BY <1>2, <2>1 DEF ServerReads
    <3> QED BY <1>0, <3>1 DEF PlainInv, PlainNodes, PlainNode, Bare
  <2>2. CASE m # Q!None
    <3>1. m \in Msgs
      BY <2>2 DEF Posts
    <3>2. Pass(Server, c, c, ProcessIncoming(store[Server], m))
      BY <1>2, <2>2 DEF ServerReads
    <3>3. Linked(store[Server]) /\ PlainNodes
      BY <1>0, NodesLinked DEF PlainInv
    <3> QED BY <1>0, <1>3, <3>1, <3>2, <3>3, PlainTaken
  <2> QED BY <2>1, <2>2
<1> QED BY <1>0, <1>4, <1>5 DEF PlainInv, PlainFile

LEMMA ClientReadsPlain ==
  ASSUME TablesInv, IdsInv, PlainInv, NEW c \in Clients, ClientReads(c)
  PROVE  PlainInv'
<1>0. /\ NetInv /\ link[c] \in {"applied", "up"} /\ toClient[c] # <<>>
      /\ toClient \in [Clients -> Seq(Wires)]
      /\ toClient' = [toClient EXCEPT ![c] = Tail(toClient[c])]
      /\ UNCHANGED <<pendC, pendS, toServer, file, seen>>
      /\ c \in Nodes /\ c # Server /\ "reader" \in Threads /\ "none" \in Conns
  BY ServerIsNode DEF TablesInv, NetInv, ClientReads, ClientActive, Threads, Conns
<1>1. PICK s \in Seq(Posts) : s = toClient[c] /\ s # <<>>
  BY <1>0 DEF NetInv, StreamsAgree
<1>2. PICK m \in Posts : m = Head(toClient[c])
  BY <1>1, HeadTailProperties
<1>3. m \in Plain(seen) /\ Tail(toClient[c]) \in Seq(PlainWires(seen))
  <2>1. m \in PlainWires(seen) /\ Tail(toClient[c]) \in Seq(PlainWires(seen))
    BY <1>0, <1>2, PlainFirst DEF PlainInv
  <2> QED BY <2>1, PlainWire
<1>4. PlainNet'
  <2>1. toClient'[c] = Tail(toClient[c]) /\ \A d \in Clients \ {c} : toClient'[d] = toClient[d]
    BY <1>0
  <2>2. PlainStreams(seen, c)'
    BY <1>0, <1>3, <2>1 DEF PlainInv, PlainNet, PlainStreams
  <2> QED BY <1>0, <2>1, <2>2, PlainOne DEF PlainInv
<1>5. PlainNodes'
  <2>1. CASE m = Q!None
    <3>1. UNCHANGED <<store, hand>>
      BY <1>2, <2>1 DEF ClientReads
    <3> QED BY <1>0, <3>1 DEF PlainInv, PlainNodes, PlainNode, Bare
  <2>2. CASE m # Q!None
    <3>1. m \in Msgs
      BY <2>2 DEF Posts
    <3>2. Pass(c, "reader", "none", ProcessIncoming(store[c], m))
      BY <1>2, <2>2 DEF ClientReads
    <3>3. Linked(store[c]) /\ PlainNodes
      BY <1>0, NodesLinked DEF PlainInv
    <3> QED BY <1>0, <1>3, <3>1, <3>2, <3>3, PlainTaken
  <2> QED BY <2>1, <2>2
<1> QED BY <1>0, <1>4, <1>5 DEF PlainInv, PlainFile

\* Only the streams of one connection change.
LEMMA PlainStill ==
  ASSUME PlainInv, UNCHANGED <<store, hand, file, seen>>, NEW c \in Clients,
         PlainStreams(seen, c)',
         \A d \in Clients \ {c} :
           /\ pendC'[d] = pendC[d] /\ pendS'[d] = pendS[d]
           /\ toServer'[d] = toServer[d] /\ toClient'[d] = toClient[d]
  PROVE  PlainInv'
<1>1. PlainNet'
  BY PlainOne DEF PlainInv
<1> QED BY <1>1 DEF PlainInv, PlainFile, PlainNodes, PlainNode, Bare

LEMMA PlainPosts == ASSUME NEW s PROVE Seq(Plain(s)) \subseteq Seq(PlainWires(s))
<1>1. Plain(s) \subseteq PlainWires(s)
  BY DEF PlainWires
<1> QED BY <1>1, SeqMore

LEMMA ServerPostsPlain ==
  ASSUME TablesInv, PlainInv, NEW c \in Clients, ServerPosts(c)
  PROVE  PlainInv'
<1>0. toClient \in [Clients -> Seq(Wires)] /\ pendS \in [Clients -> Pending]
  BY DEF TablesInv, NetInv
<1>1. /\ toClient' = [toClient EXCEPT ![c] = toClient[c] \o pendS[c].msgs]
      /\ pendS' = [pendS EXCEPT ![c] = Q!NoPending]
      /\ UNCHANGED <<store, hand, file, seen, pendC, toServer>>
  BY DEF ServerPosts, Q!Posted
<1>2. PlainStreams(seen, c)
  BY DEF PlainInv, PlainNet
<1>3. toClient[c] \o pendS[c].msgs \in Seq(PlainWires(seen))
  BY <1>2, PlainPosts, Concat DEF PlainStreams
<1>4. PlainStreams(seen, c)'
  <2>1. toClient'[c] = toClient[c] \o pendS[c].msgs /\ pendS'[c].msgs = <<>>
    BY <1>0, <1>1, NothingPends DEF Q!NoPending
  <2>2. pendS'[c].msgs \in Seq(Plain(seen))
    BY <2>1, EmptySeq
  <2> QED BY <1>1, <1>2, <1>3, <2>1, <2>2 DEF PlainStreams
<1>5. \A d \in Clients \ {c} : pendS'[d] = pendS[d] /\ toClient'[d] = toClient[d]
  BY <1>0, <1>1
<1> QED BY <1>1, <1>4, <1>5, PlainStill

LEMMA ClientPostsPlain ==
  ASSUME TablesInv, PlainInv, NEW c \in Clients, ClientPosts(c)
  PROVE  PlainInv'
<1>0. toServer \in [Clients -> Seq(Wires)] /\ pendC \in [Clients -> Pending]
  BY DEF TablesInv, NetInv
<1>1. /\ toServer' = [toServer EXCEPT ![c] = toServer[c] \o pendC[c].msgs]
      /\ pendC' = [pendC EXCEPT ![c] = Q!NoPending]
      /\ UNCHANGED <<store, hand, file, seen, pendS, toClient>>
  BY DEF ClientPosts, Q!Posted
<1>2. PlainStreams(seen, c)
  BY DEF PlainInv, PlainNet
<1>3. toServer[c] \o pendC[c].msgs \in Seq(PlainWires(seen))
  BY <1>2, PlainPosts, Concat DEF PlainStreams
<1>4. PlainStreams(seen, c)'
  <2>1. toServer'[c] = toServer[c] \o pendC[c].msgs /\ pendC'[c].msgs = <<>>
    BY <1>0, <1>1, NothingPends DEF Q!NoPending
  <2>2. pendC'[c].msgs \in Seq(Plain(seen))
    BY <2>1, EmptySeq
  <2> QED BY <1>1, <1>2, <1>3, <2>1, <2>2 DEF PlainStreams
<1>5. \A d \in Clients \ {c} : pendC'[d] = pendC[d] /\ toServer'[d] = toServer[d]
  BY <1>0, <1>1
<1> QED BY <1>1, <1>4, <1>5, PlainStill

\* A table without flags has a snapshot without flags.
LEMMA BareSnapshot ==
  ASSUME NEW st, Good(st), IsServer(st), Bare(st), NEW msgs, msgs = GetInitialAssignments(st)
  PROVE  \A k \in DOMAIN msgs : BareMsg(msgs[k])
<1> DEFINE S == {AssignOf(n, st.entries[n]) : n \in Present(st)}
           f == [n \in Present(st) |-> AssignOf(n, st.entries[n])]
<1>1. IsFiniteSet(S)
  <2>1. f \in [Present(st) -> S] /\ \A x \in S : \E n \in Present(st) : f[n] = x
    OBVIOUS
  <2>2. Present(st) \subseteq Names
    BY DEF Present
  <2> HIDE DEF f, S
  <2> QED BY <2>1, <2>2, FiniteOver
<1>2. \A x \in S : BareMsg(x)
  BY DEF Present, Bare, BareMsg, AssignOf, EntryAssign
<1>3. msgs = SetToSeq(S)
  BY DEF GetInitialAssignments
<1> HIDE DEF S
<1>4. \A k \in DOMAIN msgs : msgs[k] \in S
  BY <1>1, <1>3, SetSeq
<1> QED BY <1>2, <1>4

LEMMA SendInitialPlain ==
  ASSUME TablesInv, PlainInv, NEW c \in Clients, SendInitial(c)
  PROVE  PlainInv'
<1>0. /\ NodeInv /\ toClient \in [Clients -> Seq(Wires)] /\ Server \in Nodes
      /\ UNCHANGED <<store, hand, file, pendC, pendS, toServer>> /\ seen \subseteq seen'
  BY ServerIsNode DEF TablesInv, NetInv, SendInitial, SeenIf
<1>1. Good(store[Server]) /\ IsServer(store[Server])
  BY <1>0 DEF NodeInv
<1>2. PICK msgs \in Seq(Answers) : msgs = GetInitialAssignments(store[Server])
  BY <1>1, InitialFacts
<1>3. PICK z : z = seen'
  OBVIOUS
<1>4. ASSUME NEW k \in DOMAIN msgs PROVE msgs[k] \in Plain(z)
  <2>1. msgs[k] \in Assigns
    BY DEF Answers
  <2>2. "flagged" \in seen \/ BareMsg(msgs[k])
    BY <1>0, <1>1, <1>2, BareSnapshot DEF PlainInv, PlainNodes, PlainNode
  <2> QED BY <1>0, <1>3, <2>1, <2>2 DEF Plain, Posts, Msgs, Assigns
<1>5. msgs \in Seq(Plain(z))
  BY <1>4
<1>6. PICK w : w = Initial(msgs)
  OBVIOUS
<1>7. w \in PlainWires(z)
  BY <1>5, <1>6 DEF Initial, Initials, PlainWires
<1>8. PICK s \in Seq(PlainWires(z)) : s = <<w>>
  BY <1>7, OneMessage
<1>9. toClient'[c] = s /\ \A d \in Clients \ {c} : toClient'[d] = toClient[d]
  <2>1. toClient' = [toClient EXCEPT ![c] = <<w>>]
    BY <1>2, <1>6 DEF SendInitial
  <2> QED BY <1>0, <1>8, <2>1
<1>10. PICK y : y = seen
  OBVIOUS
<1>11. /\ Seq(Plain(y)) \subseteq Seq(Plain(z)) /\ Seq(PlainWires(y)) \subseteq Seq(PlainWires(z))
       /\ Seq(HeldOf(PlainSends(y))) \subseteq Seq(HeldOf(PlainSends(z)))
  BY <1>0, <1>3, <1>10, PlainMore
<1>12. PlainStreams(y, c) /\ \A x \in Nodes : PlainNode(y, x)
  BY <1>10 DEF PlainInv, PlainNet, PlainNodes
<1>13. PlainStreams(seen, c)'
  BY <1>0, <1>3, <1>8, <1>9, <1>11, <1>12 DEF PlainStreams
<1>14. PlainNet'
  BY <1>0, <1>9, <1>13, PlainOne DEF PlainInv
<1>15. PlainNodes'
  <2>1. \A x \in Nodes : PlainNode(seen, x)'
    BY <1>0, <1>3, <1>10, <1>11, <1>12 DEF PlainNode, Bare
  <2> QED BY <1>0, <2>1 DEF PlainInv, PlainNodes
<1> QED BY <1>0, <1>14, <1>15 DEF PlainInv, PlainFile

LEMMA ApplyInitialPlain ==
  ASSUME TablesInv, PlainInv, NEW c \in Clients, ApplyInitial(c)
  PROVE  PlainInv'
<1>0. /\ NodeInv /\ NetInv /\ toClient \in [Clients -> Seq(Wires)] /\ toServer \in [Clients -> Seq(Wires)]
      /\ link[c] = "sent" /\ c \in Nodes /\ c # Server /\ "reader" \in Threads /\ "none" \in Conns
      /\ UNCHANGED <<pendC, pendS, file>> /\ seen \subseteq seen'
  BY ServerIsNode DEF TablesInv, NetInv, ApplyInitial, SeenIf, Threads, Conns
<1>1. Head(toClient[c]) \in Initials /\ Tail(toClient[c]) = <<>> /\ toClient[c] # <<>>
  BY <1>0 DEF NetInv, StreamsAgree
<1>2. PICK w \in Initials : w = Head(toClient[c])
  BY <1>1
<1>3. PICK msgs \in Seq(Answers) : msgs = w.msgs
  BY DEF Initials
<1>4. PICK y, z : y = seen /\ z = seen'
  OBVIOUS
<1>5. msgs \in Seq(Plain(y))
  <2>1. w \in PlainWires(y)
    BY <1>1, <1>2, <1>4, PlainFirst DEF PlainInv
  <2> QED BY <1>3, <2>1, PlainWire
<1>6. PICK r : r = ApplyInitialAssignments(store[c], msgs, TRUE)
  OBVIOUS
<1>7. Good(store[c]) /\ ~IsServer(store[c])
  BY <1>0 DEF NodeInv
<1>8. "flagged" \in y \/ (Bare(store[c]) /\ \A k \in DOMAIN msgs : BareMsg(msgs[k]))
  BY <1>0, <1>4, <1>5 DEF Plain, PlainInv, PlainNodes, PlainNode
<1>9. r.out = <<>> /\ r.requests \in Seq({m \in Assigns : m.id = NoId})
  BY <1>6, <1>7, ApplySpeaks
<1>10. "flagged" \in y \/ (Bare(r.st) /\ r.requests \in Seq({m \in Assigns : m.id = NoId /\ BareMsg(m)}))
  BY <1>6, <1>7, <1>8, ApplySpeaks
<1>11. r.requests \in Seq(Plain(z)) /\ r.requests \in Seq(Msgs)
  <2>1. {m \in Assigns : m.id = NoId} \subseteq Msgs
    BY DEF Msgs
  <2>2. CASE "flagged" \in y
    <3>1. {m \in Assigns : m.id = NoId} \subseteq Plain(z)
      BY <1>0, <1>4, <2>2 DEF Plain, Posts, Msgs, Assigns
    <3> QED BY <1>9, <2>1, <3>1, SeqMore
  <2>3. CASE "flagged" \notin y
    <3>1. {m \in Assigns : m.id = NoId /\ BareMsg(m)} \subseteq Plain(z)
      BY DEF Plain, Posts, Msgs, Assigns
    <3> QED BY <1>9, <1>10, <2>1, <2>3, <3>1, SeqMore
  <2> QED BY <2>2, <2>3
<1>12. PICK u : u = Reply(r.requests)
  OBVIOUS
<1>13. u \in PlainWires(z)
  BY <1>11, <1>12 DEF Reply, Replies, PlainWires
<1>14. PICK s \in Seq(PlainWires(z)) : s = <<u>>
  BY <1>13, OneMessage
<1>15. /\ Pass(c, "reader", "none", r) /\ toServer' = [toServer EXCEPT ![c] = <<u>>]
       /\ toClient' = [toClient EXCEPT ![c] = Tail(toClient[c])]
  BY <1>2, <1>3, <1>6, <1>12 DEF ApplyInitial, NewServer
<1>16. /\ toServer'[c] = s /\ toClient'[c] = <<>>
       /\ \A d \in Clients \ {c} : toServer'[d] = toServer[d] /\ toClient'[d] = toClient[d]
  BY <1>0, <1>1, <1>14, <1>15
<1>17. Seq(Plain(y)) \subseteq Seq(Plain(z))
  BY <1>0, <1>4, PlainMore
<1>18. PlainStreams(y, c)
  BY <1>4 DEF PlainInv, PlainNet
<1>19. PlainStreams(seen, c)'
  <2>1. toClient'[c] \in Seq(PlainWires(z))
    BY <1>16, EmptySeq
  <2> QED BY <1>0, <1>4, <1>14, <1>16, <1>17, <1>18, <2>1 DEF PlainStreams
<1>20. PlainNet'
  BY <1>0, <1>16, <1>19, PlainOne DEF PlainInv
<1>21. PlainNodes'
  <2>1. r.out \in Seq(PlainSends(seen'))
    BY <1>9, EmptySeq
  <2>2. "flagged" \in seen' \/ Bare(r.st)
    BY <1>0, <1>4, <1>10
  <2> QED BY <1>0, <1>15, <2>1, <2>2, PlainPass DEF PlainInv
<1> QED BY <1>0, <1>20, <1>21 DEF PlainInv, PlainFile

LEMMA ConnectPlain ==
  ASSUME PlainInv, NEW c \in Clients, Connect(c)
  PROVE  PlainInv'
<1>1. PlainStreams(seen, c)'
  BY DEF PlainInv, PlainNet, PlainStreams, Connect
<1> QED BY <1>1, PlainStill DEF Connect

\* A lost connection says nothing any more.
LEMMA PlainLost ==
  ASSUME PlainNet, NEW C, Lost(C), UNCHANGED seen
  PROVE  PlainNet'
<1>1. SUFFICES ASSUME NEW c \in Clients PROVE PlainStreams(seen, c)'
  BY DEF PlainNet
<1>2. PlainStreams(seen, c)
  BY DEF PlainNet
<1>3. CASE c \in C
  <2>1. /\ pendC'[c] = Q!NoPending /\ pendS'[c] = Q!NoPending
        /\ toServer'[c] = <<>> /\ toClient'[c] = <<>>
    BY <1>3 DEF Lost
  <2>2. pendC'[c].msgs = <<>> /\ pendS'[c].msgs = <<>>
    BY <2>1 DEF Q!NoPending
  <2> QED BY <2>1, <2>2, EmptySeq DEF PlainStreams
<1>4. CASE c \notin C
  <2>1. /\ pendC'[c] = pendC[c] /\ pendS'[c] = pendS[c]
        /\ toServer'[c] = toServer[c] /\ toClient'[c] = toClient[c]
    BY <1>4 DEF Lost
  <2> QED BY <1>2, <2>1 DEF PlainStreams
<1> QED BY <1>3, <1>4

LEMMA DisconnectPlain ==
  ASSUME PlainInv, NEW c \in Clients, Disconnect(c)
  PROVE  PlainInv'
<1>1. Lost({c}) /\ UNCHANGED <<store, hand, file, seen>>
  BY DEF Disconnect
<1>2. PlainNet'
  BY <1>1, PlainLost DEF PlainInv
<1> QED BY <1>1, <1>2 DEF PlainInv, PlainFile, PlainNodes, PlainNode, Bare

LEMMA SavePersistentPlain ==
  ASSUME TablesInv, PlainInv, SavePersistent
  PROVE  PlainInv'
<1>0. /\ store \in [Nodes -> Store] /\ Server \in Nodes /\ UNCHANGED <<hand, net, seen>>
      /\ store' = [store EXCEPT ![Server].dirty = FALSE]
      /\ file' = PersistentValues(store[Server])
  BY ServerIsNode DEF TablesInv, NodeInv, SavePersistent
<1>1. \A x \in Nodes : store'[x].entries = store[x].entries
  BY <1>0 DEF Store
<1>2. PlainNodes'
  BY <1>0, <1>1 DEF PlainInv, PlainNodes, PlainNode, Bare
<1>3. PlainFile'
  <2>1. CASE "flagged" \in seen
    BY <1>0, <2>1 DEF PlainFile
  <2>2. CASE Bare(store[Server])
    <3>1. \A n \in Names : ~IsPersistent(store[Server].entries[n])
      BY <2>2 DEF Bare, IsPersistent
    <3> QED BY <1>0, <3>1 DEF PlainFile, PersistentValues, NoFile
  <2> QED BY <1>0, <2>1, <2>2 DEF PlainInv, PlainNodes, PlainNode
<1>4. PlainNet'
  BY <1>0, PlainNetSame DEF PlainInv
<1> QED BY <1>2, <1>3, <1>4 DEF PlainInv

LEMMA ServerRestartsPlain ==
  ASSUME TablesInv, PlainInv, ServerRestarts
  PROVE  PlainInv'
<1>0. /\ store \in [Nodes -> Store] /\ hand \in [Nodes -> Seq(Held)] /\ Server \in Nodes
      /\ Lost(Clients) /\ UNCHANGED <<file, seen>>
      /\ store' = [store EXCEPT ![Server] = Loaded(file)] /\ hand' = [hand EXCEPT ![Server] = <<>>]
  BY ServerIsNode DEF TablesInv, NodeInv, ServerRestarts
<1>1. \A x \in Nodes : x # Server => store'[x] = store[x] /\ hand'[x] = hand[x]
  BY <1>0
<1>2. store'[Server] = Loaded(file) /\ hand'[Server] = <<>>
  BY <1>0
<1>3. file = NoFile => Bare(Loaded(file))
  BY DEF Loaded, EmptyStore, NoFile, Fresh, Bare
<1>4. PlainNode(seen, Server)'
  <2>1. "flagged" \in seen \/ Bare(store[Server])'
    <3>1. CASE "flagged" \in seen
      BY <3>1
    <3>2. CASE file = NoFile
      BY <1>2, <1>3, <3>2 DEF Bare
    <3> QED BY <3>1, <3>2 DEF PlainInv, PlainFile
  <2> QED BY <1>0, <1>2, <2>1, EmptySeq DEF PlainNode
<1>5. ASSUME NEW x \in Nodes, x # Server PROVE PlainNode(seen, x)'
  BY <1>0, <1>1, <1>5 DEF PlainInv, PlainNodes, PlainNode, Bare
<1>6. PlainNodes'
  BY <1>2, <1>4, <1>5, EmptySeq DEF PlainNodes
<1>7. PlainNet'
  BY <1>0, PlainLost DEF PlainInv
<1> QED BY <1>0, <1>6, <1>7 DEF PlainInv, PlainFile

\* Merging plain messages makes plain ones.
LEMMA PlainMerges ==
  ASSUME NEW s, NEW old \in Plain(s), NEW m \in Plain(s), m \in Assigns \cup Updates
  PROVE  Q!MergeInto(old, m) \in Plain(s)
<1>1. PICK x : x = Q!MergeInto(old, m)
  OBVIOUS
<1>2. CASE old.type = "assign" /\ m.type = "update"
  <2>1. old \in Assigns /\ m \in Updates
    BY <1>2, PostTypes DEF Plain
  <2>2. x = [old EXCEPT !.seq = m.seq, !.value = m.value]
    BY <1>1, <1>2 DEF Q!MergeInto
  <2>3. x \in Assigns /\ x.flags = old.flags
    BY <2>1, <2>2 DEF Assigns, Updates
  <2> QED BY <1>1, <2>1, <2>3 DEF Plain, BareMsg, Posts, Msgs, Assigns
<1>3. CASE ~(old.type = "assign" /\ m.type = "update")
  BY <1>3 DEF Q!MergeInto
<1> QED BY <1>2, <1>3

LEMMA PlainNone == \A s : Q!None \in Plain(s)
BY DEF Plain, Posts, BareMsg, Q!None

\* What is held once a message is queued.
LEMMA WithoutFirstSolo ==
  ASSUME NEW held \in Seq(Solos), NEW k \in 1 .. Len(held)
  PROVE  WithoutFirst(held, k) \in Seq(Solos)
<1>1. PICK h \in Solos : h = held[k]
  OBVIOUS
<1>2. Len(h.out) = 1
  BY DEF Solos
<1>3. ~(Len(held[k].out) > 1)
  BY <1>1, <1>2
<1>4. WithoutFirst(held, k) = SubSeq(held, 1, k - 1) \o SubSeq(held, k + 1, Len(held))
  BY <1>3 DEF WithoutFirst
<1>5. SubSeq(held, 1, k - 1) \in Seq(Solos) /\ SubSeq(held, k + 1, Len(held)) \in Seq(Solos)
  OBVIOUS
<1> QED BY <1>4, <1>5, Concat

LEMMA QueuePlain ==
  ASSUME TablesInv, PlainInv, NEW x \in Nodes, NEW k \in DOMAIN hand[x], Queue(x, k)
  PROVE  PlainInv'
<1>0. /\ hand \in [Nodes -> Seq(Held)] /\ Server \in Nodes
      /\ pendC \in [Clients -> Pending] /\ pendS \in [Clients -> Pending]
      /\ UNCHANGED <<store, toServer, toClient, file>> /\ seen \subseteq seen'
      /\ hand' = [hand EXCEPT ![x] = WithoutFirst(hand[x], k)]
      /\ QueueAt(x, hand[x][k])
  BY ServerIsNode DEF TablesInv, NodeInv, NetInv, Queue, SeenIf
<1>1. PICK y, z : y = seen /\ z = seen'
  OBVIOUS
<1>2. /\ Seq(Plain(y)) \subseteq Seq(Plain(z)) /\ Seq(PlainWires(y)) \subseteq Seq(PlainWires(z))
      /\ Seq(HeldOf(PlainSends(y))) \subseteq Seq(HeldOf(PlainSends(z)))
  BY <1>0, <1>1, PlainMore
<1>3. PICK S : S = PlainSends(y)
  OBVIOUS
<1>4. PICK held \in Seq(HeldOf(S)) : held = hand[x]
  BY <1>1, <1>3 DEF PlainInv, PlainNodes, PlainNode
<1>5. S \subseteq Sends /\ k \in 1 .. Len(held)
  BY <1>3, <1>4 DEF PlainSends
<1>6. PICK h \in HeldOf(S) : h = held[k]
  BY <1>5
<1>7. PICK s \in S : s = Head(h.out)
  <2>1. PICK o \in Seq(S) : o = h.out /\ o # <<>>
    BY DEF HeldOf, Held
  <2>2. Head(o) \in S
    BY <2>1, HeadTailProperties
  <2> QED BY <2>1, <2>2
<1>8. PICK m \in Msgs : m = s.msg /\ m \in Plain(y)
  BY <1>3 DEF PlainSends, Sends
<1>9. ASSUME NEW p \in Pending, p.msgs \in Seq(Plain(y))
      PROVE  Q!QueueOutgoing(p, m).msgs \in Seq(Plain(z))
  <2>1. m \in Assigns \cup Updates => \A old \in Plain(y) : Q!MergeInto(old, m) \in Plain(y)
    BY <1>8, PlainMerges
  <2>2. Q!QueueOutgoing(p, m).msgs \in Seq(Plain(y))
    BY <1>8, <1>9, <2>1, PlainNone, QueueWithin
  <2> QED BY <1>2, <2>2
<1>10. ASSUME NEW c \in Clients PROVE PlainStreams(z, c)'
  <2>1. PlainStreams(y, c)
    BY <1>1 DEF PlainInv, PlainNet
  <2>2. pendC[c] \in Pending /\ pendC[c].msgs \in Seq(Plain(y))
        /\ pendS[c] \in Pending /\ pendS[c].msgs \in Seq(Plain(y))
    BY <1>0, <2>1 DEF PlainStreams
  <2>3. pendC'[c].msgs \in Seq(Plain(z))
    <3>1. pendC'[c] \in {pendC[c], Q!QueueOutgoing(pendC[c], m)}
      BY <1>0, <1>4, <1>6, <1>7, <1>8 DEF QueueAt
    <3> QED BY <1>2, <1>9, <2>2, <3>1
  <2>4. pendS'[c].msgs \in Seq(Plain(z))
    <3>1. pendS'[c] \in {pendS[c], Q!QueueOutgoing(pendS[c], m)}
      BY <1>0, <1>4, <1>6, <1>7, <1>8 DEF QueueAt
    <3> QED BY <1>2, <1>9, <2>2, <3>1
  <2> QED BY <1>0, <1>2, <2>1, <2>3, <2>4 DEF PlainStreams
<1>11. PlainNet'
  BY <1>1, <1>10 DEF PlainNet
<1>12. hand'[x] = WithoutFirst(held, k) /\ \A w \in Nodes : w # x => hand'[w] = hand[w]
  BY <1>0, <1>4
<1>13. WithoutFirst(held, k) \in Seq(HeldOf(PlainSends(z)))
  <2>1. WithoutFirst(held, k) \in Seq(HeldOf(S))
    BY <1>5, WithoutFirstWithin
  <2> QED BY <1>2, <1>3, <2>1
<1>14. \A w \in Nodes : PlainNode(y, w)
  BY <1>1 DEF PlainInv, PlainNodes
<1>15. ASSUME NEW w \in Nodes PROVE PlainNode(z, w)'
  <2>1. hand'[w] \in Seq(HeldOf(PlainSends(z)))
    BY <1>2, <1>12, <1>13, <1>14 DEF PlainNode
  <2> QED BY <1>0, <1>1, <1>14, <2>1 DEF PlainNode, Bare
<1>16. hand'[Server] \in Seq(Solos)
  <2>1. hand[Server] \in Seq(Solos)
    BY DEF PlainInv, PlainNodes
  <2>2. CASE x = Server
    <3>1. PICK solo \in Seq(Solos) : solo = held
      BY <1>4, <2>1, <2>2
    <3>2. WithoutFirst(solo, k) \in Seq(Solos)
      BY <1>5, <3>1, WithoutFirstSolo
    <3> QED BY <1>12, <2>2, <3>1, <3>2
  <2>3. CASE x # Server
    BY <1>0, <1>12, <2>1, <2>3
  <2> QED BY <2>2, <2>3
<1>17. PlainNodes'
  BY <1>1, <1>15, <1>16 DEF PlainNodes
<1> QED BY <1>0, <1>11, <1>17 DEF PlainInv, PlainFile

LEMMA PlainInit == Init => PlainInv
<1> SUFFICES ASSUME Init PROVE PlainInv
  OBVIOUS
<1>1. ASSUME NEW x \in Nodes PROVE PlainNode(seen, x) /\ hand[x] = <<>>
  <2>1. hand[x] = <<>> /\ store[x].entries = [n \in Names |-> Fresh]
    BY <1>1 DEF Init, EmptyStore
  <2>2. Bare(store[x])
    BY <2>1 DEF Bare, Fresh
  <2> QED BY <2>1, <2>2, EmptySeq DEF PlainNode
<1>2. PlainNodes
  BY <1>1, ServerIsNode, EmptySeq DEF PlainNodes
<1>3. ASSUME NEW c \in Clients PROVE PlainStreams(seen, c)
  <2>1. /\ pendC[c] = Q!NoPending /\ pendS[c] = Q!NoPending
        /\ toServer[c] = <<>> /\ toClient[c] = <<>>
    BY <1>3 DEF Init
  <2>2. pendC[c].msgs = <<>> /\ pendS[c].msgs = <<>>
    BY <2>1 DEF Q!NoPending
  <2> QED BY <2>1, <2>2, EmptySeq DEF PlainStreams
<1> QED BY <1>2, <1>3 DEF Init, PlainInv, PlainFile, PlainNet

LEMMA PlainStep == TablesInv /\ IdsInv /\ PlainInv /\ [Next]_vars => PlainInv'
<1> SUFFICES ASSUME TablesInv, IdsInv, PlainInv, [Next]_vars PROVE PlainInv'
  OBVIOUS
<1>0. PICK f : Named(f)
  BY DEF IdsInv, Named
<1>1. ASSUME NEW x \in Nodes, Change(x) \/ ChangeFlags(x) \/ Queueing(x) PROVE PlainInv'
  <2>1. CASE Change(x)
    BY <1>0, <2>1, ChangePlain
  <2>2. CASE ChangeFlags(x)
    BY <1>0, <2>2, ChangeFlagsPlain
  <2>3. CASE Queueing(x)
    BY <2>3, QueuePlain DEF Queueing
  <2> QED BY <1>1, <2>1, <2>2, <2>3
<1>2. ASSUME NEW x \in Clearers, Clear(x) PROVE PlainInv'
  BY <1>2, ClearPlain, TablesAssumption
<1>3. ASSUME NEW c \in Clients, ClientStep(c) PROVE PlainInv'
  <2>1. CASE Connect(c)
    BY <2>1, ConnectPlain
  <2>2. CASE SendInitial(c)
    BY <2>2, SendInitialPlain
  <2>3. CASE ApplyInitial(c)
    BY <2>3, ApplyInitialPlain
  <2>4. CASE FinishHandshake(c)
    BY <2>4, FinishHandshakePlain
  <2>5. CASE ServerPosts(c)
    BY <2>5, ServerPostsPlain
  <2>6. CASE ClientPosts(c)
    BY <2>6, ClientPostsPlain
  <2>7. CASE ServerReads(c)
    BY <2>7, ServerReadsPlain
  <2>8. CASE ClientReads(c)
    BY <2>8, ClientReadsPlain
  <2> QED BY <1>3, <2>1, <2>2, <2>3, <2>4, <2>5, <2>6, <2>7, <2>8 DEF ClientStep
<1>4. ASSUME NEW c \in Clients, Disconnect(c) PROVE PlainInv'
  BY <1>4, DisconnectPlain
<1>5. CASE UNCHANGED vars
  <2>1. UNCHANGED <<store, hand, file, seen, net>>
    BY <1>5 DEF vars
  <2>2. PlainNet'
    BY <2>1, PlainNetSame DEF PlainInv
  <2> QED BY <2>1, <2>2 DEF PlainInv, PlainFile, PlainNodes, PlainNode, Bare
<1> QED BY <1>1, <1>2, <1>3, <1>4, <1>5, SavePersistentPlain, ServerRestartsPlain DEF Next

-----------------------------------------------------------------------------
(***************************************************************************)
(* While all is calm the messages are in order.                            *)
(***************************************************************************)
OrderInv == Calm => \E f : Named(f) /\ Ordered(f)

LEMMA SeenGrows == [Next]_vars => seen \subseteq seen'
<1>1. ASSUME NEW x \in Nodes, Change(x) \/ ChangeFlags(x) \/ Queueing(x) PROVE seen \subseteq seen'
  BY <1>1 DEF Change, ChangeFlags, Queueing, Queue, SeenIf
<1>2. ASSUME NEW x \in Clearers, Clear(x) PROVE seen \subseteq seen'
  BY <1>2 DEF Clear
<1>3. ASSUME NEW c \in Clients, ClientStep(c) \/ Disconnect(c) PROVE seen \subseteq seen'
  BY <1>3 DEF ClientStep, Connect, SendInitial, ApplyInitial, FinishHandshake, ServerPosts,
              ClientPosts, ServerReads, ClientReads, Disconnect, SeenIf
<1>4. UNCHANGED vars => seen \subseteq seen'
  BY DEF vars
<1>5. SavePersistent \/ ServerRestarts => seen \subseteq seen'
  BY DEF SavePersistent, ServerRestarts
<1> QED BY <1>1, <1>2, <1>3, <1>4, <1>5 DEF Next

\* What is queued was the first that is held, and in the server's case all of it.
LEMMA QueueOrder ==
  ASSUME TablesInv, TablesInv', PlainInv, NEW f, Named(f), Ordered(f), Follows(f),
         NEW x \in Nodes, Queueing(x), Calm'
  PROVE  StaysOrdered
<1>1. PICK k \in DOMAIN hand[x] : Queue(x, k)
  BY DEF Queueing
<1>2. CASE x # Server
  BY <1>1, <1>2, QueueClientOrder DEF Nodes
<1>3. CASE x = Server
  <2>1. k = 1
    <3>1. ~(k > 1)
      BY <1>1 DEF Queue, SeenIf, Calm, Overtaken
    <3>2. hand[Server] \in Seq(Held)
      BY ServerIsNode DEF TablesInv, NodeInv
    <3> QED BY <1>1, <1>3, <3>1, <3>2
  <2>2. hand[Server] # <<>> /\ Len(hand[Server][1].out) = 1
    <3>1. PICK held \in Seq(Solos) : held = hand[Server]
      BY DEF PlainInv, PlainNodes
    <3>2. held # <<>> /\ 1 \in DOMAIN held
      BY <1>1, <1>3, <2>1, <3>1
    <3>3. held[1] \in Solos
      BY <3>2
    <3> QED BY <3>1, <3>2, <3>3 DEF Solos
  <2> QED BY <1>1, <1>3, <2>1, <2>2, QueueServerOrder
<1> QED BY <1>2, <1>3

\* A client reads a ClearEntries only when nothing has flags.
LEMMA ReadsOrder ==
  ASSUME TablesInv, TablesInv', PlainInv, Calm, NEW f, Named(f), Ordered(f), Follows(f),
         NEW c \in Clients, ClientReads(c)
  PROVE  StaysOrdered
<1>1. ASSUME Head(toClient[c]).type = "clear" PROVE Bare(store[c])
  <2>1. PICK w \in PlainWires(seen) : w = Head(toClient[c])
    BY PlainFirst DEF PlainInv, ClientReads
  <2>2. w \in Plain(seen)
    BY <1>1, <2>1 DEF PlainWires, Initials, Replies
  <2>3. "cleared" \in seen
    BY <1>1, <2>1, <2>2 DEF Plain
  <2>4. "flagged" \notin seen
    BY <2>3 DEF Calm
  <2> QED BY <2>4, ServerIsNode DEF PlainInv, PlainNodes, PlainNode
<1> QED BY <1>1, ClientReadsOrder

LEMMA OrderInit == Init => OrderInv
<1> SUFFICES ASSUME Init PROVE \E f : Named(f) /\ Ordered(f)
  BY DEF OrderInv
<1>1. PICK f : Named(f)
  BY IdsInit DEF IdsInv, Named
<1>2. ASSUME NEW x \in Nodes
      PROVE  /\ \A i \in Ids : store[x].idmap[i] = NoName
             /\ hand[x] = <<>>
  BY <1>2 DEF Init, EmptyStore
<1>3. ASSUME NEW c \in Clients PROVE OrderedAt(f, c)
  <2>1. /\ pendC[c] = Q!NoPending /\ pendS[c] = Q!NoPending
        /\ toServer[c] = <<>> /\ toClient[c] = <<>> /\ link[c] \in {"up", "down"}
        /\ hand[c] = <<>> /\ hand[Server] = <<>>
    BY <1>2, <1>3, ServerIsNode DEF Init
  <2>2. pendC[c].msgs = <<>> /\ pendS[c].msgs = <<>>
    BY <2>1 DEF Q!NoPending
  <2>3. Bound(c) = {} /\ PostedTo(c) = <<>>
    BY <1>2, <2>1, ServerIsNode DEF Bound, PostedTo
  <2>4. ComingTo(c, <<>>) = <<>>
    <3>1. ComingTo(c, <<>>) \in Seq(Posts) /\ Len(ComingTo(c, <<>>)) = 0
      BY EmptySeq, ComingTyped
    <3> QED BY <3>1, EmptySeq
  <2>5. Line(c) = <<>>
    BY <2>1, <2>2, <2>3, <2>4 DEF Line
  <2>6. LineOK(f, c, Bound(c), Line(c), store[Server].idmap)
    <3>1. PICK B, idmap : B = {} /\ idmap = store[Server].idmap
      OBVIOUS
    <3>2. LineOK(f, c, B, <<>>, idmap)
      BY <3>1, LineStart
    <3> QED BY <2>3, <2>5, <3>1, <3>2
  <2>7. Listens(f, c)
    BY <2>1, <2>6, NothingKept DEF Listens
  <2>8. Spoken(f, c, Reach(c))
    BY <2>1, <2>2, EmptySeq DEF Spoken
  <2>9. OneIdEach(c)
    BY <1>2, ServerIsNode DEF OneIdEach
  <2> QED BY <2>2, <2>7, <2>8, <2>9 DEF OrderedAt
<1> QED BY <1>1, <1>3 DEF Ordered

LEMMA OrderStep == TablesInv /\ IdsInv /\ PlainInv /\ OrderInv /\ [Next]_vars => OrderInv'
<1> SUFFICES ASSUME TablesInv, IdsInv, PlainInv, OrderInv, [Next]_vars, Calm' PROVE StaysOrdered
  BY DEF OrderInv, StaysOrdered
<1>1. Calm
  BY SeenGrows DEF Calm, Overtaken
<1>2. PICK f : Named(f) /\ Ordered(f)
  BY <1>1 DEF OrderInv
<1>3. TablesInv'
  BY TablesStep
<1>4. CASE ServerRestarts
  BY <1>2, <1>4, ServerRestartsOrder
<1>5. CASE ~ServerRestarts
  <2>0. Follows(f)
    BY <1>2, <1>5, NamingStep
  <2>1. ASSUME NEW x \in Nodes, Change(x) \/ ChangeFlags(x) PROVE StaysOrdered
    BY <1>2, <1>3, <2>0, <2>1, ChangeOrder
  <2>2. ASSUME NEW x \in Nodes, Queueing(x) PROVE StaysOrdered
    BY <1>2, <1>3, <2>0, <2>2, QueueOrder
  <2>3. ASSUME NEW x \in Clearers, Clear(x) PROVE StaysOrdered
    <3>1. x = Server
      BY <1>1, <2>3 DEF Calm
    <3> QED BY <1>2, <1>3, <2>0, <2>3, <3>1, ClearOrder
  <2>4. ASSUME NEW c \in Clients, ClientStep(c) PROVE StaysOrdered
    <3>1. CASE Connect(c)
      BY <1>2, <2>0, <3>1, ConnectOrder
    <3>2. CASE SendInitial(c)
      <4>1. hand[Server] = <<>>
        BY <3>2 DEF SendInitial, SeenIf, Calm, Overtaken
      <4> QED BY <1>2, <2>0, <3>2, <4>1, SendInitialOrder
    <3>3. CASE ApplyInitial(c)
      <4>1. hand[c] = <<>>
        BY <3>3 DEF ApplyInitial, SeenIf, Calm, Overtaken
      <4> QED BY <1>2, <2>0, <3>3, <4>1, ApplyInitialOrder
    <3>4. CASE FinishHandshake(c)
      BY <1>2, <1>3, <2>0, <3>4, FinishHandshakeOrder
    <3>5. CASE ServerPosts(c)
      BY <1>2, <2>0, <3>5, ServerPostsOrder
    <3>6. CASE ClientPosts(c)
      BY <1>2, <2>0, <3>6, ClientPostsOrder
    <3>7. CASE ServerReads(c)
      BY <1>2, <1>3, <2>0, <3>7, ServerReadsOrder
    <3>8. CASE ClientReads(c)
      BY <1>1, <1>2, <1>3, <2>0, <3>8, ReadsOrder
    <3> QED BY <2>4, <3>1, <3>2, <3>3, <3>4, <3>5, <3>6, <3>7, <3>8 DEF ClientStep
  <2>5. ASSUME NEW c \in Clients, Disconnect(c) PROVE StaysOrdered
    BY <1>2, <2>0, <2>5, DisconnectOrder
  <2>6. CASE SavePersistent
    BY <1>2, <2>0, <2>6, SavePersistentOrder
  <2>7. CASE UNCHANGED vars
    <3>1. UNCHANGED <<hand, net, store>>
      BY <2>7 DEF vars
    <3> QED BY <1>2, <2>0, <3>1, StillOrdered
  <2> QED BY <1>5, <2>1, <2>2, <2>3, <2>4, <2>5, <2>6, <2>7 DEF Next
<1> QED BY <1>4, <1>5

LEMMA OrderedIsSound ==
  ASSUME TablesInv, IdsInv, ValuesInv, OrderInv
  PROVE  IdsSound
<1>1. ServerMapSound /\ ClientsLinked /\ IdsAgree
  BY OneNaming
<1>2. Calm => \A c \in Clients : OneIdEach(c)
  BY DEF OrderInv, Ordered, OrderedAt
<1>3. ValuesOwn
  BY ValuesFit
<1> QED BY <1>1, <1>2, <1>3 DEF IdsSound

\* However the threads interleave, whenever connections are lost and the server
\* restarts: the server's id map is exact, both ends of a connection mean the same
\* entry by an id, no value lands in an entry it was not written to, and while nothing
\* has overtaken anything no client has two ids for an entry that one node writes, so
\* that no deletion of one leaves the other alive.
THEOREM IdsAreSound == Spec => []IdsSound
<1>1. Init => IdsInv /\ ValuesInv /\ PlainInv /\ OrderInv
  BY IdsInit, ValuesInit, PlainInit, OrderInit
<1>2. TablesInv /\ IdsInv /\ ValuesInv /\ PlainInv /\ OrderInv /\ [Next]_vars
        => (IdsInv /\ ValuesInv /\ PlainInv /\ OrderInv)'
  BY IdsStep, ValuesStep, PlainStep, OrderStep
<1>3. TablesInv /\ IdsInv /\ ValuesInv /\ OrderInv => IdsSound
  BY OrderedIsSound
<1> QED BY <1>1, <1>2, <1>3, TablesSafe, PTL DEF Spec
=============================================================================
