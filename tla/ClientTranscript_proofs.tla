---------------------- MODULE ClientTranscript_proofs ----------------------
(***************************************************************************)
(* Theorems of ClientTranscript for every bound.                           *)
(*                                                                         *)
(* Select, Chunks and what is built from them are recursive functions;     *)
(* what they return is proved by induction over a set of numbers           *)
(* (Induction).                                                            *)
(*                                                                         *)
(* SocketInv: replies are beginnings of the log, frames name rows of the   *)
(* log and come in its order. RowsInv adds the rows of the cache and those *)
(* a load remembers: rows of the log once and in order, no gap but for a   *)
(* row that is on its way, one echo. EchoGoes, CurrentInv and TailInv      *)
(* stand each on RowsInv; they name the frame, in the socket or still to   *)
(* be asked for, that will mend what a property forbids once nothing is    *)
(* under way: the claim of the echo, the reset that drops a stale tail,    *)
(* the events that bring the tail up to the hub's buffer.                  *)
(***************************************************************************)
EXTENDS ClientTranscript, SequenceTheorems, WellFoundedInduction, TLAPS

-----------------------------------------------------------------------------
(* Induction, over a set of numbers: what the recursive functions of the   *)
(* model return is read off one step at a time.                            *)
LEMMA Induction ==
  ASSUME NEW S, 0 \in S, \A n \in Nat : n \in S => n + 1 \in S
  PROVE  Nat \subseteq S
<1> DEFINE T == Nat \ S
<1>1. SUFFICES ASSUME T # {} PROVE FALSE
  OBVIOUS
<1>2. PICK m \in T : \A k \in T : ~(<<k, m>> \in OpToRel(<, Nat))
  BY <1>1, WFMin, NatLessThanWellFounded
<1>3. \A k \in T : ~(k < m)
  BY <1>2 DEF OpToRel
<1>4. m - 1 \in Nat /\ m - 1 \notin T
  BY <1>3
<1> QED BY <1>4

(* Select, as a function of how much of the sequence it has seen.          *)
IsSelection(F, rows, places, n) ==
  F = [i \in 0..n |->
         IF i = 0 THEN <<>>
         ELSE IF i \in places THEN Append(F[i - 1], rows[i]) ELSE F[i - 1]]

LEMMA SelectionExists ==
  ASSUME NEW rows, NEW places
  PROVE  \A n \in Nat : \E F : IsSelection(F, rows, places, n)
<1> DEFINE S == {n \in Nat : \E F : IsSelection(F, rows, places, n)}
<1>1. 0 \in S
  <2>1. IsSelection([i \in 0..0 |-> <<>>], rows, places, 0)
    BY DEF IsSelection
  <2> QED BY <2>1
<1>2. ASSUME NEW n \in Nat, n \in S
      PROVE  n + 1 \in S
  <2>1. PICK F : IsSelection(F, rows, places, n)
    BY <1>2
  <2> DEFINE new == IF n + 1 \in places THEN Append(F[n], rows[n + 1]) ELSE F[n]
             G == [i \in 0..(n + 1) |-> IF i = n + 1 THEN new ELSE F[i]]
  <2>2. \A i \in 0..n : G[i] = F[i] /\ i # n + 1
    OBVIOUS
  <2>3. G[n + 1] = new
    OBVIOUS
  <2>4. ASSUME NEW i \in 0..(n + 1)
        PROVE  G[i] = IF i = 0 THEN <<>>
                      ELSE IF i \in places THEN Append(G[i - 1], rows[i]) ELSE G[i - 1]
    <3>1. CASE i = n + 1
      <4>1. i # 0 /\ i - 1 = n /\ i - 1 \in 0..n
        BY <3>1
      <4> QED BY <3>1, <4>1, <2>2, <2>3
    <3>2. CASE i # n + 1
      <4>1. i \in 0..n /\ (i # 0 => i - 1 \in 0..n)
        BY <3>2
      <4>2. F[i] = IF i = 0 THEN <<>>
                   ELSE IF i \in places THEN Append(F[i - 1], rows[i]) ELSE F[i - 1]
        BY <2>1, <4>1 DEF IsSelection
      <4> HIDE DEF G
      <4> QED BY <4>1, <4>2, <2>2
    <3> QED BY <3>1, <3>2
  <2> HIDE DEF new
  <2>5. G = [i \in 0..(n + 1) |->
               IF i = 0 THEN <<>>
               ELSE IF i \in places THEN Append(G[i - 1], rows[i]) ELSE G[i - 1]]
    BY <2>4
  <2>6. IsSelection(G, rows, places, n + 1)
    BY <2>5 DEF IsSelection
  <2> HIDE DEF G
  <2> QED BY <2>6
<1> HIDE DEF S
<1>3. Nat \subseteq S
  BY <1>1, <1>2, Induction
<1> QED BY <1>3 DEF S

(* What Select returns: h takes the places of the result to those of the   *)
(* sequence, in their order and leaving none out.                          *)
Embeds(h, out, rows, places, n) ==
  /\ h \in [1..Len(out) -> 1..n]
  /\ \A i \in 1..Len(out) : h[i] \in places /\ out[i] = rows[h[i]]
  /\ \A i, k \in 1..Len(out) : i < k => h[i] < h[k]
  /\ \A p \in 1..n : p \in places => \E i \in 1..Len(out) : h[i] = p

LEMMA EmbedsNext ==
  ASSUME NEW S, NEW rows \in Seq(S), NEW places, NEW n \in Nat, n + 1 <= Len(rows),
         NEW out \in Seq(S), NEW h, Embeds(h, out, rows, places, n), n + 1 \in places
  PROVE  \E g : Embeds(g, Append(out, rows[n + 1]), rows, places, n + 1)
<1> DEFINE out2 == Append(out, rows[n + 1])
           m == Len(out) + 1
           g == [i \in 1..m |-> IF i = m THEN n + 1 ELSE h[i]]
<1>1. rows[n + 1] \in S /\ Len(out) \in Nat
  OBVIOUS
<1>2. Len(out2) = m /\ out2[m] = rows[n + 1] /\ \A i \in 1..Len(out) : out2[i] = out[i]
  BY <1>1
<1>3. m \in Nat /\ m \in 1..m /\ (\A i \in 1..m : i # m => i \in 1..Len(out))
  BY <1>1
<1>4. \A i \in 1..Len(out) : h[i] \in 1..n /\ i # m /\ i \in 1..m
  BY <1>1 DEF Embeds
<1>5. g[m] = n + 1 /\ \A i \in 1..Len(out) : g[i] = h[i]
  BY <1>3, <1>4
<1>6. g \in [1..m -> 1..(n + 1)]
  BY <1>3, <1>4
<1> HIDE DEF g, m, out2
<1>7. \A i \in 1..m : g[i] \in places /\ out2[i] = rows[g[i]]
  BY <1>2, <1>3, <1>5 DEF Embeds
<1>8. \A i, k \in 1..m : i < k => g[i] < g[k]
  <2> SUFFICES ASSUME NEW i \in 1..m, NEW k \in 1..m, i < k PROVE g[i] < g[k]
    OBVIOUS
  <2>1. i # m
    BY <1>3
  <2>2. i \in 1..Len(out)
    BY <1>3, <2>1
  <2>3. CASE k = m
    BY <2>2, <2>3, <1>4, <1>5
  <2>4. CASE k # m
    BY <2>2, <2>4, <1>3, <1>5 DEF Embeds
  <2> QED BY <2>3, <2>4
<1>9. \A p \in 1..(n + 1) : p \in places => \E i \in 1..m : g[i] = p
  <2> SUFFICES ASSUME NEW p \in 1..(n + 1), p \in places PROVE \E i \in 1..m : g[i] = p
    OBVIOUS
  <2>1. CASE p = n + 1
    BY <2>1, <1>3, <1>5
  <2>2. CASE p # n + 1
    <3>1. PICK i \in 1..Len(out) : h[i] = p
      BY <2>2 DEF Embeds
    <3> QED BY <3>1, <1>4, <1>5
  <2> QED BY <2>1, <2>2
<1>10. Embeds(g, out2, rows, places, n + 1)
  BY <1>2, <1>6, <1>7, <1>8, <1>9 DEF Embeds
<1> QED BY <1>10 DEF out2

LEMMA SelectLemma ==
  ASSUME NEW S, NEW rows \in Seq(S), NEW places
  PROVE  /\ Select(rows, places) \in Seq(S)
         /\ \E h : Embeds(h, Select(rows, places), rows, places, Len(rows))
<1> DEFINE F == CHOOSE G : IsSelection(G, rows, places, Len(rows))
<1>1. Len(rows) \in Nat
  OBVIOUS
<1>2. IsSelection(F, rows, places, Len(rows))
  BY <1>1, SelectionExists
<1>3. Select(rows, places) = F[Len(rows)]
  BY DEF Select, IsSelection
<1> HIDE DEF F
<1>unfold. \A i \in 0..Len(rows) :
        F[i] = IF i = 0 THEN <<>>
               ELSE IF i \in places THEN Append(F[i - 1], rows[i]) ELSE F[i - 1]
  BY <1>2 DEF IsSelection
<1> DEFINE P(n) == F[n] \in Seq(S) /\ \E h : Embeds(h, F[n], rows, places, n)
           T == {n \in Nat : n <= Len(rows) => P(n)}
<1>4. 0 \in T
  <2>1. F[0] = <<>>
    BY <1>1, <1>2 DEF IsSelection
  <2>2. Embeds([i \in 1..0 |-> 0], F[0], rows, places, 0)
    BY <2>1 DEF Embeds
  <2>3. F[0] \in Seq(S)
    BY <2>1
  <2>4. P(0)
    BY <2>2, <2>3
  <2> QED BY <2>4
<1>5. ASSUME NEW n \in Nat, n \in T
      PROVE  n + 1 \in T
  <2> SUFFICES ASSUME n + 1 <= Len(rows) PROVE P(n + 1)
    OBVIOUS
  <2>1. F[n] \in Seq(S) /\ \E h : Embeds(h, F[n], rows, places, n)
    BY <1>1, <1>5
  <2>2. F[n + 1] = IF n + 1 \in places THEN Append(F[n], rows[n + 1]) ELSE F[n]
    <3>1. n + 1 \in 0..Len(rows) /\ n + 1 # 0 /\ n + 1 - 1 = n
      BY <1>1
    <3>2. F[n + 1] = IF n + 1 = 0 THEN <<>>
                     ELSE IF n + 1 \in places THEN Append(F[n + 1 - 1], rows[n + 1])
                     ELSE F[n + 1 - 1]
      BY <3>1, <1>unfold
    <3> QED BY <3>1, <3>2
  <2>3. PICK h : Embeds(h, F[n], rows, places, n)
    BY <2>1
  <2>4. CASE n + 1 \in places
    BY <2>1, <2>2, <2>3, <2>4, <1>1, EmbedsNext
  <2>5. CASE n + 1 \notin places
    <3>1. Embeds(h, F[n], rows, places, n + 1)
      BY <2>3, <2>5 DEF Embeds
    <3> QED BY <3>1, <2>1, <2>2, <2>5
  <2> QED BY <2>4, <2>5
<1> HIDE DEF T
<1>6. Nat \subseteq T
  BY <1>4, <1>5, Induction
<1>7. P(Len(rows))
  BY <1>1, <1>6 DEF T
<1> QED BY <1>3, <1>7

(* Chunks, one event after the other.                                      *)
IsApplication(F, rows, t, n) ==
  F = [i \in 0..n |-> IF i = 0 THEN rows ELSE Chunk(F[i - 1], t, i)]

LEMMA ApplicationExists ==
  ASSUME NEW rows, NEW t
  PROVE  \A n \in Nat : \E F : IsApplication(F, rows, t, n)
<1> DEFINE S == {n \in Nat : \E F : IsApplication(F, rows, t, n)}
<1>1. 0 \in S
  <2>1. IsApplication([i \in 0..0 |-> rows], rows, t, 0)
    BY DEF IsApplication
  <2> QED BY <2>1
<1>2. ASSUME NEW n \in Nat, n \in S
      PROVE  n + 1 \in S
  <2>1. PICK F : IsApplication(F, rows, t, n)
    BY <1>2
  <2> DEFINE new == Chunk(F[n], t, n + 1)
             G == [i \in 0..(n + 1) |-> IF i = n + 1 THEN new ELSE F[i]]
  <2>2. \A i \in 0..n : G[i] = F[i] /\ i # n + 1
    OBVIOUS
  <2>3. G[n + 1] = new
    OBVIOUS
  <2>4. ASSUME NEW i \in 0..(n + 1)
        PROVE  G[i] = IF i = 0 THEN rows ELSE Chunk(G[i - 1], t, i)
    <3>1. CASE i = n + 1
      <4>1. i # 0 /\ i - 1 = n /\ i - 1 \in 0..n
        BY <3>1
      <4> QED BY <3>1, <4>1, <2>2, <2>3
    <3>2. CASE i # n + 1
      <4>1. i \in 0..n /\ (i # 0 => i - 1 \in 0..n)
        BY <3>2
      <4>2. F[i] = IF i = 0 THEN rows ELSE Chunk(F[i - 1], t, i)
        BY <2>1, <4>1 DEF IsApplication
      <4> HIDE DEF G
      <4> QED BY <4>1, <4>2, <2>2
    <3> QED BY <3>1, <3>2
  <2> HIDE DEF new
  <2>5. G = [i \in 0..(n + 1) |-> IF i = 0 THEN rows ELSE Chunk(G[i - 1], t, i)]
    BY <2>4
  <2>6. IsApplication(G, rows, t, n + 1)
    BY <2>5 DEF IsApplication
  <2> HIDE DEF G
  <2> QED BY <2>6
<1> HIDE DEF S
<1>3. Nat \subseteq S
  BY <1>1, <1>2, Induction
<1> QED BY <1>3 DEF S

OneByOne(F, rows, t, n) == F[0] = rows /\ \A i \in 1..n : F[i] = Chunk(F[i - 1], t, i)

LEMMA ChunksLemma ==
  ASSUME NEW rows, NEW t, NEW n \in Nat
  PROVE  \E F : OneByOne(F, rows, t, n) /\ Chunks(rows, t, n) = F[n]
<1> DEFINE F == CHOOSE G : IsApplication(G, rows, t, n)
<1>1. IsApplication(F, rows, t, n)
  BY ApplicationExists
<1>2. Chunks(rows, t, n) = F[n]
  BY DEF Chunks, IsApplication
<1> HIDE DEF F
<1>3. \A i \in 0..n : F[i] = IF i = 0 THEN rows ELSE Chunk(F[i - 1], t, i)
  BY <1>1 DEF IsApplication
<1>4. F[0] = rows /\ \A i \in 1..n : F[i] = Chunk(F[i - 1], t, i)
  BY <1>3
<1>5. OneByOne(F, rows, t, n)
  BY <1>4 DEF OneByOne
<1> QED BY <1>2, <1>5

(* A chunk changes no row but an agent's of its turn, and of that only the *)
(* text; what it adds is transient.                                        *)
Grown(rows, out, t) ==
  /\ out \in Seq(Row) /\ Len(rows) <= Len(out)
  /\ \A i \in 1..Len(rows) :
       /\ out[i].seq = rows[i].seq /\ out[i].turn = rows[i].turn /\ out[i].by = rows[i].by
       /\ rows[i].by = "user" => out[i] = rows[i]
  /\ \A i \in 1..Len(out) : i > Len(rows) =>
       out[i].seq = 0 /\ out[i].turn = t /\ out[i].by = "agent"

LEMMA RowIsItsFields ==
  \A row \in Row :
    row = [seq |-> row.seq, turn |-> row.turn, by |-> row.by, text |-> row.text]
BY DEF Row

LEMMA TextReplaced ==
  ASSUME NEW row \in Row, NEW text \in Seq(Nat)
  PROVE  /\ [row EXCEPT !.text = text] \in Row
         /\ [row EXCEPT !.text = text] =
              [seq |-> row.seq, turn |-> row.turn, by |-> row.by, text |-> text]
<1> DEFINE new == [row EXCEPT !.text = text]
           same == [seq |-> row.seq, turn |-> row.turn, by |-> row.by, text |-> text]
<1>1. new \in Row
  BY DEF Row
<1>2. new.seq = row.seq /\ new.turn = row.turn /\ new.by = row.by /\ new.text = text
  BY DEF Row
<1>3. same \in Row
  BY DEF Row
<1>4. \A x, y \in Row : x.seq = y.seq /\ x.turn = y.turn /\ x.by = y.by /\ x.text = y.text
        => x = y
  BY RowIsItsFields
<1>5. /\ same.seq = row.seq /\ same.turn = row.turn /\ same.by = row.by
      /\ same.text = text
  OBVIOUS
<1> HIDE DEF new, same
<1>6. new = same
  BY <1>1, <1>2, <1>3, <1>4, <1>5
<1> QED BY <1>1, <1>6 DEF new, same

LEMMA ChunkGrows ==
  ASSUME NEW rows \in Seq(Row), NEW t \in Nat, NEW n \in Nat
  PROVE  Grown(rows, Chunk(rows, t, n), t)
<1> DEFINE m == Len(rows)
           new == [seq |-> 0, turn |-> t, by |-> "agent", text |-> <<n>>]
<1>1. m \in Nat /\ \A i \in 1..m : rows[i] \in Row
  OBVIOUS
<1>2. new \in Row
  BY DEF Row
<1>3. CASE rows # <<>> /\ rows[m].by = "agent" /\ rows[m].turn = t
  <2> DEFINE last == [rows[m] EXCEPT !.text = Append(@, n)]
             out == [rows EXCEPT ![m] = last]
  <2>1. m \in 1..m /\ rows[m] \in Row
    BY <1>1, <1>3
  <2>2. last \in Row /\ last.seq = rows[m].seq /\ last.turn = rows[m].turn
        /\ last.by = rows[m].by
    <3>1. rows[m].text \in Seq(Nat)
      BY <2>1 DEF Row
    <3>2. Append(rows[m].text, n) \in Seq(Nat)
      BY <3>1
    <3> DEFINE text == Append(rows[m].text, n)
    <3>3. last = [rows[m] EXCEPT !.text = text]
      OBVIOUS
    <3>4. text \in Seq(Nat)
      BY <3>2
    <3> HIDE DEF text, last
    <3>5. last \in Row
          /\ last = [seq |-> rows[m].seq, turn |-> rows[m].turn, by |-> rows[m].by,
                     text |-> text]
      BY <2>1, <3>3, <3>4, TextReplaced
    <3> QED BY <3>5
  <2> HIDE DEF last
  <2>3. out \in Seq(Row) /\ Len(out) = m /\ out[m] = last
        /\ \A i \in 1..m : i # m => out[i] = rows[i]
    BY <1>1, <2>1, <2>2
  <2>4. Chunk(rows, t, n) = out
    BY <1>3 DEF Chunk, last
  <2>5. rows[m].by # "user"
    BY <1>3
  <2> HIDE DEF out
  <2>6. Grown(rows, out, t)
    BY <1>1, <2>2, <2>3, <2>5 DEF Grown
  <2> QED BY <2>4, <2>6
<1>4. CASE ~(rows # <<>> /\ rows[m].by = "agent" /\ rows[m].turn = t)
  <2> DEFINE out == Append(rows, new)
  <2>1. Chunk(rows, t, n) = out
    BY <1>4 DEF Chunk
  <2> HIDE DEF new
  <2>2. out \in Seq(Row) /\ Len(out) = m + 1 /\ out[m + 1] = new
        /\ \A i \in 1..m : out[i] = rows[i]
    BY <1>1, <1>2
  <2> HIDE DEF out
  <2>3. \A i \in 1..Len(out) : i > m => out[i] = new
    BY <1>1, <2>2
  <2>4. Grown(rows, out, t)
    BY <1>1, <2>2, <2>3 DEF Grown, new
  <2> QED BY <2>1, <2>4
<1> QED BY <1>3, <1>4

LEMMA GrownAgain ==
  ASSUME NEW rows \in Seq(Row), NEW mid, NEW out, NEW t, Grown(rows, mid, t), Grown(mid, out, t)
  PROVE  Grown(rows, out, t)
<1>1. /\ Len(rows) \in Nat /\ Len(mid) \in Nat /\ Len(out) \in Nat
      /\ Len(rows) <= Len(mid) /\ Len(mid) <= Len(out)
  BY DEF Grown
<1>2. \A i \in 1..Len(rows) : i \in 1..Len(mid)
  BY <1>1
<1>3. \A i \in 1..Len(out) : i > Len(rows) => (i \in 1..Len(mid) \/ i > Len(mid))
  BY <1>1
<1>4. \A i \in 1..Len(rows) :
        /\ out[i].seq = rows[i].seq /\ out[i].turn = rows[i].turn
        /\ out[i].by = rows[i].by
        /\ rows[i].by = "user" => out[i] = rows[i]
  BY <1>2 DEF Grown
<1>5. \A i \in 1..Len(out) : i > Len(rows) =>
        out[i].seq = 0 /\ out[i].turn = t /\ out[i].by = "agent"
  BY <1>3 DEF Grown
<1>6. out \in Seq(Row) /\ Len(rows) <= Len(out)
  BY <1>1 DEF Grown
<1> QED BY <1>4, <1>5, <1>6 DEF Grown

LEMMA ChunksGrow ==
  ASSUME NEW rows \in Seq(Row), NEW t \in Nat, NEW n \in Nat
  PROVE  Grown(rows, Chunks(rows, t, n), t)
<1>p. PICK F : OneByOne(F, rows, t, n) /\ Chunks(rows, t, n) = F[n]
  BY ChunksLemma
<1>1. F[0] = rows /\ Chunks(rows, t, n) = F[n]
  BY <1>p DEF OneByOne
<1>f. \A i \in 1..n : F[i] = Chunk(F[i - 1], t, i)
  BY <1>p DEF OneByOne
<1> DEFINE S == {i \in Nat : i <= n => Grown(rows, F[i], t)}
<1>2. 0 \in S
  BY <1>1 DEF Grown
<1>3. ASSUME NEW i \in Nat, i \in S
      PROVE  i + 1 \in S
  <2> SUFFICES ASSUME i + 1 <= n PROVE Grown(rows, F[i + 1], t)
    OBVIOUS
  <2>1. Grown(rows, F[i], t)
    BY <1>3
  <2>2. F[i + 1] = Chunk(F[i], t, i + 1)
    <3>1. i + 1 \in 1..n /\ i + 1 - 1 = i
      OBVIOUS
    <3>2. F[i + 1] = Chunk(F[i + 1 - 1], t, i + 1)
      BY <3>1, <1>f
    <3> QED BY <3>1, <3>2
  <2>3. Grown(F[i], F[i + 1], t)
    <3>1. F[i] \in Seq(Row) /\ i + 1 \in Nat
      BY <2>1 DEF Grown
    <3>2. Grown(F[i], Chunk(F[i], t, i + 1), t)
      BY <3>1, ChunkGrows
    <3> QED BY <2>2, <3>2
  <2> QED BY <2>1, <2>3, GrownAgain
<1> HIDE DEF S
<1>4. Nat \subseteq S
  BY <1>2, <1>3, Induction
<1>5. Grown(rows, F[n], t)
  BY <1>4 DEF S
<1> QED BY <1>1, <1>5

(* Applied to rows with none of the agent's in this turn, the events make  *)
(* one row that holds all of them in their order.                          *)
UpTo(n) == [i \in 1..n |-> i]
TailRow(t, n) == [seq |-> 0, turn |-> t, by |-> "agent", text |-> UpTo(n)]

LEMMA FirstChunk ==
  ASSUME NEW rows \in Seq(Row), NEW t \in Nat,
         \A i \in 1..Len(rows) : ~(rows[i].turn = t /\ rows[i].by = "agent")
  PROVE  Chunk(rows, t, 1) = Append(rows, TailRow(t, 1))
<1>1. rows # <<>> => Len(rows) \in 1..Len(rows)
  OBVIOUS
<1>2. <<1>> = [i \in 1..1 |-> i]
  <2>1. \A i \in 1..1 : i = 1
    OBVIOUS
  <2> QED BY <2>1
<1> QED BY <1>1, <1>2 DEF Chunk, TailRow, UpTo

LEMMA NextChunk ==
  ASSUME NEW t \in Nat, NEW n \in Nat, NEW out \in Seq(Row), out # <<>>, out[Len(out)].by = "agent", out[Len(out)].turn = t,
         out[Len(out)].text = UpTo(n)
  PROVE  /\ Chunk(out, t, n + 1) \in Seq(Row) /\ Len(Chunk(out, t, n + 1)) = Len(out)
         /\ \A i \in 1..Len(out) : i # Len(out) => Chunk(out, t, n + 1)[i] = out[i]
         /\ Chunk(out, t, n + 1)[Len(out)] =
              [out[Len(out)] EXCEPT !.text = UpTo(n + 1)]
<1> DEFINE m == Len(out)
           text == UpTo(n)
<1>1. m \in 1..m /\ out[m] \in Row
  OBVIOUS
<1>2. Append(text, n + 1) = UpTo(n + 1)
  <2>1. text \in Seq(Nat) /\ Len(text) = n /\ \A i \in 1..n : text[i] = i
    BY DEF UpTo
  <2> HIDE DEF text
  <2> DEFINE longer == Append(text, n + 1)
             whole == UpTo(n + 1)
  <2>2. /\ longer \in Seq(Nat) /\ Len(longer) = n + 1 /\ longer[n + 1] = n + 1
        /\ \A i \in 1..n : longer[i] = i
    BY <2>1
  <2>3. whole \in Seq(Nat) /\ Len(whole) = n + 1 /\ \A i \in 1..(n + 1) : whole[i] = i
    BY DEF UpTo
  <2> HIDE DEF longer, whole
  <2>4. \A i \in 1..(n + 1) : longer[i] = whole[i]
    BY <2>2, <2>3
  <2>5. longer = whole
    BY <2>2, <2>3, <2>4, SeqEqual
  <2> QED BY <2>5 DEF longer, whole
<1> DEFINE new == [out[m] EXCEPT !.text = Append(text, n + 1)]
<1>3. Chunk(out, t, n + 1) = [out EXCEPT ![m] = new]
  BY <1>1 DEF Chunk
<1>4. new = [out[m] EXCEPT !.text = UpTo(n + 1)]
  BY <1>2
<1>5. new \in Row
  <2>1. UpTo(n + 1) \in Seq(Nat)
    BY DEF UpTo
  <2> QED BY <2>1, <1>1, <1>4, TextReplaced
<1> HIDE DEF new
<1>6. /\ [out EXCEPT ![m] = new] \in Seq(Row) /\ Len([out EXCEPT ![m] = new]) = m
      /\ [out EXCEPT ![m] = new][m] = new
      /\ \A i \in 1..m : i # m => [out EXCEPT ![m] = new][i] = out[i]
  BY <1>1, <1>5
<1> QED BY <1>3, <1>4, <1>6

LEMMA TailGrows ==
  ASSUME NEW rows \in Seq(Row), NEW t \in Nat, NEW i \in Nat
  PROVE  Chunk(Append(rows, TailRow(t, i)), t, i + 1) = Append(rows, TailRow(t, i + 1))
<1> DEFINE m == Len(rows) + 1
           out == Append(rows, TailRow(t, i))
           next == Append(rows, TailRow(t, i + 1))
<1>1. TailRow(t, i) \in Row /\ TailRow(t, i + 1) \in Row
  BY DEF TailRow, Row, UpTo
<1>2. /\ out \in Seq(Row) /\ Len(out) = m /\ out[m] = TailRow(t, i) /\ out # <<>>
      /\ \A k \in 1..Len(rows) : out[k] = rows[k]
  BY <1>1
<1>3. /\ next \in Seq(Row) /\ Len(next) = m /\ next[m] = TailRow(t, i + 1)
      /\ \A k \in 1..Len(rows) : next[k] = rows[k]
  BY <1>1
<1>4. /\ TailRow(t, i).by = "agent" /\ TailRow(t, i).turn = t /\ TailRow(t, i).seq = 0
      /\ TailRow(t, i).text = UpTo(i) /\ UpTo(i + 1) \in Seq(Nat)
  BY DEF TailRow, UpTo
<1>5. TailRow(t, i + 1) = [seq |-> 0, turn |-> t, by |-> "agent", text |-> UpTo(i + 1)]
  BY DEF TailRow
<1>6. [TailRow(t, i) EXCEPT !.text = UpTo(i + 1)] = TailRow(t, i + 1)
  BY <1>1, <1>4, <1>5, TextReplaced
<1> HIDE DEF out, next
<1>7. /\ out[Len(out)].by = "agent" /\ out[Len(out)].turn = t
      /\ out[Len(out)].text = UpTo(i)
  BY <1>2, <1>4
<1>8. /\ Chunk(out, t, i + 1) \in Seq(Row) /\ Len(Chunk(out, t, i + 1)) = Len(out)
      /\ \A k \in 1..Len(out) : k # Len(out) => Chunk(out, t, i + 1)[k] = out[k]
      /\ Chunk(out, t, i + 1)[Len(out)] = [out[Len(out)] EXCEPT !.text = UpTo(i + 1)]
  BY <1>2, <1>7, NextChunk
<1>9. Chunk(out, t, i + 1)[m] = TailRow(t, i + 1)
  BY <1>2, <1>6, <1>8
<1>10. \A k \in 1..m : Chunk(out, t, i + 1)[k] = next[k]
  BY <1>2, <1>3, <1>8, <1>9
<1>11. Chunk(out, t, i + 1) = next
  BY <1>2, <1>3, <1>8, <1>10, SeqEqual
<1> QED BY <1>11 DEF out, next

LEMMA ChunksTail ==
  ASSUME NEW rows \in Seq(Row), NEW t \in Nat, NEW n \in Nat,
         \A i \in 1..Len(rows) : ~(rows[i].turn = t /\ rows[i].by = "agent")
  PROVE  Chunks(rows, t, n) = IF n = 0 THEN rows ELSE Append(rows, TailRow(t, n))
<1>p. PICK F : OneByOne(F, rows, t, n) /\ Chunks(rows, t, n) = F[n]
  BY ChunksLemma
<1>1. F[0] = rows /\ Chunks(rows, t, n) = F[n]
  BY <1>p DEF OneByOne
<1>f. \A i \in 1..n : F[i] = Chunk(F[i - 1], t, i)
  BY <1>p DEF OneByOne
<1> DEFINE Is(i) == F[i] = IF i = 0 THEN rows ELSE Append(rows, TailRow(t, i))
           S == {i \in Nat : i <= n => Is(i)}
<1>2. 0 \in S
  BY <1>1
<1>3. ASSUME NEW i \in Nat, i \in S
      PROVE  i + 1 \in S
  <2> SUFFICES ASSUME i + 1 <= n PROVE Is(i + 1)
    OBVIOUS
  <2>0. SUFFICES F[i + 1] = Append(rows, TailRow(t, i + 1))
    <3>1. i + 1 # 0
      OBVIOUS
    <3> QED BY <3>1
  <2>1. Is(i)
    BY <1>3
  <2>2. F[i + 1] = Chunk(F[i], t, i + 1)
    <3>1. i + 1 \in 1..n /\ i + 1 - 1 = i
      OBVIOUS
    <3>2. F[i + 1] = Chunk(F[i + 1 - 1], t, i + 1)
      BY <3>1, <1>f
    <3> QED BY <3>1, <3>2
  <2>3. CASE i = 0
    BY <2>1, <2>2, <2>3, FirstChunk
  <2>4. CASE i # 0
    BY <2>1, <2>2, <2>4, TailGrows
  <2> QED BY <2>3, <2>4
<1> HIDE DEF S
<1>4. Nat \subseteq S
  BY <1>2, <1>3, Induction
<1>5. Is(n)
  BY <1>4 DEF S
<1> QED BY <1>1, <1>5

(* What frames and rows are.                                               *)
IsUser(f) == f.type \in {"user", "mine"}
HasSeq(rows, n) == \E i \in 1..Len(rows) : rows[i].seq = n
HasEcho(rows) == \E i \in 1..Len(rows) : rows[i] = Echo
Prefix(reply) == Len(reply) <= Len(log) /\ \A i \in 1..Len(reply) : reply[i] = log[i]

(* The log: no turn after the latest, and only the last row answers it.    *)
LogInv ==
  /\ phase = "idle" => sent = 0
  /\ Len(log) <= 2 * turn
  /\ phase = "running" /\ ~Answered => Len(log) + 1 <= 2 * turn
  /\ \A i \in 1..Len(log) :
       /\ log[i].turn <= turn
       /\ log[i].turn = turn /\ log[i].by = "agent" => i = Len(log)

(* Frames come in the order of turns, user rows in the order of the log.   *)
Announces(f, l) == f.n \in 1..Len(l) /\ l[f.n] = [turn |-> f.turn, by |-> "user"]

Linked == bound \/ readies > 0 => link
FramesOfLog ==
  \A i \in 1..Len(wire) : /\ wire[i].turn <= turn
                          /\ IsUser(wire[i]) => Announces(wire[i], log)
FramesInOrder ==
  \A i, k \in 1..Len(wire) :
    i < k /\ IsUser(wire[i]) /\ IsUser(wire[k]) => wire[i].n < wire[k].n
WireInv == Linked /\ FramesOfLog /\ FramesInOrder

(* Until the message written here reaches the browser, nothing but resets  *)
(* comes before it.                                                        *)
MineInv ==
  /\ mine = "sent" => phase = "idle" /\ \A i \in 1..Len(wire) : wire[i].type = "reset"
  /\ \A k \in 1..Len(wire) : wire[k].type = "mine" =>
       mine = "started" /\ \A i \in 1..(k - 1) : wire[i].type = "reset"

SocketInv ==
  TypeOK /\ LogInv /\ WireInv /\ MineInv /\ Prefix(load.reply) /\ Prefix(kept.reply)

(* Saved rows are rows of the log, once each and in its order, and the     *)
(* echo is alone.                                                          *)
Ordered(rows) ==
  \A i, k \in 1..Len(rows) : i < k /\ Saved(rows[i]) /\ Saved(rows[k]) =>
    rows[i].seq < rows[k].seq

OfLog(rows) ==
  \A i \in 1..Len(rows) :
    /\ rows[i].seq <= Len(log) /\ rows[i].turn <= turn
    /\ Saved(rows[i]) =>
         log[rows[i].seq] = [turn |-> rows[i].turn, by |-> rows[i].by]

(* A row that comes after one that is still on its way: that one is there. *)
Filled(rows) ==
  \A k \in 1..Len(wire) : IsUser(wire[k]) =>
    \A i \in 1..Len(rows) : rows[i].seq > wire[k].n => HasSeq(rows, wire[k].n)

OneEcho(rows) ==
  /\ \A i, k \in 1..Len(rows) : rows[i] = Echo /\ rows[k] = Echo => i = k
  /\ HasEcho(rows) => mine # "none"

Shown(rows) == Ordered(rows) /\ OfLog(rows) /\ Filled(rows) /\ OneEcho(rows)

(* Nothing saved comes after an echo that is to become a row.              *)
EchoIsLast ==
  mine = "sent" \/ (\E k \in 1..Len(wire) : wire[k].type = "mine") =>
    \A i, k \in 1..Len(cache) : i < k /\ cache[i] = Echo => Transient(cache[k])

RowsInv ==
  /\ SocketInv
  /\ Shown(cache) /\ Shown(load.before)
  /\ EchoIsLast

ResetComes == \E k \in 1..Len(wire) : wire[k].type = "reset"

ClaimComes ==
  \E k \in 1..Len(wire) : wire[k].type = "mine" /\ ~HasSeq(cache, wire[k].n)

EchoGoes ==
  mine = "started" /\ bound /\ HasEcho(cache) => readies > 0 \/ ResetComes \/ ClaimComes

Complete(rows) == \A n \in 1..Len(log) : HasSeq(rows, n)
Dirty(f) == f.type = "chunk" \/ (f.type = "reset" /\ f.n > 0)
CleanAfter(j) == \A i \in (j + 1)..Len(wire) : ~Dirty(wire[i])
AllSaved == \A i \in 1..Len(cache) : Saved(cache[i])
Cleans == \E j \in 1..Len(wire) : wire[j].type = "reset" /\ CleanAfter(j - 1)

OnlyIdle == phase # "idle" => ~current /\ ~load.current
ReplyIsAll == load.current /\ load.at = "answered" => Len(load.reply) = Len(log)
ShowsAll == current => Complete(cache) /\ (load.at # "none" => Complete(load.before))
TailGoes ==
  current /\ bound /\ mine # "sent" => readies > 0 \/ Cleans \/ (AllSaved /\ CleanAfter(0))
CurrentInv == OnlyIdle /\ ReplyIsAll /\ ShowsAll /\ TailGoes

(* The events of the turn that follow the first j frames go on from n.     *)
EventFrame(n) == [type |-> "chunk", turn |-> turn, n |-> n]
GoesOn(j, n) ==
  /\ n + Len(wire) - j = sent
  /\ \A i \in (j + 1)..Len(wire) : wire[i] = EventFrame(n + i - j)

(* The cache has nothing of the answer of the turn, or a tail of n events. *)
OfTurn(row) == row.turn = turn /\ row.by = "agent"
NotYet == \A i \in 1..Len(cache) : ~OfTurn(cache[i])
Streamed(n) ==
  /\ cache # <<>> /\ OfTurn(cache[Len(cache)]) /\ Transient(cache[Len(cache)])
  /\ cache[Len(cache)].text = UpTo(n)
  /\ \A i \in 1..Len(cache) : i # Len(cache) => ~OfTurn(cache[i])

(* A bound client will have the tail: by a reset, from the first event on, *)
(* or because it has the beginning.                                        *)
Other(f) == f.turn < turn \/ IsUser(f)
OthersUpTo(j) == \A i \in 1..j : Other(wire[i])
ByReset ==
  \E j \in 1..Len(wire) : /\ wire[j].type = "reset" /\ wire[j].turn = turn
                          /\ GoesOn(j, wire[j].n)
FromFirst == NotYet /\ \E j \in 0..Len(wire) : GoesOn(j, 0) /\ OthersUpTo(j)
Further == \E n \in 1..sent : Streamed(n) /\ GoesOn(0, n)
Streams == ByReset \/ FromFirst \/ Further

TailInv == phase = "running" /\ ~Answered /\ bound => readies > 0 \/ Streams
-----------------------------------------------------------------------------
(* What the rules for rows return, without the map of SelectLemma.         *)
Selection(out, rows, places) ==
  /\ \A i \in 1..Len(out) : \E p \in 1..Len(rows) : p \in places /\ out[i] = rows[p]
  /\ \A i, k \in 1..Len(out) : i < k =>
       \E p, q \in 1..Len(rows) : /\ p < q /\ p \in places /\ q \in places
                                  /\ out[i] = rows[p] /\ out[k] = rows[q]
  /\ \A p \in 1..Len(rows) : p \in places => \E i \in 1..Len(out) : out[i] = rows[p]

LEMMA SelectShape ==
  ASSUME NEW S, NEW rows \in Seq(S), NEW places
  PROVE  Select(rows, places) \in Seq(S) /\ Selection(Select(rows, places), rows, places)
<1> DEFINE out == Select(rows, places)
<1>1. out \in Seq(S) /\ \E h : Embeds(h, out, rows, places, Len(rows))
  BY SelectLemma
<1>2. PICK h : Embeds(h, out, rows, places, Len(rows))
  BY <1>1
<1> HIDE DEF out
<1>3. \A i \in 1..Len(out) :
        h[i] \in 1..Len(rows) /\ h[i] \in places /\ out[i] = rows[h[i]]
  BY <1>2 DEF Embeds
<1>4. \A i, k \in 1..Len(out) : i < k =>
        \E p, q \in 1..Len(rows) : /\ p < q /\ p \in places /\ q \in places
                                   /\ out[i] = rows[p] /\ out[k] = rows[q]
  BY <1>2, <1>3 DEF Embeds
<1>5. \A p \in 1..Len(rows) : p \in places => \E i \in 1..Len(out) : out[i] = rows[p]
  BY <1>2, <1>3 DEF Embeds
<1>6. Selection(out, rows, places)
  BY <1>3, <1>4, <1>5 DEF Selection
<1> QED BY <1>1, <1>6 DEF out

LEMMA PersistedShape ==
  ASSUME NEW rows \in Seq(Row)
  PROVE  LET out == Persisted(rows)
         IN  /\ out \in Seq(Row)
             /\ \A i \in 1..Len(out) : Saved(out[i]) /\ \E p \in 1..Len(rows) : out[i] = rows[p]
             /\ \A i, k \in 1..Len(out) : i < k =>
                  \E p, q \in 1..Len(rows) : /\ p < q /\ out[i] = rows[p] /\ out[k] = rows[q]
             /\ \A p \in 1..Len(rows) : Saved(rows[p]) =>
                  \E i \in 1..Len(out) : out[i] = rows[p]
<1> DEFINE places == {i \in 1..Len(rows) : Saved(rows[i])}
           out == Select(rows, places)
<1>3. \A p \in 1..Len(rows) : p \in places <=> Saved(rows[p])
  OBVIOUS
<1>2. Persisted(rows) = out
  BY DEF Persisted
<1> HIDE DEF places
<1>1. out \in Seq(Row) /\ Selection(out, rows, places)
  BY SelectShape
<1> HIDE DEF out
<1>4. \A i \in 1..Len(out) : Saved(out[i]) /\ \E p \in 1..Len(rows) : out[i] = rows[p]
  BY <1>1, <1>3 DEF Selection
<1>5. \A i, k \in 1..Len(out) : i < k =>
        \E p, q \in 1..Len(rows) : /\ p < q /\ out[i] = rows[p] /\ out[k] = rows[q]
  BY <1>1 DEF Selection
<1>6. \A p \in 1..Len(rows) : Saved(rows[p]) => \E i \in 1..Len(out) : out[i] = rows[p]
  BY <1>1, <1>3 DEF Selection
<1> QED BY <1>1, <1>2, <1>4, <1>5, <1>6

(* A load puts the reply first, then the rows behind it, then what was     *)
(* transient: the order of what it keeps does not change otherwise.        *)
Composed(out, reply, before) ==
  /\ out \in Seq(Row) /\ Len(reply) <= Len(out)
  /\ \A i \in 1..Len(reply) : out[i] = RowsOf(reply)[i]
  /\ \A i \in 1..Len(out) : i > Len(reply) =>
       \E p \in 1..Len(before) : /\ out[i] = before[p]
                                 /\ before[p].seq > Len(reply) \/ before[p].seq = 0
  /\ \A i, k \in 1..Len(out) : Len(reply) < i /\ i < k =>
       \/ out[i].seq > Len(reply) /\ out[k].seq = 0
       \/ /\ \E p, q \in 1..Len(before) : p < q /\ out[i] = before[p] /\ out[k] = before[q]
          /\ out[i].seq = 0 => out[k].seq = 0
  /\ \A p \in 1..Len(before) : before[p].seq > Len(reply) =>
       \E i \in 1..Len(out) : out[i] = before[p]

LEMMA RowsOfType ==
  ASSUME NEW reply \in Seq(Entry)
  PROVE  /\ RowsOf(reply) \in Seq(Row) /\ Len(RowsOf(reply)) = Len(reply)
         /\ \A i \in 1..Len(reply) :
              RowsOf(reply)[i] = [seq |-> i, turn |-> reply[i].turn, by |-> reply[i].by,
                                  text |-> <<>>]
<1>1. Len(reply) \in Nat /\ \A i \in 1..Len(reply) : reply[i] \in Entry
  OBVIOUS
<1>2. \A i \in 1..Len(reply) : [seq |-> i, turn |-> reply[i].turn, by |-> reply[i].by,
                                text |-> <<>>] \in Row
  BY <1>1 DEF Row, Entry
<1> QED BY <1>1, <1>2 DEF RowsOf

LEMMA ConcatShape ==
  ASSUME NEW S, NEW a \in Seq(S), NEW b \in Seq(S)
  PROVE  /\ a \o b \in Seq(S) /\ Len(a \o b) = Len(a) + Len(b)
         /\ Len(a) \in Nat /\ Len(b) \in Nat
         /\ \A i \in 1..Len(a) : (a \o b)[i] = a[i]
         /\ \A i \in (Len(a) + 1)..(Len(a) + Len(b)) :
              (a \o b)[i] = b[i - Len(a)] /\ i - Len(a) \in 1..Len(b)
         /\ \A i \in 1..Len(b) :
              (a \o b)[i + Len(a)] = b[i] /\ i + Len(a) \in 1..(Len(a) + Len(b))
<1>1. Len(a) \in Nat /\ Len(b) \in Nat /\ Len(a \o b) = Len(a) + Len(b)
  OBVIOUS
<1>2. a \o b \in Seq(S)
  OBVIOUS
<1>3. \A i \in 1..(Len(a) + Len(b)) :
        (a \o b)[i] = IF i <= Len(a) THEN a[i] ELSE b[i - Len(a)]
  BY ConcatProperties
<1>4. \A i \in 1..Len(a) : i \in 1..(Len(a) + Len(b)) /\ i <= Len(a)
  BY <1>1
<1>5. \A i \in (Len(a) + 1)..(Len(a) + Len(b)) :
        i \in 1..(Len(a) + Len(b)) /\ ~(i <= Len(a)) /\ i - Len(a) \in 1..Len(b)
  BY <1>1
<1>6. \A i \in 1..Len(b) : /\ i + Len(a) \in 1..(Len(a) + Len(b)) /\ ~(i + Len(a) <= Len(a))
                           /\ i + Len(a) - Len(a) = i
  BY <1>1
<1> QED BY <1>1, <1>2, <1>3, <1>4, <1>5, <1>6

(* The three parts of out.                                                 *)
Parts(out, a, b, c, L, M) ==
  /\ Len(out) = M + Len(c) /\ L \in Nat /\ M \in Nat
  /\ L <= M /\ M <= Len(out)
  /\ \A i \in 1..L : out[i] = a[i] /\ i \in 1..Len(out)
  /\ \A i \in (L + 1)..M :
       out[i] = b[i - L] /\ i - L \in 1..Len(b) /\ i \in 1..Len(out)
  /\ \A i \in 1..Len(b) : out[i + L] = b[i] /\ i + L \in 1..Len(out)
  /\ \A i \in (M + 1)..Len(out) :
       out[i] = c[i - M] /\ i - M \in 1..Len(c) /\ i \in 1..Len(out)

LEMMA ConcatTwice ==
  ASSUME NEW S, NEW a \in Seq(S), NEW b \in Seq(S), NEW c \in Seq(S)
  PROVE  /\ (a \o b) \o c \in Seq(S)
         /\ Parts((a \o b) \o c, a, b, c, Len(a), Len(a) + Len(b))
<1> DEFINE L == Len(a)
           M == Len(a) + Len(b)
           out == (a \o b) \o c
<1> DEFINE ab == a \o b
<1>1. /\ ab \in Seq(S) /\ Len(ab) = M /\ L \in Nat /\ Len(b) \in Nat /\ Len(c) \in Nat
      /\ \A i \in 1..L : ab[i] = a[i]
      /\ \A i \in (L + 1)..M : ab[i] = b[i - L] /\ i - L \in 1..Len(b)
      /\ \A i \in 1..Len(b) : ab[i + L] = b[i] /\ i + L \in 1..M
  <2>1. Len(c) \in Nat
    OBVIOUS
  <2> QED BY <2>1, ConcatShape
<1>2. out = ab \o c /\ M = L + Len(b)
  OBVIOUS
<1> HIDE DEF ab, out, M, L
<1>3. /\ out \in Seq(S) /\ Len(out) = M + Len(c)
      /\ \A i \in 1..M : out[i] = ab[i]
      /\ \A i \in (M + 1)..(M + Len(c)) : out[i] = c[i - M] /\ i - M \in 1..Len(c)
  <2>1. ab \in Seq(S)
    BY <1>1
  <2>2. /\ ab \o c \in Seq(S) /\ Len(ab \o c) = Len(ab) + Len(c)
        /\ \A i \in 1..Len(ab) : (ab \o c)[i] = ab[i]
        /\ \A i \in (Len(ab) + 1)..(Len(ab) + Len(c)) :
             (ab \o c)[i] = c[i - Len(ab)] /\ i - Len(ab) \in 1..Len(c)
    BY <2>1, ConcatShape
  <2>3. Len(ab) = M
    BY <1>1
  <2> QED BY <2>2, <2>3, <1>2
<1>4. M = L + Len(b) /\ M \in Nat /\ L <= M /\ M <= Len(out) /\ Len(out) \in Nat
  BY <1>1, <1>2, <1>3
<1>5. \A i \in 1..L : i \in 1..M /\ i \in 1..Len(out)
  BY <1>1, <1>4
<1>6. \A i \in (L + 1)..M : i \in 1..M /\ i \in 1..Len(out)
  BY <1>1, <1>4
<1>7. \A i \in (M + 1)..Len(out) : i \in (M + 1)..(M + Len(c)) /\ i \in 1..Len(out)
  BY <1>3, <1>4
<1>8. \A i \in 1..Len(b) : i + L \in 1..Len(out)
  BY <1>1, <1>4
<1>9. /\ \A i \in 1..L : out[i] = a[i]
      /\ \A i \in (L + 1)..M : out[i] = b[i - L] /\ i - L \in 1..Len(b)
  BY <1>1, <1>3, <1>5, <1>6
<1>10. \A i \in 1..Len(b) : out[i + L] = b[i]
  BY <1>1, <1>3
<1>11. \A i \in (M + 1)..Len(out) : out[i] = c[i - M] /\ i - M \in 1..Len(c)
  BY <1>3, <1>7
<1>12. Parts(out, a, b, c, L, M)
  BY <1>1, <1>3, <1>4, <1>5, <1>6, <1>7, <1>8, <1>9, <1>10, <1>11 DEF Parts
<1> QED BY <1>3, <1>12 DEF out, L, M

LEMMA ComposeShape ==
  ASSUME NEW reply \in Seq(Entry), NEW before \in Seq(Row), NEW inFlight \in BOOLEAN
  PROVE  Composed(Compose(RowsOf(reply), before, inFlight), reply, before)
<1> DEFINE L == Len(reply)
           a == RowsOf(reply)
           newer == {i \in 1..Len(before) : before[i].seq > Len(a)}
           fleeting == {i \in 1..Len(before) : Transient(before[i])}
           b == Select(before, newer)
           c == IF inFlight THEN Select(before, fleeting) ELSE <<>>
           out == (a \o b) \o c
<1>1. Compose(RowsOf(reply), before, inFlight) = out
  BY DEF Compose, Merge
<1>2. a \in Seq(Row) /\ Len(a) = L /\ L \in Nat
  BY RowsOfType
<1>3. /\ b \in Seq(Row)
      /\ \A i \in 1..Len(b) : \E p \in 1..Len(before) : b[i] = before[p] /\ before[p].seq > L
      /\ \A i, k \in 1..Len(b) : i < k =>
           \E p, q \in 1..Len(before) : p < q /\ b[i] = before[p] /\ b[k] = before[q]
      /\ \A p \in 1..Len(before) : before[p].seq > L => \E i \in 1..Len(b) : b[i] = before[p]
  <2>1. \A p \in 1..Len(before) : p \in newer <=> before[p].seq > L
    BY <1>2
  <2> HIDE DEF newer
  <2>2. b \in Seq(Row) /\ Selection(b, before, newer)
    BY SelectShape
  <2> HIDE DEF b, L
  <2>3. /\ \A i \in 1..Len(b) : \E p \in 1..Len(before) : b[i] = before[p] /\ before[p].seq > L
        /\ \A p \in 1..Len(before) : before[p].seq > L => \E i \in 1..Len(b) : b[i] = before[p]
    BY <2>1, <2>2 DEF Selection
  <2>4. \A i, k \in 1..Len(b) : i < k =>
          \E p, q \in 1..Len(before) : p < q /\ b[i] = before[p] /\ b[k] = before[q]
    BY <2>2 DEF Selection
  <2> QED BY <2>2, <2>3, <2>4
<1>4. /\ c \in Seq(Row)
      /\ \A i \in 1..Len(c) : \E p \in 1..Len(before) : c[i] = before[p] /\ before[p].seq = 0
      /\ \A i, k \in 1..Len(c) : i < k =>
           \E p, q \in 1..Len(before) : p < q /\ c[i] = before[p] /\ c[k] = before[q]
  <2>1. CASE ~inFlight
    BY <2>1
  <2>2. CASE inFlight
    <3> DEFINE d == Select(before, fleeting)
    <3>1. \A p \in 1..Len(before) : p \in fleeting <=> before[p].seq = 0
      BY DEF Transient
    <3> HIDE DEF fleeting
    <3>2. d \in Seq(Row) /\ Selection(d, before, fleeting)
      BY SelectShape
    <3> HIDE DEF d
    <3>3. \A i \in 1..Len(d) : \E p \in 1..Len(before) : d[i] = before[p] /\ before[p].seq = 0
      BY <3>1, <3>2 DEF Selection
    <3>4. \A i, k \in 1..Len(d) : i < k =>
            \E p, q \in 1..Len(before) : p < q /\ d[i] = before[p] /\ d[k] = before[q]
      BY <3>2 DEF Selection
    <3>5. c = d
      BY <2>2 DEF d
    <3> HIDE DEF c
    <3> QED BY <3>2, <3>3, <3>4, <3>5
  <2> QED BY <2>1, <2>2
<1> HIDE DEF a, b, c, newer, fleeting
<1> DEFINE M == Len(a) + Len(b)
<1>p. out \in Seq(Row) /\ Parts(out, a, b, c, L, M)
  <2> HIDE DEF L
  <2>1. L = Len(a)
    BY <1>2
  <2>2. a \in Seq(Row) /\ b \in Seq(Row) /\ c \in Seq(Row)
    BY <1>2, <1>3, <1>4
  <2>3. (a \o b) \o c \in Seq(Row) /\ Parts((a \o b) \o c, a, b, c, Len(a), Len(a) + Len(b))
    BY <2>2, ConcatTwice
  <2> QED BY <2>1, <2>3
<1> HIDE DEF out, M, L
<1>5. /\ Len(out) = M + Len(c) /\ L \in Nat /\ M \in Nat
      /\ L <= M /\ M <= Len(out)
      /\ \A i \in 1..L : out[i] = a[i] /\ i \in 1..Len(out)
      /\ \A i \in (L + 1)..M :
           out[i] = b[i - L] /\ i - L \in 1..Len(b) /\ i \in 1..Len(out)
      /\ \A i \in 1..Len(b) : out[i + L] = b[i] /\ i + L \in 1..Len(out)
      /\ \A i \in (M + 1)..Len(out) :
           out[i] = c[i - M] /\ i - M \in 1..Len(c) /\ i \in 1..Len(out)
  BY <1>p DEF Parts
<1>6. L <= M /\ M <= Len(out) /\ M \in Nat /\ Len(out) \in Nat /\ L \in Nat
  BY <1>p, <1>5
<1>7. \A i \in 1..Len(out) : i > L => i \in (L + 1)..M \/ i \in (M + 1)..Len(out)
  BY <1>6
<1>f. \A i \in 1..Len(b) : b[i].seq > L /\ \E p \in 1..Len(before) : b[i] = before[p]
  BY <1>3
<1>g. \A i \in 1..Len(c) : c[i].seq = 0 /\ \E p \in 1..Len(before) : c[i] = before[p]
  BY <1>4
<1>8. ASSUME NEW i \in (L + 1)..M
      PROVE  out[i].seq > L /\ \E p \in 1..Len(before) : out[i] = before[p]
  <2>1. out[i] = b[i - L] /\ i - L \in 1..Len(b)
    BY <1>5
  <2> QED BY <2>1, <1>f
<1>9. ASSUME NEW i \in (M + 1)..Len(out)
      PROVE  out[i].seq = 0 /\ \E p \in 1..Len(before) : out[i] = before[p]
  <2>1. out[i] = c[i - M] /\ i - M \in 1..Len(c)
    BY <1>5
  <2> QED BY <2>1, <1>g
<1>10. \A i \in 1..Len(out) : i > L =>
         \E p \in 1..Len(before) : out[i] = before[p] /\ (before[p].seq > L \/ before[p].seq = 0)
  BY <1>7, <1>8, <1>9
<1>11. ASSUME NEW i \in 1..Len(out), NEW k \in 1..Len(out), L < i, i < k
       PROVE  \/ out[i].seq > L /\ out[k].seq = 0
              \/ /\ \E p, q \in 1..Len(before) : p < q /\ out[i] = before[p] /\ out[k] = before[q]
                 /\ out[i].seq = 0 => out[k].seq = 0
  <2>1. CASE i \in (L + 1)..M /\ k \in (M + 1)..Len(out)
    BY <2>1, <1>8, <1>9
  <2>2. CASE i \in (L + 1)..M /\ k \in (L + 1)..M
    <3>1. i - L \in 1..Len(b) /\ k - L \in 1..Len(b) /\ i - L < k - L
      BY <2>2, <1>5, <1>6, <1>11
    <3>2. \E p, q \in 1..Len(before) : p < q /\ b[i - L] = before[p] /\ b[k - L] = before[q]
      BY <3>1, <1>3
    <3>3. out[i].seq # 0
      BY <2>2, <1>6, <1>8
    <3>4. out[i] = b[i - L] /\ out[k] = b[k - L]
      BY <2>2, <1>5
    <3> QED BY <3>2, <3>3, <3>4
  <2>3. CASE i \in (M + 1)..Len(out) /\ k \in (M + 1)..Len(out)
    <3>1. i - M \in 1..Len(c) /\ k - M \in 1..Len(c) /\ i - M < k - M
      BY <2>3, <1>5, <1>6, <1>11
    <3>2. \E p, q \in 1..Len(before) : p < q /\ c[i - M] = before[p] /\ c[k - M] = before[q]
      BY <3>1, <1>4
    <3>3. out[i] = c[i - M] /\ out[k] = c[k - M] /\ out[k].seq = 0
      BY <2>3, <1>5, <1>9
    <3> QED BY <3>2, <3>3
  <2>4. ~(i \in (M + 1)..Len(out) /\ k \in (L + 1)..M)
    BY <1>6, <1>11
  <2> QED BY <2>1, <2>2, <2>3, <2>4, <1>6, <1>7, <1>11
<1>12. ASSUME NEW p \in 1..Len(before), before[p].seq > L
       PROVE  \E i \in 1..Len(out) : out[i] = before[p]
  <2>1. PICK k \in 1..Len(b) : b[k] = before[p]
    BY <1>3, <1>12
  <2>2. out[k + L] = b[k] /\ k + L \in 1..Len(out)
    BY <1>5
  <2> QED BY <2>1, <2>2
<1>13. Composed(out, reply, before)
  <2>1. \A i \in 1..L : out[i] = a[i]
    BY <1>5
  <2>2. out \in Seq(Row) /\ L <= Len(out)
    BY <1>p, <1>6
  <2> QED BY <2>1, <2>2, <1>10, <1>11, <1>12 DEF Composed, a, L
<1> QED BY <1>1, <1>13

-----------------------------------------------------------------------------
(* What a sequence is after a row, or a frame, comes or goes.              *)
IsAppend(out, s, x) ==
  /\ Len(out) = Len(s) + 1 /\ out[Len(s) + 1] = x
  /\ \A i \in 1..Len(s) : out[i] = s[i] /\ i \in 1..Len(out) /\ i # Len(s) + 1
  /\ \A i \in 1..Len(out) : i \in 1..Len(s) \/ i = Len(s) + 1
  /\ Len(s) + 1 \in 1..Len(out)

LEMMA Appended ==
  ASSUME NEW S, NEW s \in Seq(S), NEW x \in S
  PROVE  /\ Append(s, x) \in Seq(S) /\ IsAppend(Append(s, x), s, x)
         /\ Len(s) \in Nat /\ Len(Append(s, x)) \in Nat
<1> DEFINE out == Append(s, x)
<1>1. out \in Seq(S) /\ Len(s) \in Nat /\ Len(out) = Len(s) + 1 /\ out[Len(s) + 1] = x
  OBVIOUS
<1>2. \A i \in 1..Len(s) : out[i] = s[i]
  OBVIOUS
<1> HIDE DEF out
<1>3. /\ \A i \in 1..Len(s) : i \in 1..Len(out) /\ i # Len(s) + 1
      /\ \A i \in 1..Len(out) : i \in 1..Len(s) \/ i = Len(s) + 1
      /\ Len(s) + 1 \in 1..Len(out)
  BY <1>1
<1> QED BY <1>1, <1>2, <1>3 DEF IsAppend, out

IsTail(out, s) ==
  /\ Len(out) = Len(s) - 1
  /\ \A i \in 1..Len(out) : out[i] = s[i + 1] /\ i + 1 \in 1..Len(s) /\ i \in Nat
  /\ \A i \in 1..Len(s) : i # 1 => i - 1 \in 1..Len(out) /\ out[i - 1] = s[i]
  /\ 1 \in 1..Len(s)

LEMMA Tailed ==
  ASSUME NEW S, NEW s \in Seq(S), s # <<>>
  PROVE  /\ Tail(s) \in Seq(S) /\ IsTail(Tail(s), s) /\ s[1] \in S
         /\ Len(s) \in Nat /\ Len(Tail(s)) \in Nat
<1> DEFINE out == Tail(s)
<1>1. /\ out \in Seq(S) /\ Len(s) \in Nat /\ Len(s) >= 1 /\ Len(out) = Len(s) - 1
      /\ Len(out) \in Nat
  OBVIOUS
<1>2. \A i \in 1..Len(out) : out[i] = s[i + 1]
  OBVIOUS
<1>3. 1 \in 1..Len(s) /\ s[1] \in S
  BY <1>1
<1> HIDE DEF out
<1>4. \A i \in 1..Len(out) : i + 1 \in 1..Len(s) /\ i \in Nat
  BY <1>1
<1>5. \A i \in 1..Len(s) : i # 1 => i - 1 \in 1..Len(out) /\ i - 1 + 1 = i
  BY <1>1
<1>6. \A i \in 1..Len(s) : i # 1 => out[i - 1] = s[i]
  BY <1>2, <1>5
<1> QED BY <1>1, <1>2, <1>3, <1>4, <1>5, <1>6 DEF IsTail, out

LEMMA EchoIsARow == Echo \in Row /\ Echo.seq = 0 /\ Echo.by = "user" /\ Echo.turn = 0
BY DEF Echo, Row

(* A user row from the socket: it is there, it takes the place of the echo *)
(* or it is the last row.                                                  *)
LEMMA ClaimCases ==
  ASSUME NEW rows \in Seq(Row), NEW said \in Row, NEW own \in BOOLEAN
  PROVE  LET out == Claim(rows, said, own)
         IN  /\ out \in Seq(Row) /\ Len(out) \in Nat /\ Len(rows) \in Nat
             /\ \/ out = rows /\ HasSeq(rows, said.seq)
                \/ /\ own /\ HasEcho(rows) /\ ~HasSeq(rows, said.seq)
                   /\ Len(out) = Len(rows)
                   /\ \A i \in 1..Len(rows) :
                        /\ rows[i] = Echo => out[i] = said
                        /\ rows[i] # Echo => out[i] = rows[i]
                \/ /\ ~own \/ ~HasEcho(rows)
                   /\ ~HasSeq(rows, said.seq)
                   /\ IsAppend(out, rows, said)
<1> DEFINE out == Claim(rows, said, own)
           changed == [i \in 1..Len(rows) |-> IF rows[i] = Echo THEN said ELSE rows[i]]
<1>1. Len(rows) \in Nat /\ \A i \in 1..Len(rows) : rows[i] \in Row
  OBVIOUS
<1>2. \/ out = rows /\ HasSeq(rows, said.seq)
      \/ out = changed /\ ~HasSeq(rows, said.seq) /\ own /\ HasEcho(rows)
      \/ out = Append(rows, said) /\ ~HasSeq(rows, said.seq) /\ (~own \/ ~HasEcho(rows))
  BY DEF Claim, HasSeq, HasEcho
<1> HIDE DEF out
<1>3. CASE out = changed /\ ~HasSeq(rows, said.seq) /\ own /\ HasEcho(rows)
  <2>1. \A i \in 1..Len(rows) : (IF rows[i] = Echo THEN said ELSE rows[i]) \in Row
    BY <1>1
  <2>2. changed \in Seq(Row) /\ Len(changed) = Len(rows)
    BY <1>1, <2>1
  <2>3. \A i \in 1..Len(rows) : /\ rows[i] = Echo => changed[i] = said
                                /\ rows[i] # Echo => changed[i] = rows[i]
    OBVIOUS
  <2> QED BY <1>1, <1>3, <2>2, <2>3 DEF out
<1>4. CASE out = Append(rows, said) /\ ~HasSeq(rows, said.seq) /\ (~own \/ ~HasEcho(rows))
  <2>1. out \in Seq(Row) /\ IsAppend(out, rows, said) /\ Len(out) \in Nat
    BY <1>4, Appended
  <2> QED BY <2>1, <1>1, <1>4 DEF out
<1> QED BY <1>1, <1>2, <1>3, <1>4 DEF out
-----------------------------------------------------------------------------
(* Type correctness, with the log.                                         *)
LEMMA Steps ==
  ASSUME [Next]_vars
  PROVE  \/ StartTurn \/ BroadcastSessionStream \/ SaveAnswer \/ BroadcastSessionDone
         \/ ClearSessionPending \/ HandleSessionReady \/ Open \/ SendMessage \/ Leave
         \/ ReadLog \/ LoadEnds \/ LoadFails \/ ReuseExpires
         \/ UserMessage \/ StreamEvent \/ StreamReset \/ SessionDone
         \/ Drop \/ Reconnect \/ PollReads \/ PollAnswers \/ UNCHANGED vars
BY DEF Next, Turn, Load, Deliver, Poll

(* Most steps leave the server alone.                                      *)
LEMMA ServerOrNot ==
  ASSUME [Next]_vars
  PROVE  \/ StartTurn \/ BroadcastSessionStream \/ SaveAnswer \/ BroadcastSessionDone
         \/ ClearSessionPending
         \/ UNCHANGED <<log, phase, turn, sent>>
<1> USE DEF vars, server
<1>1. HandleSessionReady => UNCHANGED <<log, phase, turn, sent>>
  BY DEF HandleSessionReady
<1>2. Open => UNCHANGED <<log, phase, turn, sent>>
  BY DEF Open
<1>3. SendMessage => UNCHANGED <<log, phase, turn, sent>>
  BY DEF SendMessage
<1>4. Leave => UNCHANGED <<log, phase, turn, sent>>
  BY DEF Leave
<1>5. ReadLog \/ LoadEnds \/ LoadFails \/ ReuseExpires => UNCHANGED <<log, phase, turn, sent>>
  BY DEF ReadLog, LoadEnds, LoadFails, ReuseExpires
<1>6. UserMessage \/ StreamEvent => UNCHANGED <<log, phase, turn, sent>>
  BY DEF UserMessage, StreamEvent
<1>7. StreamReset => UNCHANGED <<log, phase, turn, sent>>
  BY DEF StreamReset
<1>8. SessionDone => UNCHANGED <<log, phase, turn, sent>>
  BY DEF SessionDone
<1>9. Drop \/ Reconnect \/ PollReads \/ PollAnswers => UNCHANGED <<log, phase, turn, sent>>
  BY DEF Drop, Reconnect, PollReads, PollAnswers
<1> QED BY Steps, <1>1, <1>2, <1>3, <1>4, <1>5, <1>6, <1>7, <1>8, <1>9

(* The log only grows, and so does the number of turns.                    *)
Extends ==
  /\ Len(log) <= Len(log') /\ turn <= turn'
  /\ \A i \in 1..Len(log) : log'[i] = log[i] /\ i \in 1..Len(log')

LEMMA NewTurn ==
  ASSUME TypeOK, LogInv, StartTurn
  PROVE  /\ LogInv' /\ Extends
         /\ log' \in Seq(Entry) /\ Len(log') <= 2 * MaxTurns
         /\ turn' = turn + 1 /\ turn' \in 0..MaxTurns /\ Len(log') = Len(log) + 1
         /\ log'[Len(log')] = [turn |-> turn', by |-> "user"] /\ ~Answered'
<1> DEFINE x == [turn |-> turn + 1, by |-> "user"]
<1>1. /\ log \in Seq(Entry) /\ turn \in 0..MaxTurns /\ turn < MaxTurns /\ phase = "idle"
      /\ Len(log) <= 2 * turn /\ MaxTurns \in Nat
      /\ \A i \in 1..Len(log) : log[i].turn <= turn
  BY TranscriptAssumption DEF TypeOK, LogInv, StartTurn
<1>2. x \in Entry /\ x.turn = turn + 1 /\ x.by = "user"
  BY <1>1 DEF Entry
<1>3. log' = Append(log, x) /\ turn' = turn + 1 /\ phase' = "running" /\ sent' = 0
  BY DEF StartTurn
<1> HIDE DEF x
<1>4. log' \in Seq(Entry) /\ IsAppend(log', log, x) /\ Len(log) \in Nat
  BY <1>1, <1>2, <1>3, Appended
<1>5. Len(log') = Len(log) + 1 /\ log'[Len(log')] = x
  BY <1>4 DEF IsAppend
<1>6. Len(log') + 1 <= 2 * turn' /\ Len(log') <= 2 * MaxTurns /\ turn' \in 0..MaxTurns
  BY <1>1, <1>3, <1>4, <1>5
<1>e. \A i \in 1..Len(log) : log[i].turn \in Nat /\ log[i].turn < turn + 1
  <2>1. \A i \in 1..Len(log) : log[i] \in Entry
    BY <1>1
  <2>2. \A i \in 1..Len(log) : log[i].turn \in Nat
    BY <2>1 DEF Entry
  <2> QED BY <1>1, <2>2
<1>7. /\ Extends
      /\ \A i \in 1..Len(log) : log'[i] = log[i] /\ log'[i].turn \in Nat /\ log'[i].turn < turn'
  BY <1>1, <1>3, <1>4, <1>e DEF IsAppend, Extends
<1>8. \A i \in 1..Len(log') : log'[i].turn <= turn' /\ ~(log'[i].turn = turn' /\ log'[i].by = "agent")
  <2> SUFFICES ASSUME NEW i \in 1..Len(log')
               PROVE  log'[i].turn <= turn' /\ ~(log'[i].turn = turn' /\ log'[i].by = "agent")
    OBVIOUS
  <2>1. CASE i \in 1..Len(log)
    BY <2>1, <1>1, <1>3, <1>7
  <2>2. CASE i = Len(log) + 1
    BY <2>2, <1>1, <1>2, <1>3, <1>5
  <2> QED BY <2>1, <2>2, <1>4 DEF IsAppend
<1>9. LogInv'
  BY <1>3, <1>4, <1>5, <1>6, <1>8 DEF LogInv
<1>10. ~Answered'
  BY <1>2, <1>5 DEF Answered
<1> QED BY <1>2, <1>3, <1>4, <1>5, <1>6, <1>7, <1>9, <1>10 DEF x

LEMMA NewAnswer ==
  ASSUME TypeOK, LogInv, SaveAnswer
  PROVE  /\ LogInv' /\ Extends
         /\ log' \in Seq(Entry) /\ Len(log') <= 2 * MaxTurns
         /\ Answered' /\ Len(log') = Len(log) + 1
<1> DEFINE x == [turn |-> turn, by |-> "agent"]
<1>1. /\ log \in Seq(Entry) /\ turn \in 0..MaxTurns /\ phase = "running" /\ ~Answered
      /\ Len(log) + 1 <= 2 * turn /\ MaxTurns \in Nat
      /\ \A i \in 1..Len(log) : /\ log[i].turn <= turn
                                /\ log[i].turn = turn /\ log[i].by = "agent" => i = Len(log)
  BY TranscriptAssumption DEF TypeOK, LogInv, SaveAnswer
<1>2. x \in Entry /\ x.turn = turn /\ x.by = "agent"
  BY <1>1 DEF Entry
<1>3. log' = Append(log, x) /\ turn' = turn /\ phase' = phase /\ sent' = sent
  BY DEF SaveAnswer
<1> HIDE DEF x
<1>4. log' \in Seq(Entry) /\ IsAppend(log', log, x) /\ Len(log) \in Nat
  BY <1>1, <1>2, <1>3, Appended
<1>5. Len(log') = Len(log) + 1 /\ log'[Len(log')] = x /\ log' # <<>>
  BY <1>4 DEF IsAppend
<1>6. Len(log') <= 2 * turn' /\ Len(log') <= 2 * MaxTurns
  BY <1>1, <1>3, <1>4, <1>5
<1>7. \A i \in 1..Len(log) : /\ log'[i] = log[i] /\ log'[i].turn <= turn'
                             /\ ~(log'[i].turn = turn' /\ log'[i].by = "agent")
  <2>1. log # <<>> => log[Len(log)].by # "agent"
    BY <1>1 DEF Answered
  <2> QED BY <1>1, <1>3, <1>4, <2>1 DEF IsAppend
<1>8. Extends
  BY <1>1, <1>3, <1>4 DEF IsAppend, Extends
<1>9. Answered'
  BY <1>2, <1>5 DEF Answered
<1>10. \A i \in 1..Len(log') : /\ log'[i].turn <= turn'
                               /\ log'[i].turn = turn' /\ log'[i].by = "agent" => i = Len(log')
  BY <1>2, <1>3, <1>4, <1>5, <1>7, <1>1 DEF IsAppend
<1>11. LogInv'
  BY <1>1, <1>3, <1>6, <1>9, <1>10 DEF LogInv
<1> QED BY <1>4, <1>5, <1>6, <1>8, <1>9, <1>11

LEMMA LogStep ==
  ASSUME TypeOK, LogInv, [Next]_vars
  PROVE  LogInv' /\ Extends /\ log' \in Seq(Entry) /\ Len(log') <= 2 * MaxTurns
<1>1. /\ log \in Seq(Entry) /\ Len(log) <= 2 * MaxTurns /\ Len(log) \in Nat /\ turn \in Nat
  BY DEF TypeOK
<1>2. CASE StartTurn
  BY <1>2, NewTurn
<1>3. CASE SaveAnswer
  BY <1>3, NewAnswer
<1>4. CASE BroadcastSessionStream
  BY <1>1, <1>4 DEF BroadcastSessionStream, LogInv, Extends, Answered
<1>5. CASE BroadcastSessionDone
  BY <1>1, <1>5 DEF BroadcastSessionDone, LogInv, Extends, Answered
<1>6. CASE ClearSessionPending
  BY <1>1, <1>6 DEF ClearSessionPending, LogInv, Extends, Answered
<1>7. CASE UNCHANGED <<log, phase, turn, sent>>
  BY <1>1, <1>7 DEF LogInv, Extends, Answered
<1> QED BY <1>2, <1>3, <1>4, <1>5, <1>6, <1>7, ServerOrNot

LEMMA LoadType ==
  ASSUME NEW l, l \in [at : {"none", "asked", "answered"}, before : Seq(Row),
                       reply : Seq(Entry), reused : BOOLEAN, current : BOOLEAN]
  PROVE  /\ l.before \in Seq(Row) /\ l.reply \in Seq(Entry) /\ l.current \in BOOLEAN
         /\ l.reused \in BOOLEAN /\ l.at \in {"none", "asked", "answered"}
OBVIOUS

LEMMA RestoreType ==
  ASSUME TypeOK, Restore
  PROVE  /\ load' \in [at : {"none", "asked", "answered"}, before : Seq(Row),
                       reply : Seq(Entry), reused : BOOLEAN, current : BOOLEAN]
         /\ load.at # "none" => load' = load
         /\ load.at = "none" =>
              /\ load'.at = (IF kept.on THEN "answered" ELSE "asked")
              /\ load'.before = cache /\ load'.reply = kept.reply
              /\ load'.current = (phase = "idle" /\ ~kept.on) /\ load'.at # "none"
<1>1. /\ cache \in Seq(Row) /\ kept.reply \in Seq(Entry) /\ kept.on \in BOOLEAN
      /\ load \in [at : {"none", "asked", "answered"}, before : Seq(Row),
                   reply : Seq(Entry), reused : BOOLEAN, current : BOOLEAN]
  BY DEF TypeOK
<1> QED BY <1>1 DEF Restore

LEMMA FirstFrame ==
  ASSUME TypeOK, NEW type, Arrives(type)
  PROVE  /\ wire \in Seq(Frame) /\ wire[1] \in Frame /\ wire[1].type = type
         /\ wire' \in Seq(Frame) /\ IsTail(wire', wire)
         /\ wire[1].turn \in Nat /\ wire[1].n \in Nat /\ Len(wire) \in Nat
<1>1. wire \in Seq(Frame) /\ wire # <<>> /\ wire' = Tail(wire) /\ wire[1].type = type
  BY DEF TypeOK, Arrives
<1>2. wire' \in Seq(Frame) /\ IsTail(wire', wire) /\ wire[1] \in Frame /\ Len(wire) \in Nat
  BY <1>1, Tailed
<1> QED BY <1>1, <1>2 DEF Frame

LEMMA LastFrame ==
  ASSUME TypeOK, NEW f \in Frame, wire' = Append(wire, f)
  PROVE  /\ wire \in Seq(Frame) /\ wire' \in Seq(Frame) /\ IsAppend(wire', wire, f)
         /\ Len(wire) \in Nat
<1>1. wire \in Seq(Frame)
  BY DEF TypeOK
<1> QED BY <1>1, Appended

(* What the steps of the server append.                                    *)
Said == [seq |-> wire[1].n, turn |-> wire[1].turn, by |-> "user", text |-> <<>>]

LEMMA ServerFrames ==
  ASSUME TypeOK
  PROVE  /\ StartTurn => [type |-> IF mine = "sent" THEN "mine" ELSE "user",
                          turn |-> turn + 1, n |-> Len(log) + 1] \in Frame
         /\ [type |-> "chunk", turn |-> turn, n |-> sent + 1] \in Frame
         /\ [type |-> "done", turn |-> turn, n |-> 0] \in Frame
         /\ [type |-> "reset", turn |-> turn, n |-> sent] \in Frame
<1>1. /\ turn \in Nat /\ sent \in Nat /\ Len(log) \in Nat /\ turn + 1 \in Nat
      /\ sent + 1 \in Nat /\ Len(log) + 1 \in Nat
  BY TranscriptAssumption DEF TypeOK
<1> QED BY <1>1 DEF Frame

(* TypeOK in parts.                                                        *)
Loads == [at : {"none", "asked", "answered"}, before : Seq(Row), reply : Seq(Entry),
          reused : BOOLEAN, current : BOOLEAN]
Keeps == [on : BOOLEAN, reply : Seq(Entry)]
LoadOK == load \in Loads /\ kept \in Keeps
ServerOK ==
  /\ log \in Seq(Entry) /\ Len(log) <= 2 * MaxTurns
  /\ phase \in {"idle", "running", "done"}
  /\ turn \in 0..MaxTurns /\ sent \in 0..MaxChunks
WireOK == bound \in BOOLEAN /\ link \in BOOLEAN /\ wire \in Seq(Frame) /\ readies \in Nat
RowsOK ==
  /\ cache \in Seq(Row) /\ mine \in {"none", "sent", "started"}
  /\ lamp \in BOOLEAN /\ viewing \in BOOLEAN /\ poll \in {"none", "replying", "quiet"}
  /\ opens \in 0..MaxOpens /\ drops \in 0..MaxDrops /\ current \in BOOLEAN

LEMMA TypeStep ==
  ASSUME TypeOK, LogInv, [Next]_vars
  PROVE  TypeOK'
<1> SUFFICES ServerOK' /\ WireOK' /\ RowsOK' /\ LoadOK'
  BY DEF TypeOK, ServerOK, WireOK, RowsOK, LoadOK, Loads, Keeps
<1>p. ServerOK /\ WireOK /\ RowsOK /\ LoadOK
  BY DEF TypeOK, ServerOK, WireOK, RowsOK, LoadOK, Loads, Keeps
<1>a. /\ MaxTurns \in Nat /\ MaxChunks \in Nat /\ MaxOpens \in Nat /\ MaxDrops \in Nat
  BY TranscriptAssumption
<1>b. log' \in Seq(Entry) /\ Len(log') <= 2 * MaxTurns
  BY LogStep
<1>c. /\ log \in Seq(Entry) /\ cache \in Seq(Row) /\ wire \in Seq(Frame) /\ load \in Loads
      /\ kept \in Keeps /\ readies \in Nat /\ lamp \in BOOLEAN
      /\ load.before \in Seq(Row) /\ load.reply \in Seq(Entry)
  BY LoadType DEF TypeOK, Loads, Keeps
<1> USE DEF server, socket, count
<1>1. CASE StartTurn
  <2>1. turn' \in 0..MaxTurns /\ phase' = "running" /\ sent' \in 0..MaxChunks
    <3>1. phase' = "running" /\ sent' = 0
      BY <1>1 DEF StartTurn
    <3> QED BY <3>1, <1>1, <1>a, NewTurn
  <2>2. wire' \in Seq(Frame)
    <3> DEFINE f == [type |-> IF mine = "sent" THEN "mine" ELSE "user",
                     turn |-> turn + 1, n |-> Len(log) + 1]
    <3>1. f \in Frame /\ (wire' = wire \/ wire' = Append(wire, f))
      BY <1>1, ServerFrames DEF StartTurn
    <3> HIDE DEF f
    <3>2. wire \in Seq(Frame)
      BY <1>c
    <3> QED BY <3>1, <3>2, Appended
  <2>3. load' \in Loads
    BY <1>1, <1>c DEF StartTurn, Loads
  <2>4. mine' \in {"none", "sent", "started"} /\ bound' \in BOOLEAN /\ current' \in BOOLEAN
    BY <1>1 DEF StartTurn, TypeOK
  <2>5. UNCHANGED <<link, readies, cache, lamp, viewing, kept, poll, opens, drops>>
    BY <1>1 DEF StartTurn
  <2> QED BY <1>b, <2>1, <2>2, <2>3, <2>4, <2>5, <1>p DEF ServerOK, WireOK, RowsOK, LoadOK
<1>2. CASE BroadcastSessionStream
  <2>1. sent' \in 0..MaxChunks
    BY <1>2, <1>a DEF BroadcastSessionStream, TypeOK
  <2>2. wire' \in Seq(Frame)
    BY <1>2, <1>c, ServerFrames, Appended DEF BroadcastSessionStream, Send
  <2> QED BY <1>2, <2>1, <2>2, <1>p DEF BroadcastSessionStream, ServerOK, WireOK, RowsOK, LoadOK
<1>3. CASE SaveAnswer
  BY <1>3, <1>b, <1>p DEF SaveAnswer, ServerOK, WireOK, RowsOK, LoadOK
<1>4. CASE BroadcastSessionDone
  <2>1. wire' \in Seq(Frame)
    BY <1>4, <1>c, ServerFrames, Appended DEF BroadcastSessionDone, Send
  <2> QED BY <1>4, <2>1, <1>p DEF BroadcastSessionDone, ServerOK, WireOK, RowsOK, LoadOK
<1>5. CASE ClearSessionPending
  <2>1. sent' \in 0..MaxChunks /\ phase' = "idle"
    BY <1>5, <1>a DEF ClearSessionPending
  <2> QED BY <1>5, <2>1, <1>p DEF ClearSessionPending, ServerOK, WireOK, RowsOK, LoadOK
<1>6. CASE HandleSessionReady
  <2>1. wire' \in Seq(Frame)
    BY <1>6, <1>c, ServerFrames, Appended DEF HandleSessionReady
  <2>2. readies' \in Nat /\ bound' = TRUE
    BY <1>6, <1>c DEF HandleSessionReady
  <2> QED BY <1>6, <2>1, <2>2, <1>p DEF HandleSessionReady, ServerOK, WireOK, RowsOK, LoadOK
<1>7. CASE Open
  <2>1. load' \in Loads
    BY <1>7, RestoreType DEF Open, Loads
  <2>2. opens' \in 0..MaxOpens /\ viewing' = TRUE
    BY <1>7, <1>a DEF Open, TypeOK
  <2>3. UNCHANGED <<log, phase, turn, sent, bound, link, wire, readies, cache, mine, lamp, kept, poll, drops, current>>
    BY <1>7 DEF Open
  <2> QED BY <2>1, <2>2, <2>3, <1>p DEF ServerOK, WireOK, RowsOK, LoadOK
<1>8. CASE SendMessage
  <2>1. cache' \in Seq(Row)
    <3>1. cache \in Seq(Row) /\ Append(cache, Echo) \in Seq(Row)
      BY <1>c, EchoIsARow, Appended
    <3>2. cache' = cache \/ cache' = Append(cache, Echo)
      BY <1>8 DEF SendMessage
    <3> QED BY <3>1, <3>2
  <2>2. mine' = "sent" /\ lamp' = TRUE
    BY <1>8 DEF SendMessage
  <2>3. UNCHANGED <<log, phase, turn, sent, bound, link, wire, readies, viewing, load, kept, poll,
                    opens, drops, current>>
    BY <1>8 DEF SendMessage
  <2> QED BY <2>1, <2>2, <2>3, <1>p DEF ServerOK, WireOK, RowsOK, LoadOK
<1>9. CASE Leave
  <2>1. /\ viewing' = FALSE
        /\ UNCHANGED <<log, phase, turn, sent, bound, link, wire, readies, cache, mine, lamp, load,
                       kept, poll, opens, drops, current>>
    BY <1>9 DEF Leave
  <2>2. viewing' \in BOOLEAN
    BY <2>1
  <2> QED BY <2>1, <2>2, <1>p DEF ServerOK, WireOK, RowsOK, LoadOK
<1>10. CASE ReadLog
  <2>1. load' \in Loads
    BY <1>10, <1>c DEF ReadLog, Loads
  <2>2. UNCHANGED <<log, phase, turn, sent, bound, link, wire, readies, cache, mine, lamp, viewing,
                    kept, poll, opens, drops, current>>
    BY <1>10 DEF ReadLog
  <2> QED BY <2>1, <2>2, <1>p DEF ServerOK, WireOK, RowsOK, LoadOK
<1>11. CASE LoadEnds
  <2>1. cache' \in Seq(Row)
    <3>1. Compose(RowsOf(load.reply), load.before, lamp) \in Seq(Row)
      <4>1. Composed(Compose(RowsOf(load.reply), load.before, lamp), load.reply, load.before)
        BY <1>c, ComposeShape
      <4> QED BY <4>1 DEF Composed
    <3>2. cache' = Compose(RowsOf(load.reply), load.before, lamp)
      BY <1>11 DEF LoadEnds
    <3> QED BY <3>1, <3>2
  <2>2. kept' \in Keeps /\ readies' \in Nat
    <3>1. kept' = kept \/ kept' = [on |-> TRUE, reply |-> load.reply]
      BY <1>11 DEF LoadEnds
    <3>2. readies' = readies + 1 \/ readies' = readies
      BY <1>11 DEF LoadEnds
    <3>3. [on |-> TRUE, reply |-> load.reply] \in Keeps /\ kept \in Keeps
      BY <1>c DEF Keeps
    <3>4. readies' \in Nat
      BY <3>2, <1>c
    <3> QED BY <3>1, <3>3, <3>4
  <2>3. load' \in Loads
    <3>1. <<>> \in Seq(Row) /\ <<>> \in Seq(Entry)
      OBVIOUS
    <3> QED BY <3>1, <1>11 DEF LoadEnds, NoLoad, Loads
  <2>4. current' \in BOOLEAN
    BY <1>11, <1>c DEF LoadEnds, TypeOK
  <2>5. UNCHANGED <<log, phase, turn, sent, bound, link, wire, mine, lamp, viewing, poll, opens, drops>>
    BY <1>11 DEF LoadEnds
  <2> QED BY <2>1, <2>2, <2>3, <2>4, <2>5, <1>p DEF ServerOK, WireOK, RowsOK, LoadOK
<1>12. CASE LoadFails
  <2>1. load' \in Loads
    <3>1. <<>> \in Seq(Row) /\ <<>> \in Seq(Entry)
      OBVIOUS
    <3> QED BY <3>1, <1>12 DEF LoadFails, NoLoad, Loads
  <2>2. UNCHANGED <<log, phase, turn, sent, bound, link, wire, readies, cache, mine, lamp, viewing,
                    kept, poll, opens, drops, current>>
    BY <1>12 DEF LoadFails
  <2> QED BY <2>1, <2>2, <1>p DEF ServerOK, WireOK, RowsOK, LoadOK
<1>13. CASE ReuseExpires
  <2>1. kept' \in Keeps
    BY <1>13 DEF ReuseExpires, NotKept, Keeps
  <2> QED BY <1>13, <2>1, <1>p DEF ReuseExpires, ServerOK, WireOK, RowsOK, LoadOK
<1>14. CASE UserMessage
  <2>1. wire[1] \in Frame /\ wire' \in Seq(Frame)
    BY <1>14, FirstFrame DEF UserMessage
  <2>2. Said \in Row
    BY <2>1 DEF Frame, Row, Said
  <2>3. cache' = Claim(cache, Said, wire[1].type = "mine")
    BY <1>14 DEF UserMessage, Said
  <2>4. cache' \in Seq(Row)
    BY <2>2, <2>3, <1>c, ClaimCases
  <2> QED BY <1>14, <2>1, <2>4, <1>p DEF UserMessage, ServerOK, WireOK, RowsOK, LoadOK
<1>15. CASE StreamEvent
  <2>1. wire' \in Seq(Frame) /\ wire[1].turn \in Nat /\ wire[1].n \in Nat
    BY <1>15, FirstFrame DEF StreamEvent
  <2>2. Chunk(cache, wire[1].turn, wire[1].n) \in Seq(Row)
    BY <2>1, <1>c, ChunkGrows DEF Grown
  <2> QED BY <1>15, <2>1, <2>2, <1>p DEF StreamEvent, ServerOK, WireOK, RowsOK, LoadOK
<1>16. CASE StreamReset
  <2>1. wire' \in Seq(Frame) /\ wire[1].turn \in Nat /\ wire[1].n \in Nat
    BY <1>16, FirstFrame DEF StreamReset
  <2>2. Chunks(Persisted(cache), wire[1].turn, wire[1].n) \in Seq(Row)
    <3>1. Persisted(cache) \in Seq(Row)
      BY <1>c, PersistedShape
    <3> QED BY <2>1, <3>1, ChunksGrow DEF Grown
  <2>3. lamp' \in BOOLEAN
    BY <1>16, <1>c, <2>1 DEF StreamReset
  <2> QED BY <1>16, <2>1, <2>2, <2>3, <1>p DEF StreamReset, ServerOK, WireOK, RowsOK, LoadOK
<1>17. CASE SessionDone
  <2>1. wire' \in Seq(Frame)
    BY <1>17, FirstFrame DEF SessionDone
  <2>2. load' \in Loads
    BY <1>17, <1>c, RestoreType DEF SessionDone, Loads
  <2>3. cache' \in Seq(Row)
    BY <1>17, <1>c, PersistedShape DEF SessionDone
  <2>4. lamp' = FALSE
    BY <1>17 DEF SessionDone
  <2>5. UNCHANGED <<log, phase, turn, sent, bound, link, readies, viewing, kept, poll, opens, drops,
                    current, mine>>
    BY <1>17 DEF SessionDone
  <2> QED BY <2>1, <2>2, <2>3, <2>4, <2>5, <1>p DEF ServerOK, WireOK, RowsOK, LoadOK
<1>18. CASE Drop
  <2>1. drops' \in 0..MaxDrops
    BY <1>18, <1>a DEF Drop, TypeOK
  <2>2. wire' \in Seq(Frame) /\ readies' \in Nat /\ link' = FALSE /\ bound' = FALSE
    BY <1>18 DEF Drop
  <2>3. UNCHANGED <<log, phase, turn, sent, cache, mine, lamp, viewing, load, kept, poll, opens,
                    current>>
    BY <1>18 DEF Drop
  <2>4. link' \in BOOLEAN /\ bound' \in BOOLEAN
    BY <2>2
  <2> QED BY <2>1, <2>2, <2>3, <2>4, <1>p DEF ServerOK, WireOK, RowsOK, LoadOK
<1>19. CASE Reconnect
  <2>1. load' \in Loads
    BY <1>19, <1>c, RestoreType DEF Reconnect, Loads
  <2>2. UNCHANGED <<log, phase, turn, sent, bound, wire, readies, cache, mine, lamp, viewing, kept, poll,
                    opens, drops, current>> /\ link' = TRUE
    BY <1>19 DEF Reconnect
  <2> QED BY <2>1, <2>2, <1>p DEF ServerOK, WireOK, RowsOK, LoadOK
<1>20. CASE PollReads \/ PollAnswers
  BY <1>20, <1>p DEF PollReads, PollAnswers, ServerOK, WireOK, RowsOK, LoadOK
<1>21. CASE UNCHANGED vars
  BY <1>21, <1>p DEF vars, ServerOK, WireOK, RowsOK, LoadOK
<1> QED BY Steps, <1>1, <1>2, <1>3, <1>4, <1>5, <1>6, <1>7, <1>8, <1>9, <1>10, <1>11,
           <1>12, <1>13, <1>14, <1>15, <1>16, <1>17, <1>18, <1>19, <1>20, <1>21
-----------------------------------------------------------------------------
(* The frames and the replies.                                             *)
LEMMA PrefixLater ==
  ASSUME TypeOK, log' \in Seq(Entry), Extends, NEW reply \in Seq(Entry), Prefix(reply)
  PROVE  Len(reply) <= Len(log') /\ \A i \in 1..Len(reply) : reply[i] = log'[i]
<1>1. Len(reply) \in Nat /\ Len(log) \in Nat /\ Len(log') \in Nat /\ Len(log) <= Len(log')
  BY DEF TypeOK, Extends
<1>2. Len(reply) <= Len(log) /\ \A i \in 1..Len(reply) : reply[i] = log[i]
  BY DEF Prefix
<1>3. \A i \in 1..Len(reply) : i \in 1..Len(log)
  BY <1>1, <1>2
<1> QED BY <1>1, <1>2, <1>3 DEF Extends

LEMMA Replies ==
  ASSUME TypeOK, [Next]_vars
  PROVE  /\ load'.reply \in {load.reply, kept.reply, log, <<>>}
         /\ kept'.reply \in {kept.reply, load.reply, <<>>}
<1>1. /\ load \in [at : {"none", "asked", "answered"}, before : Seq(Row),
                   reply : Seq(Entry), reused : BOOLEAN, current : BOOLEAN]
      /\ kept \in [on : BOOLEAN, reply : Seq(Entry)]
  BY DEF TypeOK
<1> USE DEF server, socket, count, vars
<1>2. CASE StartTurn
  BY <1>1, <1>2 DEF StartTurn
<1>3. CASE ReadLog
  BY <1>1, <1>3 DEF ReadLog
<1>4. CASE LoadEnds \/ LoadFails
  BY <1>1, <1>4 DEF LoadEnds, LoadFails, NoLoad
<1>5. CASE ReuseExpires
  BY <1>5 DEF ReuseExpires, NotKept
<1>6. CASE Open
  BY <1>6 DEF Open, Restore
<1>7. CASE SessionDone
  BY <1>7 DEF SessionDone, Restore
<1>8. CASE Reconnect
  BY <1>8 DEF Reconnect, Restore
<1>9. CASE BroadcastSessionStream \/ SaveAnswer \/ BroadcastSessionDone \/ ClearSessionPending
  BY <1>9 DEF BroadcastSessionStream, SaveAnswer, BroadcastSessionDone, ClearSessionPending
<1>10. CASE HandleSessionReady \/ SendMessage \/ Leave \/ PollReads \/ PollAnswers
  BY <1>10 DEF HandleSessionReady, SendMessage, Leave, PollReads, PollAnswers
<1>11. CASE UserMessage \/ StreamEvent \/ StreamReset \/ Drop
  BY <1>11 DEF UserMessage, StreamEvent, StreamReset, Drop
<1>12. CASE UNCHANGED vars
  BY <1>12
<1> QED BY Steps, <1>2, <1>3, <1>4, <1>5, <1>6, <1>7, <1>8, <1>9, <1>10, <1>11, <1>12

LEMMA PrefixStep ==
  ASSUME TypeOK, LogInv, Prefix(load.reply), Prefix(kept.reply), [Next]_vars
  PROVE  Prefix(load.reply)' /\ Prefix(kept.reply)'
<1>1. /\ log' \in Seq(Entry) /\ Extends /\ log \in Seq(Entry) /\ load.reply \in Seq(Entry)
      /\ kept.reply \in Seq(Entry)
  BY LogStep, LoadType DEF TypeOK
<1>2. Prefix(log)
  BY <1>1 DEF Prefix
<1>3. Prefix(<<>>) /\ <<>> \in Seq(Entry)
  BY <1>1 DEF Prefix
<1>4. \A reply \in {load.reply, kept.reply, log, <<>>} :
        Len(reply) <= Len(log') /\ \A i \in 1..Len(reply) : reply[i] = log'[i]
  BY <1>1, <1>2, <1>3, PrefixLater
<1> QED BY <1>4, Replies DEF Prefix

LEMMA LinkStep ==
  ASSUME TypeOK, Linked, [Next]_vars
  PROVE  Linked'
<1>1. readies \in Nat /\ link \in BOOLEAN /\ bound \in BOOLEAN
  BY DEF TypeOK
<1> USE DEF server, socket, count, vars, Linked
<1>2. CASE StartTurn
  BY <1>1, <1>2 DEF StartTurn
<1>3. CASE HandleSessionReady
  BY <1>1, <1>3 DEF HandleSessionReady
<1>4. CASE LoadEnds
  BY <1>1, <1>4 DEF LoadEnds
<1>5. CASE Drop
  BY <1>5 DEF Drop
<1>6. CASE Reconnect
  BY <1>6 DEF Reconnect
<1>7. CASE BroadcastSessionStream \/ SaveAnswer \/ BroadcastSessionDone \/ ClearSessionPending
  BY <1>7 DEF BroadcastSessionStream, SaveAnswer, BroadcastSessionDone, ClearSessionPending
<1>8. CASE Open \/ SendMessage \/ Leave \/ ReadLog \/ LoadFails \/ ReuseExpires
  BY <1>8 DEF Open, SendMessage, Leave, ReadLog, LoadFails, ReuseExpires
<1>9. CASE UserMessage \/ StreamEvent
  BY <1>9 DEF UserMessage, StreamEvent
<1>10. CASE StreamReset \/ SessionDone
  BY <1>10 DEF StreamReset, SessionDone
<1>11. CASE PollReads \/ PollAnswers \/ UNCHANGED vars
  BY <1>11 DEF PollReads, PollAnswers
<1> QED BY Steps, <1>2, <1>3, <1>4, <1>5, <1>6, <1>7, <1>8, <1>9, <1>10, <1>11

(* What a step does to the frames under way.                               *)
NewFrame(f) ==
  /\ f \in Frame /\ f.turn <= turn'
  /\ IsUser(f) => /\ f.n = Len(log) + 1 /\ Len(log') = Len(log) + 1
                  /\ log'[f.n] = [turn |-> f.turn, by |-> "user"]
  /\ f.type # "reset" => mine' # "sent"
  /\ f.type = "mine" => mine = "sent" /\ mine' = "started"

LEMMA WireSteps ==
  ASSUME TypeOK, LogInv, WireInv, MineInv, [Next]_vars
  PROVE  /\ \/ wire' = wire /\ (mine' = "sent" => mine = "sent" \/ wire = <<>>)
            \/ \E f : wire' = Append(wire, f) /\ NewFrame(f) /\ (mine' = "sent" => mine = "sent")
            \/ wire # <<>> /\ wire' = Tail(wire) /\ mine' = mine
            \/ wire' = <<>>
         /\ mine' = "sent" => phase' = "idle"
         /\ mine = "started" => mine' = "started"
         /\ mine # "none" => mine' # "none"
<1>1. /\ turn \in Nat /\ log \in Seq(Entry) /\ mine \in {"none", "sent", "started"}
      /\ mine = "sent" => phase = "idle"
  BY TranscriptAssumption DEF TypeOK, MineInv
<1> USE DEF server, socket, count, vars
<1>2. CASE StartTurn
  <2> DEFINE f == [type |-> IF mine = "sent" THEN "mine" ELSE "user",
                   turn |-> turn + 1, n |-> Len(log) + 1]
  <2>1. mine' = (IF mine = "sent" THEN "started" ELSE mine) /\ turn' = turn + 1
    BY <1>2 DEF StartTurn
  <2>2. wire' = wire \/ wire' = Append(wire, f)
    BY <1>2 DEF StartTurn
  <2>3. f \in Frame /\ f.turn = turn' /\ f.n = Len(log) + 1
        /\ f.type = IF mine = "sent" THEN "mine" ELSE "user"
    BY <1>2, <2>1, ServerFrames
  <2>4. log'[f.n] = [turn |-> f.turn, by |-> "user"] /\ Len(log') = Len(log) + 1
    BY <1>2, <2>1, <2>3, NewTurn
  <2> HIDE DEF f
  <2>5. NewFrame(f)
    BY <2>1, <2>3, <2>4, <1>1 DEF NewFrame
  <2> QED BY <2>1, <2>2, <2>5, <1>1
<1>3. CASE BroadcastSessionStream
  <2> DEFINE f == [type |-> "chunk", turn |-> turn, n |-> sent + 1]
  <2>1. f \in Frame /\ f.turn = turn /\ f.type = "chunk"
    BY ServerFrames
  <2>2. (wire' = wire \/ wire' = Append(wire, f)) /\ mine' = mine /\ turn' = turn /\ phase = "running"
        /\ phase' = phase
    BY <1>3 DEF BroadcastSessionStream, Send
  <2> HIDE DEF f
  <2>3. NewFrame(f)
    BY <2>1, <2>2, <1>1 DEF NewFrame, IsUser
  <2> QED BY <2>2, <2>3, <1>1
<1>4. CASE BroadcastSessionDone
  <2> DEFINE f == [type |-> "done", turn |-> turn, n |-> 0]
  <2>1. f \in Frame /\ f.turn = turn /\ f.type = "done"
    BY ServerFrames
  <2>2. (wire' = wire \/ wire' = Append(wire, f)) /\ mine' = mine /\ turn' = turn /\ phase = "running"
    BY <1>4 DEF BroadcastSessionDone, Send
  <2> HIDE DEF f
  <2>3. NewFrame(f)
    BY <2>1, <2>2, <1>1 DEF NewFrame, IsUser
  <2> QED BY <2>2, <2>3, <1>1
<1>5. CASE HandleSessionReady
  <2> DEFINE f == [type |-> "reset", turn |-> turn, n |-> sent]
  <2>1. f \in Frame /\ f.turn = turn /\ f.type = "reset"
    BY ServerFrames
  <2>2. wire' = Append(wire, f) /\ mine' = mine /\ turn' = turn /\ phase' = phase
    BY <1>5 DEF HandleSessionReady
  <2> HIDE DEF f
  <2>3. NewFrame(f)
    BY <2>1, <2>2, <1>1 DEF NewFrame, IsUser
  <2> QED BY <2>2, <2>3, <1>1
<1>6. CASE SaveAnswer \/ ClearSessionPending
  BY <1>1, <1>6 DEF SaveAnswer, ClearSessionPending
<1>7. CASE Open \/ SendMessage \/ Leave \/ ReadLog \/ LoadEnds \/ LoadFails \/ ReuseExpires
  BY <1>1, <1>7 DEF Open, SendMessage, Leave, ReadLog, LoadEnds, LoadFails, ReuseExpires
<1>8. CASE UserMessage \/ StreamEvent
  BY <1>1, <1>8 DEF UserMessage, StreamEvent, Arrives
<1>9. CASE StreamReset \/ SessionDone
  BY <1>1, <1>9 DEF StreamReset, SessionDone, Arrives
<1>10. CASE Drop \/ Reconnect
  BY <1>1, <1>10 DEF Drop, Reconnect
<1>11. CASE PollReads \/ PollAnswers \/ UNCHANGED vars
  BY <1>1, <1>11 DEF PollReads, PollAnswers
<1> QED BY Steps, <1>2, <1>3, <1>4, <1>5, <1>6, <1>7, <1>8, <1>9, <1>10, <1>11

(* A user frame stays one: its row does not go away.                       *)
LEMMA UserFrameStays ==
  ASSUME TypeOK, log' \in Seq(Entry), Extends, NEW f, Announces(f, log)
  PROVE  Announces(f, log') /\ f.n <= Len(log)
<1>1. Len(log) \in Nat /\ Len(log') \in Nat
  BY DEF TypeOK
<1> QED BY <1>1 DEF Announces, Extends

LEMMA WireStep ==
  ASSUME TypeOK, LogInv, WireInv, MineInv, [Next]_vars
  PROVE  WireInv' /\ MineInv'
<1>1. /\ wire \in Seq(Frame) /\ Len(wire) \in Nat /\ Len(log) \in Nat /\ Len(log') \in Nat
      /\ Extends /\ turn \in Nat /\ turn' \in Nat /\ log' \in Seq(Entry)
  <2>1. TypeOK' /\ Extends
    BY LogStep, TypeStep
  <2>2. wire \in Seq(Frame) /\ log \in Seq(Entry) /\ turn \in Nat
    BY TranscriptAssumption DEF TypeOK
  <2>3. log' \in Seq(Entry) /\ turn' \in Nat
    BY <2>1, TranscriptAssumption DEF TypeOK
  <2> QED BY <2>1, <2>2, <2>3
<1>2. Linked'
  BY LinkStep DEF WireInv
<1>3. \A i \in 1..Len(wire) : wire[i] \in Frame /\ wire[i].turn \in Nat /\ wire[i].n \in Nat
  <2>1. \A i \in 1..Len(wire) : wire[i] \in Frame
    BY <1>1
  <2> QED BY <2>1 DEF Frame
<1>4. ASSUME NEW i \in 1..Len(wire)
      PROVE  /\ wire[i].turn <= turn'
             /\ IsUser(wire[i]) => Announces(wire[i], log') /\ wire[i].n <= Len(log)
  <2>1. wire[i].turn <= turn /\ (IsUser(wire[i]) => Announces(wire[i], log))
    BY DEF WireInv, FramesOfLog
  <2>2. wire[i].turn <= turn'
    BY <2>1, <1>1, <1>3 DEF Extends
  <2> QED BY <2>1, <2>2, <1>1, UserFrameStays
<1>5. /\ \A i, k \in 1..Len(wire) :
           i < k /\ IsUser(wire[i]) /\ IsUser(wire[k]) => wire[i].n < wire[k].n
      /\ mine = "sent" => phase = "idle" /\ \A i \in 1..Len(wire) : wire[i].type = "reset"
      /\ \A k \in 1..Len(wire) : wire[k].type = "mine" =>
           mine = "started" /\ \A i \in 1..(k - 1) : wire[i].type = "reset"
  BY DEF WireInv, FramesInOrder, MineInv
<1>6. /\ mine' = "sent" => phase' = "idle"
      /\ mine = "started" => mine' = "started"
  BY WireSteps
<1>7. CASE wire' = wire /\ (mine' = "sent" => mine = "sent" \/ wire = <<>>)
  <2>1. WireInv'
    BY <1>2, <1>4, <1>5, <1>7 DEF WireInv, FramesOfLog, FramesInOrder
  <2>2. mine' = "sent" => \A i \in 1..Len(wire) : wire[i].type = "reset"
    BY <1>5, <1>7
  <2> QED BY <2>1, <2>2, <1>5, <1>6, <1>7 DEF MineInv
<1>8. ASSUME NEW f, wire' = Append(wire, f), NewFrame(f), mine' = "sent" => mine = "sent"
      PROVE  WireInv' /\ MineInv'
  <2>1. f \in Frame
    BY <1>8 DEF NewFrame
  <2>2. IsAppend(wire', wire, f)
    BY <2>1, <1>8, LastFrame
  <2>3. /\ f.turn <= turn'
        /\ IsUser(f) => Announces(f, log') /\ f.n = Len(log) + 1
    BY <1>1, <1>8 DEF NewFrame, Announces
  <2> DEFINE m == Len(wire) + 1
  <2>4. /\ wire'[m] = f /\ \A i \in 1..Len(wire) : wire'[i] = wire[i] /\ i < m
        /\ \A i \in 1..Len(wire') : i \in 1..Len(wire) \/ i = m
        /\ m \in Nat
    BY <2>2, <1>1 DEF IsAppend
  <2> HIDE DEF m
  <2>5. \A i \in 1..Len(wire') :
          /\ wire'[i].turn <= turn'
          /\ IsUser(wire'[i]) => Announces(wire'[i], log')
    BY <2>3, <2>4, <1>4
  <2>6. ASSUME NEW i \in 1..Len(wire'), NEW k \in 1..Len(wire'), i < k, IsUser(wire'[i]), IsUser(wire'[k])
        PROVE  wire'[i].n < wire'[k].n
    <3>1. CASE k \in 1..Len(wire)
      <4>1. i \in 1..Len(wire)
        BY <3>1, <2>6, <1>1
      <4> QED BY <4>1, <3>1, <2>4, <2>6, <1>5
    <3>2. CASE k = m /\ i \in 1..Len(wire)
      <4>1. wire'[i] = wire[i] /\ wire'[k] = f
        BY <3>2, <2>4
      <4>2. wire[i].n <= Len(log) /\ wire[i].n \in Nat /\ f.n = Len(log) + 1
        BY <4>1, <3>2, <2>3, <2>6, <1>3, <1>4
      <4> QED BY <4>1, <4>2, <1>1
    <3>3. ~(k = m /\ i = m)
      BY <2>4, <2>6
    <3> QED BY <3>1, <3>2, <3>3, <2>4, <2>6
  <2>7. WireInv'
    <3>1. FramesOfLog'
      BY <2>5 DEF FramesOfLog
    <3>2. FramesInOrder'
      BY <2>6 DEF FramesInOrder, IsUser
    <3> QED BY <1>2, <3>1, <3>2 DEF WireInv
  <2>8. mine' = "sent" => \A i \in 1..Len(wire') : wire'[i].type = "reset"
    BY <2>4, <1>5, <1>8 DEF NewFrame
  <2>9. ASSUME NEW k \in 1..Len(wire'), wire'[k].type = "mine"
        PROVE  mine' = "started" /\ \A i \in 1..(k - 1) : wire'[i].type = "reset"
    <3>1. CASE k \in 1..Len(wire)
      <4>1. \A i \in 1..(k - 1) : i \in 1..Len(wire)
        BY <3>1, <1>1
      <4> QED BY <4>1, <3>1, <2>4, <2>9, <1>5, <1>6
    <3>2. CASE k = m
      <4>1. \A i \in 1..(k - 1) : i \in 1..Len(wire)
        BY <3>2, <1>1 DEF m
      <4>2. mine = "sent" /\ mine' = "started"
        BY <3>2, <2>4, <2>9, <1>8 DEF NewFrame
      <4> QED BY <4>1, <4>2, <2>4, <1>5
    <3> QED BY <3>1, <3>2, <2>4
  <2> QED BY <2>7, <2>8, <2>9, <1>6 DEF MineInv
<1>9. CASE wire # <<>> /\ wire' = Tail(wire) /\ mine' = mine
  <2>1. IsTail(wire', wire)
    BY <1>1, <1>9, Tailed
  <2>2. /\ \A i \in 1..Len(wire') : wire'[i] = wire[i + 1] /\ i + 1 \in 1..Len(wire) /\ i \in Nat
    BY <2>1 DEF IsTail
  <2>3. \A i \in 1..Len(wire') :
          /\ wire'[i].turn <= turn'
          /\ IsUser(wire'[i]) => Announces(wire'[i], log')
    BY <2>2, <1>4
  <2>4. ASSUME NEW i \in 1..Len(wire'), NEW k \in 1..Len(wire'), i < k, IsUser(wire'[i]), IsUser(wire'[k])
        PROVE  wire'[i].n < wire'[k].n
    <3>1. i + 1 \in 1..Len(wire) /\ k + 1 \in 1..Len(wire) /\ i + 1 < k + 1
      BY <2>2, <2>4
    <3> QED BY <3>1, <2>2, <2>4, <1>5
  <2>5. WireInv'
    <3>1. FramesOfLog'
      BY <2>3 DEF FramesOfLog
    <3>2. FramesInOrder'
      BY <2>4 DEF FramesInOrder, IsUser
    <3> QED BY <1>2, <3>1, <3>2 DEF WireInv
  <2>6. ASSUME NEW k \in 1..Len(wire'), wire'[k].type = "mine"
        PROVE  mine' = "started" /\ \A i \in 1..(k - 1) : wire'[i].type = "reset"
    <3>1. k + 1 \in 1..Len(wire) /\ wire[k + 1].type = "mine"
      BY <2>2, <2>6
    <3>2. mine = "started" /\ \A i \in 1..k : wire[i].type = "reset"
      BY <3>1, <1>5
    <3>3. \A i \in 1..(k - 1) : i \in 1..Len(wire') /\ i + 1 \in 1..k
      OBVIOUS
    <3> QED BY <3>2, <3>3, <2>2, <1>6
  <2> QED BY <2>2, <2>5, <2>6, <1>5, <1>6, <1>9 DEF MineInv
<1>10. CASE wire' = <<>>
  BY <1>2, <1>6, <1>10 DEF WireInv, FramesOfLog, FramesInOrder, MineInv
<1> QED BY <1>7, <1>8, <1>9, <1>10, WireSteps

LEMMA SocketStep ==
  ASSUME SocketInv, [Next]_vars
  PROVE  SocketInv'
BY TypeStep, LogStep, WireStep, PrefixStep DEF SocketInv

LEMMA SocketInit ==
  ASSUME Init
  PROVE  SocketInv
<1>1. <<>> \in Seq(Entry) /\ <<>> \in Seq(Frame) /\ <<>> \in Seq(Row) /\ Len(<<>>) = 0
  OBVIOUS
<1>2. TypeOK
  <2>1. /\ NoLoad \in [at : {"none", "asked", "answered"}, before : Seq(Row),
                        reply : Seq(Entry), reused : BOOLEAN, current : BOOLEAN]
        /\ NotKept \in [on : BOOLEAN, reply : Seq(Entry)]
    BY <1>1 DEF NoLoad, NotKept
  <2>2. /\ log = <<>> /\ phase = "idle" /\ turn = 0 /\ sent = 0
        /\ bound = FALSE /\ link = TRUE /\ wire = <<>> /\ readies = 0
        /\ cache = <<>> /\ mine = "none" /\ lamp = FALSE /\ viewing = FALSE
        /\ load = NoLoad /\ kept = NotKept /\ poll = "none"
        /\ opens = 0 /\ drops = 0 /\ current = FALSE
    BY DEF Init
  <2>3. 0 <= 2 * MaxTurns /\ 0 \in 0..MaxTurns /\ 0 \in 0..MaxChunks /\ 0 \in 0..MaxOpens
        /\ 0 \in 0..MaxDrops
    BY TranscriptAssumption
  <2> QED BY <1>1, <2>1, <2>2, <2>3 DEF TypeOK
<1> QED BY <1>1, <1>2 DEF Init, SocketInv, LogInv, WireInv, Linked, FramesOfLog, FramesInOrder, MineInv, Prefix, NoLoad, NotKept

(* Rows, replies and frames have their types, and what the model calls     *)
(* Saved has a place in the log: the browser never makes up a seq.         *)
THEOREM TypeCorrect == Spec => []TypeOK
<1>1. Init => SocketInv
  BY SocketInit
<1>2. SocketInv /\ [Next]_vars => SocketInv'
  BY SocketStep
<1>3. SocketInv => TypeOK
  BY DEF SocketInv
<1> QED BY <1>1, <1>2, <1>3, PTL DEF Spec
-----------------------------------------------------------------------------
(* Each rule for rows keeps what is shown of the log.                      *)
LEMMA RowFacts ==
  ASSUME NEW rows \in Seq(Row)
  PROVE  /\ Len(rows) \in Nat
         /\ \A i \in 1..Len(rows) : rows[i] \in Row /\ rows[i].seq \in Nat /\ rows[i].turn \in Nat
<1>1. Len(rows) \in Nat /\ \A i \in 1..Len(rows) : rows[i] \in Row
  OBVIOUS
<1> QED BY <1>1 DEF Row

LEMMA UserFrameFacts ==
  ASSUME SocketInv, NEW k \in 1..Len(wire), IsUser(wire[k])
  PROVE  /\ wire[k].n \in 1..Len(log) /\ wire[k].n \in Nat /\ wire[k].n > 0
         /\ log[wire[k].n] = [turn |-> wire[k].turn, by |-> "user"]
         /\ wire[k].turn <= turn
<1>1. Announces(wire[k], log) /\ wire[k].turn <= turn
  BY DEF SocketInv, WireInv, FramesOfLog
<1>2. Len(log) \in Nat
  BY DEF SocketInv, TypeOK
<1> QED BY <1>1, <1>2 DEF Announces

LEMMA GrownShown ==
  ASSUME SocketInv, NEW rows \in Seq(Row), NEW out, NEW t \in Nat, t <= turn,
         Grown(rows, out, t), Shown(rows)
  PROVE  Shown(out)
<1>1. /\ Len(rows) \in Nat /\ Len(out) \in Nat /\ Len(rows) <= Len(out)
      /\ \A i \in 1..Len(rows) : rows[i].seq \in Nat
  BY RowFacts DEF Grown
<1>2. \A i \in 1..Len(rows) :
        /\ out[i].seq = rows[i].seq /\ out[i].turn = rows[i].turn /\ out[i].by = rows[i].by
        /\ rows[i].by = "user" => out[i] = rows[i]
        /\ i \in 1..Len(out)
  BY <1>1 DEF Grown
<1>3. \A i \in 1..Len(out) : \/ i \in 1..Len(rows)
                             \/ out[i].seq = 0 /\ out[i].turn = t /\ out[i].by = "agent"
  BY <1>1 DEF Grown
<1>4. Ordered(out)
  <2> SUFFICES ASSUME NEW i \in 1..Len(out), NEW k \in 1..Len(out), i < k,
                      Saved(out[i]), Saved(out[k])
               PROVE  out[i].seq < out[k].seq
    BY DEF Ordered
  <2>1. i \in 1..Len(rows) /\ k \in 1..Len(rows)
    BY <1>3 DEF Saved, Transient
  <2> QED BY <2>1, <1>2 DEF Shown, Ordered, Saved, Transient
<1>5. OfLog(out)
  <2> SUFFICES ASSUME NEW i \in 1..Len(out)
               PROVE  /\ out[i].seq <= Len(log) /\ out[i].turn <= turn
                      /\ Saved(out[i]) => log[out[i].seq] = [turn |-> out[i].turn, by |-> out[i].by]
    BY DEF OfLog
  <2>1. CASE i \in 1..Len(rows)
    BY <2>1, <1>2 DEF Shown, OfLog, Saved, Transient
  <2>2. CASE out[i].seq = 0 /\ out[i].turn = t
    <3>1. Len(log) \in Nat
      BY DEF SocketInv, TypeOK
    <3> QED BY <2>2, <3>1 DEF Saved, Transient
  <2> QED BY <2>1, <2>2, <1>3
<1>6. Filled(out)
  <2> SUFFICES ASSUME NEW k \in 1..Len(wire), IsUser(wire[k]), NEW i \in 1..Len(out),
                      out[i].seq > wire[k].n
               PROVE  HasSeq(out, wire[k].n)
    BY DEF Filled
  <2>n. wire[k].n \in Nat /\ wire[k].n > 0
    BY UserFrameFacts
  <2>1. i \in 1..Len(rows)
    BY <1>3, <2>n
  <2>2. HasSeq(rows, wire[k].n)
    BY <2>1, <1>2 DEF Shown, Filled
  <2> QED BY <2>2, <1>2 DEF HasSeq
<1>7. \A i \in 1..Len(out) : out[i] = Echo => i \in 1..Len(rows) /\ rows[i] = Echo
  BY <1>2, <1>3, EchoIsARow
<1>8. OneEcho(out)
  BY <1>7 DEF Shown, OneEcho, HasEcho
<1> QED BY <1>4, <1>5, <1>6, <1>8 DEF Shown

LEMMA PersistedShown ==
  ASSUME SocketInv, NEW rows \in Seq(Row), Shown(rows)
  PROVE  Shown(Persisted(rows)) /\ ~HasEcho(Persisted(rows))
<1> DEFINE out == Persisted(rows)
<1>1. /\ out \in Seq(Row)
      /\ \A i \in 1..Len(out) : Saved(out[i]) /\ \E p \in 1..Len(rows) : out[i] = rows[p]
      /\ \A i, k \in 1..Len(out) : i < k =>
           \E p, q \in 1..Len(rows) : /\ p < q /\ out[i] = rows[p] /\ out[k] = rows[q]
      /\ \A p \in 1..Len(rows) : Saved(rows[p]) => \E i \in 1..Len(out) : out[i] = rows[p]
  BY PersistedShape
<1> HIDE DEF out
<1>2. Ordered(out)
  <2> SUFFICES ASSUME NEW i \in 1..Len(out), NEW k \in 1..Len(out), i < k
               PROVE  out[i].seq < out[k].seq
    BY DEF Ordered
  <2>1. PICK p, q \in 1..Len(rows) : p < q /\ out[i] = rows[p] /\ out[k] = rows[q]
    BY <1>1
  <2>2. Saved(out[i]) /\ Saved(out[k])
    BY <1>1
  <2> QED BY <2>1, <2>2 DEF Shown, Ordered
<1>3. OfLog(out)
  <2> SUFFICES ASSUME NEW i \in 1..Len(out)
               PROVE  /\ out[i].seq <= Len(log) /\ out[i].turn <= turn
                      /\ Saved(out[i]) => log[out[i].seq] = [turn |-> out[i].turn, by |-> out[i].by]
    BY DEF OfLog
  <2>1. PICK p \in 1..Len(rows) : out[i] = rows[p]
    BY <1>1
  <2> QED BY <2>1 DEF Shown, OfLog
<1>4. Filled(out)
  <2> SUFFICES ASSUME NEW k \in 1..Len(wire), IsUser(wire[k]), NEW i \in 1..Len(out),
                      out[i].seq > wire[k].n
               PROVE  HasSeq(out, wire[k].n)
    BY DEF Filled
  <2>1. PICK p \in 1..Len(rows) : out[i] = rows[p]
    BY <1>1
  <2>s. HasSeq(rows, wire[k].n)
    BY <2>1 DEF Shown, Filled
  <2>2. PICK q \in 1..Len(rows) : rows[q].seq = wire[k].n
    BY <2>s DEF HasSeq
  <2>3. Saved(rows[q])
    <3>1. wire[k].n > 0 /\ wire[k].n \in Nat
      BY UserFrameFacts
    <3> QED BY <2>2, <3>1 DEF Saved, Transient
  <2>4. PICK j \in 1..Len(out) : out[j] = rows[q]
    BY <2>3, <1>1
  <2> QED BY <2>2, <2>4 DEF HasSeq
<1>5. ~HasEcho(out)
  BY <1>1, EchoIsARow DEF HasEcho, Saved, Transient
<1>6. OneEcho(out)
  BY <1>5 DEF OneEcho, HasEcho
<1> QED BY <1>2, <1>3, <1>4, <1>5, <1>6 DEF Shown, out

LEMMA ComposeShown ==
  ASSUME SocketInv, NEW reply \in Seq(Entry), Prefix(reply), NEW before \in Seq(Row), Shown(before),
         NEW inFlight \in BOOLEAN
  PROVE  Shown(Compose(RowsOf(reply), before, inFlight))
<1> DEFINE out == Compose(RowsOf(reply), before, inFlight)
           L == Len(reply)
<1>1. Composed(out, reply, before)
  BY ComposeShape
<1>2. /\ out \in Seq(Row) /\ L <= Len(out) /\ L \in Nat /\ Len(out) \in Nat
      /\ Len(log) \in Nat /\ L <= Len(log)
  BY <1>1 DEF Composed, Prefix, SocketInv, TypeOK
<1>3. \A i \in 1..L : /\ i \in 1..Len(out) /\ i \in 1..Len(log)
                      /\ out[i].seq = i /\ out[i].turn = log[i].turn /\ out[i].by = log[i].by
  <2>1. \A i \in 1..L : i \in 1..Len(out) /\ i \in 1..Len(log)
    BY <1>2
  <2>2. \A i \in 1..L : out[i] = RowsOf(reply)[i] /\ reply[i] = log[i]
    BY <1>1 DEF Composed, Prefix
  <2>3. \A i \in 1..L : /\ RowsOf(reply)[i].seq = i /\ RowsOf(reply)[i].turn = reply[i].turn
                        /\ RowsOf(reply)[i].by = reply[i].by
    <3> SUFFICES ASSUME NEW i \in 1..L
                 PROVE  /\ RowsOf(reply)[i].seq = i /\ RowsOf(reply)[i].turn = reply[i].turn
                        /\ RowsOf(reply)[i].by = reply[i].by
      OBVIOUS
    <3>1. RowsOf(reply)[i] = [seq |-> i, turn |-> reply[i].turn, by |-> reply[i].by, text |-> <<>>]
      BY RowsOfType
    <3> QED BY <3>1
  <2> QED BY <2>1, <2>2, <2>3
<1>4. \A i \in 1..Len(out) : i > L =>
        \E p \in 1..Len(before) : out[i] = before[p] /\ (before[p].seq > L \/ before[p].seq = 0)
  BY <1>1 DEF Composed
<1>5. \A i, k \in 1..Len(out) : L < i /\ i < k =>
        \/ out[i].seq > L /\ out[k].seq = 0
        \/ \E p, q \in 1..Len(before) : p < q /\ out[i] = before[p] /\ out[k] = before[q]
  BY <1>1 DEF Composed
<1>6. \A p \in 1..Len(before) : before[p].seq > L => \E i \in 1..Len(out) : out[i] = before[p]
  BY <1>1 DEF Composed
<1> HIDE DEF out, L
<1>7. Ordered(out)
  <2> SUFFICES ASSUME NEW i \in 1..Len(out), NEW k \in 1..Len(out), i < k,
                      Saved(out[i]), Saved(out[k])
               PROVE  out[i].seq < out[k].seq
    BY DEF Ordered
  <2>1. CASE k <= L
    <3>1. i \in 1..L /\ k \in 1..L
      BY <2>1, <1>2
    <3> QED BY <3>1, <1>3
  <2>2. CASE i <= L /\ k > L
    <3>1. i \in 1..L
      BY <2>2, <1>2
    <3>2. out[i].seq = i
      BY <3>1, <1>3
    <3>3. out[k].seq > L
      BY <2>2, <1>4 DEF Saved, Transient
    <3>4. out[k].seq \in Nat
      BY <1>2, RowFacts
    <3> QED BY <2>2, <3>2, <3>3, <3>4, <1>2
  <2>3. CASE i > L
    <3>1. out[k].seq # 0
      BY DEF Saved, Transient
    <3>2. PICK p, q \in 1..Len(before) : p < q /\ out[i] = before[p] /\ out[k] = before[q]
      BY <2>3, <3>1, <1>2, <1>5
    <3> QED BY <3>2 DEF Shown, Ordered
  <2> QED BY <2>1, <2>2, <2>3, <1>2
<1>8. OfLog(out)
  <2> SUFFICES ASSUME NEW i \in 1..Len(out)
               PROVE  /\ out[i].seq <= Len(log) /\ out[i].turn <= turn
                      /\ Saved(out[i]) => log[out[i].seq] = [turn |-> out[i].turn, by |-> out[i].by]
    BY DEF OfLog
  <2>1. CASE i \in 1..L
    <3>1. log[i] \in Entry /\ log[i].turn <= turn
      <4>1. log \in Seq(Entry) /\ i \in 1..Len(log) /\ \A k \in 1..Len(log) : log[k].turn <= turn
        BY <2>1, <1>3 DEF SocketInv, TypeOK, LogInv
      <4> QED BY <4>1
    <3>2. log[i] = [turn |-> log[i].turn, by |-> log[i].by]
      BY <3>1 DEF Entry
    <3> QED BY <2>1, <3>1, <3>2, <1>2, <1>3
  <2>2. CASE i > L
    <3>1. PICK p \in 1..Len(before) : out[i] = before[p]
      BY <2>2, <1>4
    <3> QED BY <3>1 DEF Shown, OfLog
  <2> QED BY <2>1, <2>2, <1>2
<1>9. Filled(out)
  <2> SUFFICES ASSUME NEW k \in 1..Len(wire), IsUser(wire[k]), NEW i \in 1..Len(out),
                      out[i].seq > wire[k].n
               PROVE  HasSeq(out, wire[k].n)
    BY DEF Filled
  <2> DEFINE n == wire[k].n
  <2>1. n \in Nat /\ n > 0
    BY UserFrameFacts
  <2>2. CASE n <= L
    <3>1. n \in 1..L
      BY <2>1, <2>2, <1>2
    <3>2. n \in 1..Len(out) /\ out[n].seq = n
      BY <3>1, <1>3
    <3> QED BY <3>2 DEF HasSeq
  <2>3. CASE n > L
    <3>1. ~(i \in 1..L)
      <4>1. i \in 1..L => out[i].seq = i /\ i <= L
        BY <1>2, <1>3
      <4> QED BY <4>1, <2>1, <2>3, <1>2
    <3>2. PICK p \in 1..Len(before) : out[i] = before[p]
      BY <3>1, <1>2, <1>4
    <3>3. HasSeq(before, n)
      BY <3>2 DEF Shown, Filled
    <3>4. PICK q \in 1..Len(before) : before[q].seq = n
      BY <3>3 DEF HasSeq
    <3>5. PICK j \in 1..Len(out) : out[j] = before[q]
      BY <3>4, <2>3, <1>6
    <3> QED BY <3>4, <3>5 DEF HasSeq
  <2> QED BY <2>1, <2>2, <2>3, <1>2
<1>10. \A i \in 1..Len(out) : out[i] = Echo => i > L
  <2>1. \A i \in 1..Len(out) : i \in 1..L \/ i > L
    BY <1>2
  <2>2. \A i \in 1..L : out[i].seq = i /\ i # 0
    BY <1>2, <1>3
  <2> QED BY <2>1, <2>2, EchoIsARow
<1>11. ASSUME NEW i \in 1..Len(out), NEW k \in 1..Len(out), i < k, out[i] = Echo, out[k] = Echo
       PROVE  FALSE
  <2>1. PICK p, q \in 1..Len(before) : p < q /\ out[i] = before[p] /\ out[k] = before[q]
    <3>1. L < i /\ i < k
      BY <1>10, <1>11, <1>2
    <3>2. ~(out[i].seq > L)
      BY <1>2, <1>11, EchoIsARow
    <3>3. \/ out[i].seq > L /\ out[k].seq = 0
          \/ \E p, q \in 1..Len(before) : p < q /\ out[i] = before[p] /\ out[k] = before[q]
      BY <3>1, <1>5
    <3> QED BY <3>2, <3>3
  <2>2. \A x, y \in 1..Len(before) : before[x] = Echo /\ before[y] = Echo => x = y
    BY DEF Shown, OneEcho
  <2>3. p = q
    BY <2>1, <2>2, <1>11
  <2> QED BY <2>1, <2>3
<1>12. HasEcho(out) => HasEcho(before)
  BY <1>4, <1>10 DEF HasEcho
<1>13. OneEcho(out)
  <2>1. \A i, k \in 1..Len(out) : out[i] = Echo /\ out[k] = Echo => i = k
    <3>1. \A i, k \in 1..Len(out) : i < k \/ k < i \/ i = k
      OBVIOUS
    <3> QED BY <3>1, <1>11
  <2>2. HasEcho(before) => mine # "none"
    BY DEF Shown, OneEcho
  <2> QED BY <2>1, <2>2, <1>12 DEF OneEcho
<1> QED BY <1>7, <1>8, <1>9, <1>13 DEF Shown, out

(* The row of the message in front of the wire, put into what is shown.    *)
LEMMA SaidFacts ==
  ASSUME SocketInv, 1 \in 1..Len(wire), IsUser(wire[1])
  PROVE  /\ Said \in Row /\ Said.seq = wire[1].n /\ Said.seq \in 1..Len(log) /\ Said.seq > 0
         /\ Said.seq \in Nat /\ Said.turn <= turn /\ Said # Echo /\ Saved(Said)
         /\ log[Said.seq] = [turn |-> Said.turn, by |-> Said.by]
<1>1. wire[1] \in Frame
  BY DEF SocketInv, TypeOK
<1>2. /\ wire[1].n \in 1..Len(log) /\ wire[1].n \in Nat /\ wire[1].n > 0
      /\ log[wire[1].n] = [turn |-> wire[1].turn, by |-> "user"]
      /\ wire[1].turn <= turn
  BY UserFrameFacts
<1>3. Said \in Row
  BY <1>1 DEF Frame, Row, Said
<1>4. Said.seq = wire[1].n /\ Said.turn = wire[1].turn /\ Said.by = "user"
  BY DEF Said
<1> QED BY <1>2, <1>3, <1>4, EchoIsARow DEF Saved, Transient

LEMMA ClaimShown ==
  ASSUME SocketInv, 1 \in 1..Len(wire), IsUser(wire[1]), Shown(cache), EchoIsLast
  PROVE  /\ Shown(Claim(cache, Said, wire[1].type = "mine"))
         /\ HasSeq(Claim(cache, Said, wire[1].type = "mine"), Said.seq)
         /\ \A n : n # 0 /\ HasSeq(cache, n) =>
                  HasSeq(Claim(cache, Said, wire[1].type = "mine"), n)
<1> DEFINE out == Claim(cache, Said, wire[1].type = "mine")
           own == wire[1].type = "mine"
<1>1. /\ cache \in Seq(Row) /\ Len(cache) \in Nat /\ Len(log) \in Nat
      /\ \A i \in 1..Len(cache) : cache[i].seq \in Nat
  BY RowFacts DEF SocketInv, TypeOK
<1>2. /\ Said \in Row /\ Said.seq = wire[1].n /\ Said.seq \in 1..Len(log) /\ Said.seq > 0
      /\ Said.seq \in Nat /\ Said.turn <= turn /\ Said # Echo /\ Saved(Said)
      /\ log[Said.seq] = [turn |-> Said.turn, by |-> Said.by]
  BY SaidFacts
<1>3. /\ out \in Seq(Row) /\ Len(out) \in Nat /\ Len(cache) \in Nat
      /\ \/ out = cache /\ HasSeq(cache, Said.seq)
         \/ /\ own /\ HasEcho(cache) /\ ~HasSeq(cache, Said.seq)
            /\ Len(out) = Len(cache)
            /\ \A i \in 1..Len(cache) :
                 /\ cache[i] = Echo => out[i] = Said
                 /\ cache[i] # Echo => out[i] = cache[i]
         \/ /\ ~own \/ ~HasEcho(cache)
            /\ ~HasSeq(cache, Said.seq)
            /\ IsAppend(out, cache, Said)
  BY <1>1, <1>2, ClaimCases
<1>4. \A i \in 1..Len(cache) :
        /\ cache[i].seq <= Len(log) /\ cache[i].turn <= turn
        /\ Saved(cache[i]) => log[cache[i].seq] = [turn |-> cache[i].turn, by |-> cache[i].by]
  BY DEF Shown, OfLog
<1>5. ASSUME ~HasSeq(cache, Said.seq)
      PROVE  \A i \in 1..Len(cache) : cache[i].seq < Said.seq
  <2> SUFFICES ASSUME NEW i \in 1..Len(cache) PROVE cache[i].seq < Said.seq
    OBVIOUS
  <2>1. cache[i].seq # Said.seq
    BY <1>5 DEF HasSeq
  <2>2. ~(cache[i].seq > wire[1].n)
    BY <1>2, <1>5 DEF Shown, Filled
  <2> QED BY <2>1, <2>2, <1>1, <1>2
<1>6. CASE out = cache /\ HasSeq(cache, Said.seq)
  BY <1>6
<1>7. CASE /\ own /\ HasEcho(cache) /\ ~HasSeq(cache, Said.seq)
           /\ Len(out) = Len(cache)
           /\ \A i \in 1..Len(cache) :
                /\ cache[i] = Echo => out[i] = Said
                /\ cache[i] # Echo => out[i] = cache[i]
  <2> HIDE DEF out, own
  <2>1. PICK e \in 1..Len(cache) : cache[e] = Echo
    BY <1>7 DEF HasEcho
  <2>2. out[e] = Said /\ \A i \in 1..Len(cache) : i # e => out[i] = cache[i] /\ cache[i] # Echo
    BY <2>1, <1>7 DEF Shown, OneEcho
  <2>3. \A k \in 1..Len(cache) : e < k => Transient(cache[k])
    BY <2>1, <1>7 DEF EchoIsLast, own
  <2>4. Ordered(out)
    <3> SUFFICES ASSUME NEW i \in 1..Len(out), NEW k \in 1..Len(out), i < k,
                        Saved(out[i]), Saved(out[k])
                 PROVE  out[i].seq < out[k].seq
      BY DEF Ordered
    <3>1. CASE i = e
      BY <3>1, <2>2, <2>3, <1>7 DEF Saved
    <3>2. CASE k = e
      BY <3>2, <2>2, <1>5, <1>7
    <3>3. CASE i # e /\ k # e
      BY <3>3, <2>2, <1>7 DEF Shown, Ordered
    <3> QED BY <3>1, <3>2, <3>3
  <2>5. OfLog(out)
    <3> SUFFICES ASSUME NEW i \in 1..Len(out)
                 PROVE  /\ out[i].seq <= Len(log) /\ out[i].turn <= turn
                        /\ Saved(out[i]) => log[out[i].seq] = [turn |-> out[i].turn, by |-> out[i].by]
      BY DEF OfLog
    <3> QED BY <2>2, <1>1, <1>2, <1>4, <1>7
  <2>6. HasSeq(out, Said.seq)
    BY <2>2, <1>7 DEF HasSeq
  <2>7. \A n : HasSeq(cache, n) => HasSeq(out, n) \/ n = 0
    BY <2>1, <2>2, <1>7, EchoIsARow DEF HasSeq
  <2>8. Filled(out)
    <3> SUFFICES ASSUME NEW k \in 1..Len(wire), IsUser(wire[k]), NEW i \in 1..Len(out),
                        out[i].seq > wire[k].n
                 PROVE  HasSeq(out, wire[k].n)
      BY DEF Filled
    <3>n. wire[k].n \in Nat /\ wire[k].n > 0
      BY UserFrameFacts
    <3>1. CASE k = 1
      BY <3>1, <2>6, <1>2
    <3>2. CASE k # 1
      <4>1. wire[1].n < wire[k].n
        BY <3>2 DEF SocketInv, WireInv, FramesInOrder
      <4>2. i # e
        BY <4>1, <2>2, <1>2, <3>n
      <4>3. HasSeq(cache, wire[k].n)
        BY <4>2, <2>2, <1>7 DEF Shown, Filled
      <4> QED BY <4>3, <2>7, <3>n
    <3> QED BY <3>1, <3>2
  <2>9. OneEcho(out)
    BY <2>2, <1>2, <1>7 DEF OneEcho, HasEcho
  <2>10. Shown(out) /\ HasSeq(out, Said.seq)
    BY <2>4, <2>5, <2>6, <2>8, <2>9 DEF Shown
  <2> QED BY <2>10, <2>7 DEF out
<1>8. CASE ~HasSeq(cache, Said.seq) /\ IsAppend(out, cache, Said)
  <2> HIDE DEF out, own
  <2> DEFINE e == Len(cache) + 1
  <2>1. /\ out[e] = Said /\ e \in 1..Len(out) /\ Len(out) = e
        /\ \A i \in 1..Len(cache) : out[i] = cache[i] /\ i \in 1..Len(out) /\ i < e
        /\ \A i \in 1..Len(out) : i \in 1..Len(cache) \/ i = e
    BY <1>1, <1>8 DEF IsAppend
  <2> HIDE DEF e
  <2>2. Ordered(out)
    <3> SUFFICES ASSUME NEW i \in 1..Len(out), NEW k \in 1..Len(out), i < k,
                        Saved(out[i]), Saved(out[k])
                 PROVE  out[i].seq < out[k].seq
      BY DEF Ordered
    <3>1. i # e
      BY <2>1, <1>3
    <3>2. CASE k = e
      BY <3>1, <3>2, <2>1, <1>5, <1>8
    <3>3. CASE k # e
      BY <3>1, <3>3, <2>1 DEF Shown, Ordered
    <3> QED BY <3>2, <3>3
  <2>3. OfLog(out)
    <3> SUFFICES ASSUME NEW i \in 1..Len(out)
                 PROVE  /\ out[i].seq <= Len(log) /\ out[i].turn <= turn
                        /\ Saved(out[i]) => log[out[i].seq] = [turn |-> out[i].turn, by |-> out[i].by]
      BY DEF OfLog
    <3>1. CASE i = e
      BY <3>1, <2>1, <1>1, <1>2
    <3>2. CASE i # e
      BY <3>2, <2>1, <1>4
    <3> QED BY <3>1, <3>2
  <2>4. HasSeq(out, Said.seq) /\ \A n : HasSeq(cache, n) => HasSeq(out, n)
    BY <2>1 DEF HasSeq
  <2>5. Filled(out)
    <3> SUFFICES ASSUME NEW k \in 1..Len(wire), IsUser(wire[k]), NEW i \in 1..Len(out),
                        out[i].seq > wire[k].n
                 PROVE  HasSeq(out, wire[k].n)
      BY DEF Filled
    <3>n. wire[k].n \in Nat /\ wire[k].n > 0
      BY UserFrameFacts
    <3>1. CASE k = 1
      BY <3>1, <2>4, <1>2
    <3>2. CASE k # 1
      <4>1. wire[1].n < wire[k].n
        BY <3>2 DEF SocketInv, WireInv, FramesInOrder
      <4>2. i # e
        BY <4>1, <2>1, <1>2, <3>n
      <4>3. HasSeq(cache, wire[k].n)
        BY <4>2, <2>1 DEF Shown, Filled
      <4> QED BY <4>3, <2>4
    <3> QED BY <3>1, <3>2
  <2>6. \A i \in 1..Len(out) : out[i] = Echo => i \in 1..Len(cache) /\ cache[i] = Echo
    BY <2>1, <1>2
  <2>7. OneEcho(out)
    BY <2>6 DEF Shown, OneEcho, HasEcho
  <2>8. Shown(out)
    BY <2>2, <2>3, <2>5, <2>7 DEF Shown
  <2> QED BY <2>8, <2>4 DEF out
<1> QED BY <1>3, <1>6, <1>7, <1>8
-----------------------------------------------------------------------------
(* What a step does to the surroundings of the rows.                       *)
Later ==
  /\ Extends
  /\ \A k \in 1..Len(wire') : IsUser(wire'[k]) =>
       \/ \E j \in 1..Len(wire) : wire'[k] = wire[j]
       \/ wire'[k].n > Len(log)
  /\ mine # "none" => mine' # "none"

LEMMA LaterStep ==
  ASSUME SocketInv, [Next]_vars
  PROVE  Later
<1>1. /\ TypeOK /\ LogInv /\ WireInv /\ MineInv /\ wire \in Seq(Frame) /\ Len(wire) \in Nat
      /\ Len(log) \in Nat
  BY DEF SocketInv, TypeOK
<1>2. Extends
  BY <1>1, LogStep
<1>3. mine # "none" => mine' # "none"
  BY <1>1, WireSteps
<1>4. \A k \in 1..Len(wire') : IsUser(wire'[k]) =>
        \/ \E j \in 1..Len(wire) : wire'[k] = wire[j]
        \/ wire'[k].n > Len(log)
  <2>1. CASE wire' = wire
    BY <2>1
  <2>2. ASSUME NEW f, wire' = Append(wire, f), NewFrame(f)
        PROVE  \A k \in 1..Len(wire') : IsUser(wire'[k]) =>
                 \/ \E j \in 1..Len(wire) : wire'[k] = wire[j]
                 \/ wire'[k].n > Len(log)
    <3>1. f \in Frame /\ (IsUser(f) => f.n = Len(log) + 1)
      BY <2>2 DEF NewFrame
    <3>2. IsAppend(wire', wire, f)
      BY <1>1, <2>2, <3>1, Appended
    <3>3. \A k \in 1..Len(wire') : wire'[k] = f \/ \E j \in 1..Len(wire) : wire'[k] = wire[j]
      BY <3>2 DEF IsAppend
    <3>4. IsUser(f) => f.n > Len(log)
      BY <3>1, <1>1
    <3> QED BY <3>3, <3>4
  <2>3. CASE wire # <<>> /\ wire' = Tail(wire)
    <3>1. IsTail(wire', wire)
      BY <1>1, <2>3, Tailed
    <3> QED BY <3>1 DEF IsTail
  <2>4. CASE wire' = <<>>
    BY <2>4
  <2> QED BY <2>1, <2>2, <2>3, <2>4, <1>1, WireSteps
<1> QED BY <1>2, <1>3, <1>4 DEF Later

(* What is shown of the log stays shown when the log grows.                *)
LEMMA ShownLater ==
  ASSUME SocketInv, SocketInv', Later, NEW rows \in Seq(Row), Shown(rows)
  PROVE  Shown(rows)'
<1>1. /\ Len(rows) \in Nat /\ Len(log) \in Nat /\ turn \in Nat
      /\ Len(log') \in Nat /\ turn' \in Nat
      /\ \A i \in 1..Len(rows) : rows[i].seq \in Nat /\ rows[i].turn \in Nat
  <2>1. TypeOK /\ TypeOK' /\ MaxTurns \in Nat
    BY TranscriptAssumption DEF SocketInv
  <2>2. Len(log) \in Nat /\ turn \in Nat
    BY <2>1 DEF TypeOK
  <2>3. Len(log') \in Nat /\ turn' \in Nat
    BY <2>1 DEF TypeOK
  <2> QED BY <2>2, <2>3, RowFacts
<1>2. Ordered(rows)'
  BY DEF Shown, Ordered
<1>o. Len(log) <= Len(log') /\ turn <= turn' /\ \A i \in 1..Len(log) : log'[i] = log[i]
  BY DEF Later, Extends
<1>3. OfLog(rows)'
  <2> SUFFICES ASSUME NEW i \in 1..Len(rows)
               PROVE  /\ rows[i].seq <= Len(log') /\ rows[i].turn <= turn'
                      /\ Saved(rows[i]) =>
                           log'[rows[i].seq] = [turn |-> rows[i].turn, by |-> rows[i].by]
    BY DEF OfLog, Saved, Transient
  <2>1. /\ rows[i].seq <= Len(log) /\ rows[i].turn <= turn
        /\ Saved(rows[i]) => log[rows[i].seq] = [turn |-> rows[i].turn, by |-> rows[i].by]
    BY DEF Shown, OfLog
  <2>2. rows[i].seq <= Len(log') /\ rows[i].turn <= turn'
    BY <2>1, <1>1, <1>o
  <2>3. Saved(rows[i]) => rows[i].seq \in 1..Len(log)
    BY <2>1, <1>1 DEF Saved, Transient
  <2> QED BY <2>1, <2>2, <2>3, <1>o
<1>4. Filled(rows)'
  <2> SUFFICES ASSUME NEW k \in 1..Len(wire'), IsUser(wire'[k]), NEW i \in 1..Len(rows),
                      rows[i].seq > wire'[k].n
               PROVE  HasSeq(rows, wire'[k].n)
    BY DEF Filled, HasSeq, IsUser
  <2>1. rows[i].seq <= Len(log)
    BY DEF Shown, OfLog
  <2>2. wire'[k].n \in Nat
    <3>1. wire' \in Seq(Frame)
      BY DEF SocketInv, TypeOK
    <3>2. wire'[k] \in Frame
      BY <3>1
    <3> QED BY <3>2 DEF Frame
  <2>3. PICK j \in 1..Len(wire) : wire'[k] = wire[j]
    BY <2>1, <2>2, <1>1 DEF Later
  <2> QED BY <2>3 DEF Shown, Filled
<1>5. OneEcho(rows)'
  BY DEF Shown, OneEcho, HasEcho, Later, Echo
<1> QED BY <1>2, <1>3, <1>4, <1>5 DEF Shown

(* Where the rows of the cache, and those put aside, come from.            *)
LEMMA CacheSteps ==
  ASSUME TypeOK, [Next]_vars
  PROVE  \/ cache' = cache
         \/ SendMessage /\ cache' = Append(cache, Echo)
         \/ LoadEnds /\ cache' = Compose(RowsOf(load.reply), load.before, lamp)
         \/ UserMessage /\ cache' = Claim(cache, Said, wire[1].type = "mine")
         \/ StreamEvent /\ cache' = Chunk(cache, wire[1].turn, wire[1].n)
         \/ StreamReset /\ cache' = Chunks(Persisted(cache), wire[1].turn, wire[1].n)
         \/ SessionDone /\ cache' = Persisted(cache)
<1> USE DEF server, socket, count, vars
<1>1. CASE SendMessage
  BY <1>1 DEF SendMessage
<1>2. CASE LoadEnds
  BY <1>2 DEF LoadEnds
<1>3. CASE UserMessage
  BY <1>3 DEF UserMessage, Said
<1>4. CASE StreamEvent
  BY <1>4 DEF StreamEvent
<1>5. CASE StreamReset
  BY <1>5 DEF StreamReset
<1>6. CASE SessionDone
  BY <1>6 DEF SessionDone
<1>7. CASE StartTurn \/ BroadcastSessionStream \/ SaveAnswer \/ BroadcastSessionDone
  BY <1>7 DEF StartTurn, BroadcastSessionStream, SaveAnswer, BroadcastSessionDone
<1>8. CASE ClearSessionPending \/ HandleSessionReady \/ Open \/ Leave \/ ReadLog \/ LoadFails
  BY <1>8 DEF ClearSessionPending, HandleSessionReady, Open, Leave, ReadLog, LoadFails
<1>9. CASE ReuseExpires \/ Drop \/ Reconnect \/ PollReads \/ PollAnswers \/ UNCHANGED vars
  BY <1>9 DEF ReuseExpires, Drop, Reconnect, PollReads, PollAnswers
<1> QED BY Steps, <1>1, <1>2, <1>3, <1>4, <1>5, <1>6, <1>7, <1>8, <1>9

LEMMA BeforeSteps ==
  ASSUME TypeOK, [Next]_vars
  PROVE  load'.before \in {load.before, cache, <<>>}
<1>1. load \in [at : {"none", "asked", "answered"}, before : Seq(Row),
                reply : Seq(Entry), reused : BOOLEAN, current : BOOLEAN]
  BY DEF TypeOK
<1> USE DEF server, socket, count, vars
<1>2. CASE StartTurn \/ ReadLog
  BY <1>1, <1>2 DEF StartTurn, ReadLog
<1>3. CASE LoadEnds \/ LoadFails
  BY <1>3 DEF LoadEnds, LoadFails, NoLoad
<1>4. CASE Open \/ Reconnect
  BY <1>4 DEF Open, Reconnect, Restore
<1>5. CASE SessionDone
  BY <1>5 DEF SessionDone, Restore
<1>6. CASE BroadcastSessionStream \/ SaveAnswer \/ BroadcastSessionDone \/ ClearSessionPending
  BY <1>6 DEF BroadcastSessionStream, SaveAnswer, BroadcastSessionDone, ClearSessionPending
<1>7. CASE HandleSessionReady \/ SendMessage \/ Leave \/ PollReads \/ PollAnswers
  BY <1>7 DEF HandleSessionReady, SendMessage, Leave, PollReads, PollAnswers
<1>8. CASE UserMessage \/ StreamEvent \/ StreamReset
  BY <1>8 DEF UserMessage, StreamEvent, StreamReset
<1>9. CASE Drop \/ ReuseExpires \/ UNCHANGED vars
  BY <1>9 DEF Drop, ReuseExpires
<1> QED BY Steps, <1>2, <1>3, <1>4, <1>5, <1>6, <1>7, <1>8, <1>9

(* The echo goes to the end of rows that have none.                        *)
LEMMA EchoShown ==
  ASSUME SocketInv, NEW rows \in Seq(Row), Shown(rows), mine = "none"
  PROVE  LET out == Append(rows, Echo)
         IN  /\ out \in Seq(Row) /\ Ordered(out) /\ OfLog(out) /\ Filled(out)
             /\ \A i, k \in 1..Len(out) : out[i] = Echo /\ out[k] = Echo => i = k
             /\ \A i, k \in 1..Len(out) : i < k => out[i] # Echo
<1> DEFINE out == Append(rows, Echo)
           e == Len(rows) + 1
<1>1. out \in Seq(Row) /\ IsAppend(out, rows, Echo) /\ Len(rows) \in Nat /\ Len(log) \in Nat
      /\ turn \in Nat
  BY EchoIsARow, Appended, TranscriptAssumption DEF SocketInv, TypeOK
<1> HIDE DEF out
<1>2. /\ out[e] = Echo /\ Len(out) = e /\ e \in Nat
      /\ \A i \in 1..Len(rows) : out[i] = rows[i] /\ i \in 1..Len(out) /\ i < e
      /\ \A i \in 1..Len(out) : i \in 1..Len(rows) \/ i = e
  BY <1>1 DEF IsAppend
<1> HIDE DEF e
<1>3. Echo.seq = 0 /\ Echo.turn = 0 /\ Transient(Echo)
  BY EchoIsARow DEF Transient
<1>4. \A i \in 1..Len(rows) : rows[i] # Echo
  BY DEF Shown, OneEcho, HasEcho
<1>5. Ordered(out)
  <2> SUFFICES ASSUME NEW i \in 1..Len(out), NEW k \in 1..Len(out), i < k,
                      Saved(out[i]), Saved(out[k])
               PROVE  out[i].seq < out[k].seq
    BY DEF Ordered
  <2>1. i \in 1..Len(rows) /\ k \in 1..Len(rows)
    BY <1>2, <1>3 DEF Saved
  <2> QED BY <2>1, <1>2 DEF Shown, Ordered
<1>6. OfLog(out)
  <2> SUFFICES ASSUME NEW i \in 1..Len(out)
               PROVE  /\ out[i].seq <= Len(log) /\ out[i].turn <= turn
                      /\ Saved(out[i]) => log[out[i].seq] = [turn |-> out[i].turn, by |-> out[i].by]
    BY DEF OfLog
  <2>1. CASE i \in 1..Len(rows)
    BY <2>1, <1>2 DEF Shown, OfLog
  <2>2. CASE i = e
    BY <2>2, <1>1, <1>2, <1>3 DEF Saved
  <2> QED BY <2>1, <2>2, <1>2
<1>7. Filled(out)
  <2> SUFFICES ASSUME NEW k \in 1..Len(wire), IsUser(wire[k]), NEW i \in 1..Len(out),
                      out[i].seq > wire[k].n
               PROVE  HasSeq(out, wire[k].n)
    BY DEF Filled
  <2>1. wire[k].n \in Nat /\ wire[k].n > 0
    BY UserFrameFacts
  <2>2. i \in 1..Len(rows)
    BY <2>1, <1>2, <1>3
  <2>3. HasSeq(rows, wire[k].n)
    BY <2>2, <1>2 DEF Shown, Filled
  <2> QED BY <2>3, <1>2 DEF HasSeq
<1>8. \A i, k \in 1..Len(out) : out[i] = Echo /\ out[k] = Echo => i = k
  BY <1>2, <1>4
<1>9. \A i, k \in 1..Len(out) : i < k => out[i] # Echo
  <2>1. \A i, k \in 1..Len(out) : i < k => i \in 1..Len(rows)
    BY <1>2
  <2> QED BY <2>1, <1>2, <1>4
<1> QED BY <1>1, <1>5, <1>6, <1>7, <1>8, <1>9 DEF out

(* An arrived frame is the first one under way.                            *)
LEMMA FirstFrames ==
  ASSUME SocketInv
  PROVE  /\ UserMessage => 1 \in 1..Len(wire) /\ IsUser(wire[1])
         /\ StreamEvent => 1 \in 1..Len(wire) /\ wire[1].type = "chunk"
         /\ StreamReset => 1 \in 1..Len(wire) /\ wire[1].type = "reset"
         /\ SessionDone => 1 \in 1..Len(wire) /\ wire[1].type = "done"
         /\ \A k \in 1..Len(wire) : wire[k].turn \in Nat /\ wire[k].n \in Nat
                                    /\ wire[k].turn <= turn
<1>1. TypeOK
  BY DEF SocketInv
<1>2. UserMessage => 1 \in 1..Len(wire) /\ IsUser(wire[1])
  BY <1>1, FirstFrame DEF UserMessage, IsTail, IsUser
<1>3. StreamEvent => 1 \in 1..Len(wire) /\ wire[1].type = "chunk"
  BY <1>1, FirstFrame DEF StreamEvent, IsTail
<1>4. StreamReset => 1 \in 1..Len(wire) /\ wire[1].type = "reset"
  BY <1>1, FirstFrame DEF StreamReset, IsTail
<1>5. SessionDone => 1 \in 1..Len(wire) /\ wire[1].type = "done"
  BY <1>1, FirstFrame DEF SessionDone, IsTail
<1>6. \A k \in 1..Len(wire) : wire[k] \in Frame
  BY <1>1 DEF TypeOK
<1>7. \A k \in 1..Len(wire) : wire[k].turn <= turn
  BY DEF SocketInv, WireInv, FramesOfLog
<1> QED BY <1>2, <1>3, <1>4, <1>5, <1>6, <1>7 DEF Frame

LEMMA ResetRows ==
  ASSUME SocketInv, Shown(cache), NEW t \in Nat, t <= turn, NEW n \in Nat
  PROVE  LET out == Chunks(Persisted(cache), t, n)
         IN  out \in Seq(Row) /\ Shown(out) /\ ~HasEcho(out)
<1> DEFINE rows == Persisted(cache)
           out == Chunks(rows, t, n)
<1>1. rows \in Seq(Row) /\ Shown(rows) /\ ~HasEcho(rows)
  BY PersistedShown, PersistedShape DEF SocketInv, TypeOK
<1> HIDE DEF rows
<1>2. Grown(rows, out, t)
  BY <1>1, ChunksGrow
<1> HIDE DEF out
<1>3. Shown(out)
  BY <1>1, <1>2, GrownShown
<1>4. out \in Seq(Row) /\ ~HasEcho(out)
  <2>1. /\ out \in Seq(Row) /\ Len(rows) \in Nat /\ Len(out) \in Nat
        /\ \A i \in 1..Len(rows) : rows[i].by = "user" => out[i] = rows[i]
        /\ \A i \in 1..Len(rows) : out[i].by = rows[i].by
        /\ \A i \in 1..Len(out) : i > Len(rows) => out[i].by = "agent"
    BY <1>1, <1>2 DEF Grown
  <2>2. \A i \in 1..Len(out) : out[i] = Echo => i \in 1..Len(rows) /\ rows[i] = Echo
    BY <2>1, EchoIsARow
  <2> QED BY <2>1, <2>2, <1>1 DEF HasEcho
<1> QED BY <1>3, <1>4 DEF out, rows

LEMMA CacheShown ==
  ASSUME RowsInv, [Next]_vars
  PROVE  Shown(cache)'
<1>1. /\ SocketInv /\ SocketInv' /\ Later /\ Shown(cache) /\ Shown(load.before) /\ EchoIsLast
      /\ TypeOK
  BY SocketStep, LaterStep DEF RowsInv, SocketInv
<1>2. /\ cache \in Seq(Row) /\ load.before \in Seq(Row) /\ load.reply \in Seq(Entry)
      /\ lamp \in BOOLEAN /\ Prefix(load.reply)
  BY <1>1, LoadType DEF SocketInv, TypeOK
<1>3. PICK x : x = cache'
  OBVIOUS
<1>4. x \in Seq(Row)
  BY <1>1, <1>3 DEF SocketInv, TypeOK
<1>5. CASE SendMessage /\ x = Append(cache, Echo)
  <2>1. mine = "none" /\ mine' = "sent" /\ wire' = <<>> /\ UNCHANGED <<log, turn>>
    BY <1>5 DEF SendMessage, server, socket
  <2>2. /\ Ordered(x) /\ OfLog(x)
        /\ \A i, k \in 1..Len(x) : x[i] = Echo /\ x[k] = Echo => i = k
    BY <2>1, <1>1, <1>2, <1>5, EchoShown
  <2>3. Ordered(cache)' /\ OfLog(cache)'
    BY <2>1, <2>2, <1>3 DEF Ordered, OfLog
  <2>4. Filled(cache)'
    BY <2>1 DEF Filled
  <2>5. OneEcho(cache)'
    BY <2>1, <2>2, <1>3 DEF OneEcho
  <2> QED BY <2>3, <2>4, <2>5 DEF Shown
<1>6. CASE Shown(x)
  <2>1. Shown(x)'
    BY <1>1, <1>4, <1>6, ShownLater
  <2> QED BY <2>1, <1>3 DEF Shown, Ordered, OfLog, Filled, OneEcho, HasEcho, HasSeq
<1>7. CASE x = cache
  BY <1>1, <1>6, <1>7
<1>8. CASE x = Compose(RowsOf(load.reply), load.before, lamp)
  BY <1>1, <1>2, <1>6, <1>8, ComposeShown
<1>9. CASE UserMessage /\ x = Claim(cache, Said, wire[1].type = "mine")
  BY <1>1, <1>6, <1>9, FirstFrames, ClaimShown
<1>10. CASE StreamEvent /\ x = Chunk(cache, wire[1].turn, wire[1].n)
  <2>1. wire[1].turn \in Nat /\ wire[1].n \in Nat /\ wire[1].turn <= turn
    BY <1>1, <1>10, FirstFrames
  <2>2. Grown(cache, x, wire[1].turn)
    BY <2>1, <1>2, <1>10, ChunkGrows
  <2>3. Shown(x)
    BY <2>1, <2>2, <1>1, <1>2, GrownShown
  <2> QED BY <2>3, <1>6
<1>11. CASE StreamReset /\ x = Chunks(Persisted(cache), wire[1].turn, wire[1].n)
  <2>1. wire[1].turn \in Nat /\ wire[1].n \in Nat /\ wire[1].turn <= turn
    BY <1>1, <1>11, FirstFrames
  <2>2. Shown(x)
    BY <2>1, <1>1, <1>11, ResetRows
  <2> QED BY <2>2, <1>6
<1>12. CASE x = Persisted(cache)
  BY <1>1, <1>2, <1>6, <1>12, PersistedShown
<1> QED BY <1>1, <1>3, <1>5, <1>7, <1>8, <1>9, <1>10, <1>11, <1>12, CacheSteps

LEMMA BeforeShown ==
  ASSUME RowsInv, [Next]_vars
  PROVE  Shown(load.before)'
<1>1. /\ SocketInv /\ SocketInv' /\ Later /\ Shown(cache) /\ Shown(load.before) /\ TypeOK
  BY SocketStep, LaterStep DEF RowsInv, SocketInv
<1>2. Shown(<<>>)
  BY DEF Shown, Ordered, OfLog, Filled, OneEcho, HasEcho
<1>3. PICK x : x = load'.before
  OBVIOUS
<1>4. Shown(x) /\ x \in Seq(Row)
  BY <1>1, <1>2, <1>3, BeforeSteps, LoadType DEF SocketInv, TypeOK
<1>5. Shown(x)'
  BY <1>1, <1>4, ShownLater
<1> QED BY <1>5, <1>3 DEF Shown, Ordered, OfLog, Filled, OneEcho, HasEcho, HasSeq

LEMMA MineSteps ==
  ASSUME [Next]_vars
  PROVE  \/ mine' = mine
         \/ SendMessage /\ mine = "none" /\ mine' = "sent"
         \/ StartTurn /\ mine = "sent" /\ mine' = "started"
<1> USE DEF server, socket, count, vars
<1>1. CASE SendMessage
  BY <1>1 DEF SendMessage
<1>2. CASE StartTurn
  BY <1>2 DEF StartTurn
<1>3. CASE BroadcastSessionStream \/ SaveAnswer \/ BroadcastSessionDone \/ ClearSessionPending
  BY <1>3 DEF BroadcastSessionStream, SaveAnswer, BroadcastSessionDone, ClearSessionPending
<1>4. CASE HandleSessionReady \/ Open \/ Leave \/ ReadLog \/ LoadEnds \/ LoadFails \/ ReuseExpires
  BY <1>4 DEF HandleSessionReady, Open, Leave, ReadLog, LoadEnds, LoadFails, ReuseExpires
<1>5. CASE UserMessage \/ StreamEvent \/ StreamReset
  BY <1>5 DEF UserMessage, StreamEvent, StreamReset
<1>6. CASE SessionDone \/ Drop \/ Reconnect \/ PollReads \/ PollAnswers \/ UNCHANGED vars
  BY <1>6 DEF SessionDone, Drop, Reconnect, PollReads, PollAnswers
<1> QED BY Steps, <1>1, <1>2, <1>3, <1>4, <1>5, <1>6

(* The message written here is on its way to a turn or back from it.       *)
Waits == mine = "sent" \/ \E k \in 1..Len(wire) : wire[k].type = "mine"

LEMMA WaitsStep ==
  ASSUME SocketInv, [Next]_vars, Waits'
  PROVE  Waits \/ (SendMessage /\ mine = "none")
<1>1. /\ TypeOK /\ LogInv /\ WireInv /\ MineInv /\ wire \in Seq(Frame) /\ Len(wire) \in Nat
  BY DEF SocketInv, TypeOK
<1>2. CASE mine' = "sent"
  BY <1>2, MineSteps DEF Waits
<1>3. ASSUME NEW k \in 1..Len(wire'), wire'[k].type = "mine"
      PROVE  Waits
  <2>1. CASE wire' = wire
    BY <2>1, <1>3 DEF Waits
  <2>2. ASSUME NEW f, wire' = Append(wire, f), NewFrame(f)
        PROVE  Waits
    <3>1. f \in Frame /\ (f.type = "mine" => mine = "sent")
      BY <2>2 DEF NewFrame
    <3>2. IsAppend(wire', wire, f)
      BY <1>1, <2>2, <3>1, Appended
    <3>3. wire'[k] = f \/ \E j \in 1..Len(wire) : wire'[k] = wire[j]
      BY <3>2 DEF IsAppend
    <3> QED BY <3>1, <3>3, <1>3 DEF Waits
  <2>3. CASE wire # <<>> /\ wire' = Tail(wire)
    <3>1. IsTail(wire', wire)
      BY <1>1, <2>3, Tailed
    <3>2. k + 1 \in 1..Len(wire) /\ wire[k + 1].type = "mine"
      BY <3>1, <1>3 DEF IsTail
    <3> QED BY <3>2 DEF Waits
  <2>4. CASE wire' = <<>>
    BY <2>4, <1>3
  <2> QED BY <2>1, <2>2, <2>3, <2>4, <1>1, WireSteps
<1> QED BY <1>2, <1>3 DEF Waits

(* Only a reset arrives before it.                                         *)
LEMMA OnlyResets ==
  ASSUME SocketInv, wire # <<>>, wire' = Tail(wire), mine' = mine, wire[1].type # "reset"
  PROVE  ~Waits'
<1>1. /\ wire \in Seq(Frame) /\ MineInv
  BY DEF SocketInv, TypeOK
<1>2. IsTail(wire', wire)
  BY <1>1, Tailed
<1>3. mine' # "sent"
  BY <1>1, <1>2 DEF MineInv, IsTail
<1>4. ASSUME NEW k \in 1..Len(wire'), wire'[k].type = "mine"
      PROVE  FALSE
  <2>1. k \in Nat /\ k >= 1 /\ k + 1 \in 1..Len(wire) /\ wire[k + 1].type = "mine"
    BY <1>2, <1>4 DEF IsTail
  <2>2. 1 \in 1..(k + 1 - 1)
    BY <2>1
  <2> QED BY <2>1, <2>2, <1>1 DEF MineInv
<1> QED BY <1>3, <1>4 DEF Waits

LEMMA EchoLastStep ==
  ASSUME RowsInv, [Next]_vars
  PROVE  EchoIsLast'
<1>1. /\ SocketInv /\ Shown(cache) /\ Shown(load.before) /\ EchoIsLast /\ TypeOK /\ SocketInv'
      /\ cache \in Seq(Row) /\ load.before \in Seq(Row) /\ load.reply \in Seq(Entry)
      /\ lamp \in BOOLEAN /\ cache' \in Seq(Row)
  <2>1. SocketInv /\ Shown(cache) /\ Shown(load.before) /\ EchoIsLast /\ TypeOK /\ SocketInv'
    BY SocketStep DEF RowsInv, SocketInv
  <2>2. cache' \in Seq(Row)
    BY <2>1 DEF SocketInv, TypeOK
  <2> QED BY <2>1, <2>2, LoadType DEF TypeOK
<1>2. SUFFICES ASSUME Waits', NEW i \in 1..Len(cache'), NEW k \in 1..Len(cache'), i < k,
                      cache'[i] = Echo
               PROVE  Transient(cache'[k])
  BY DEF EchoIsLast, Waits, Transient
<1>3. Waits \/ (SendMessage /\ mine = "none")
  BY <1>1, <1>2, WaitsStep
<1>4. CASE cache' = cache
  <2>1. mine = "none" => ~HasEcho(cache)
    BY <1>1 DEF Shown, OneEcho
  <2>2. mine # "none"
    BY <2>1, <1>2, <1>4 DEF HasEcho
  <2>3. Waits
    BY <2>2, <1>3
  <2> QED BY <2>3, <1>1, <1>2, <1>4 DEF EchoIsLast, Waits
<1>5. CASE SendMessage /\ cache' = Append(cache, Echo)
  <2>1. mine = "none"
    BY <1>5 DEF SendMessage
  <2>2. \A a, b \in 1..Len(Append(cache, Echo)) : a < b => Append(cache, Echo)[a] # Echo
    BY <2>1, <1>1, EchoShown
  <2> QED BY <2>2, <1>2, <1>5
<1>6. CASE cache' = Compose(RowsOf(load.reply), load.before, lamp)
  <2> DEFINE L == Len(load.reply)
  <2>1. Composed(cache', load.reply, load.before)
    BY <1>1, <1>6, ComposeShape
  <2>2. /\ L \in Nat
        /\ \A a \in 1..L : cache'[a] = RowsOf(load.reply)[a]
        /\ \A a, b \in 1..Len(cache') : L < a /\ a < b =>
             \/ cache'[a].seq > L
             \/ cache'[a].seq = 0 => cache'[b].seq = 0
    BY <1>1, <2>1 DEF Composed
  <2>3. \A a \in 1..L : cache'[a].seq = a
    <3> SUFFICES ASSUME NEW a \in 1..L PROVE cache'[a].seq = a
      OBVIOUS
    <3>1. RowsOf(load.reply)[a] = [seq |-> a, turn |-> load.reply[a].turn, by |-> load.reply[a].by,
                                   text |-> <<>>]
      BY <1>1, RowsOfType
    <3> QED BY <3>1, <2>2
  <2> HIDE DEF L
  <2>4. ~(i \in 1..L)
    <3>1. i \in 1..L => cache'[i].seq = i /\ i # 0
      BY <2>2, <2>3
    <3> QED BY <3>1, <1>2, EchoIsARow
  <2>5. L < i
    BY <2>2, <2>4
  <2>6. cache'[i].seq = 0
    BY <1>2, EchoIsARow
  <2>7. \/ cache'[i].seq > L
        \/ cache'[i].seq = 0 => cache'[k].seq = 0
    BY <2>2, <2>5, <1>2
  <2> QED BY <2>2, <2>6, <2>7 DEF Transient
<1>7. CASE UserMessage \/ StreamEvent
  <2>1. wire # <<>> /\ wire' = Tail(wire) /\ mine' = mine /\ wire[1].type # "reset"
    BY <1>7 DEF UserMessage, StreamEvent, Arrives
  <2> QED BY <2>1, <1>1, <1>2, OnlyResets
<1>8. CASE StreamReset /\ cache' = Chunks(Persisted(cache), wire[1].turn, wire[1].n)
  <2>1. wire[1].turn \in Nat /\ wire[1].n \in Nat /\ wire[1].turn <= turn
    BY <1>1, <1>8, FirstFrames
  <2>2. ~HasEcho(Chunks(Persisted(cache), wire[1].turn, wire[1].n))
    BY <2>1, <1>1, ResetRows
  <2> QED BY <2>2, <1>2, <1>8 DEF HasEcho
<1>9. CASE cache' = Persisted(cache)
  <2>1. ~HasEcho(Persisted(cache))
    BY <1>1, PersistedShown
  <2> QED BY <2>1, <1>2, <1>9 DEF HasEcho
<1> QED BY <1>1, <1>4, <1>5, <1>6, <1>7, <1>8, <1>9, CacheSteps

LEMMA RowsInit ==
  ASSUME Init
  PROVE  RowsInv
<1>1. SocketInv
  BY SocketInit
<1>2. cache = <<>> /\ load.before = <<>>
  BY DEF Init, NoLoad
<1> QED BY <1>1, <1>2 DEF RowsInv, Shown, Ordered, OfLog, Filled, OneEcho, HasEcho, EchoIsLast

LEMMA RowsStep ==
  ASSUME RowsInv, [Next]_vars
  PROVE  RowsInv'
<1>1. SocketInv'
  BY SocketStep DEF RowsInv
<1> QED BY <1>1, CacheShown, BeforeShown, EchoLastStep DEF RowsInv

LEMMA RowsFollow ==
  ASSUME RowsInv
  PROVE  RowsInOrder
<1>1. cache \in Seq(Row) /\ Ordered(cache)
  BY DEF RowsInv, SocketInv, TypeOK, Shown
<1> DEFINE out == Persisted(cache)
<1>2. /\ \A i \in 1..Len(out) : Saved(out[i])
      /\ \A i, k \in 1..Len(out) : i < k =>
           \E p, q \in 1..Len(cache) : /\ p < q /\ out[i] = cache[p] /\ out[k] = cache[q]
  BY <1>1, PersistedShape
<1> HIDE DEF out
<1>3. ASSUME NEW i \in 1..Len(out), NEW k \in 1..Len(out), i < k
      PROVE  out[i].seq < out[k].seq
  <2>1. PICK p, q \in 1..Len(cache) : p < q /\ out[i] = cache[p] /\ out[k] = cache[q]
    BY <1>2, <1>3
  <2>2. Saved(cache[p]) /\ Saved(cache[q])
    BY <2>1, <1>2
  <2> QED BY <2>1, <2>2, <1>1 DEF Ordered
<1> QED BY <1>3 DEF RowsInOrder, out

(* Rows of the log are shown once each and in the order of the log,        *)
(* however loads, broadcasts and resets overlap (RowsInOrder).             *)
THEOREM RowsInOrderCorrect == Spec => []RowsInOrder
<1>1. Init => RowsInv
  BY RowsInit
<1>2. RowsInv /\ [Next]_vars => RowsInv'
  BY RowsStep
<1>3. RowsInv => RowsInOrder
  BY RowsFollow
<1> QED BY <1>1, <1>2, <1>3, PTL DEF Spec
-----------------------------------------------------------------------------
(* The echo.                                                               *)
LEMMA FramesAppended ==
  ASSUME TypeOK, NEW f \in Frame, wire' = wire \/ wire' = Append(wire, f)
  PROVE  /\ \A k \in 1..Len(wire) : wire'[k] = wire[k] /\ k \in 1..Len(wire')
         /\ ResetComes => ResetComes'
         /\ wire' = Append(wire, f) => IsAppend(wire', wire, f)
<1>1. wire \in Seq(Frame)
  BY DEF TypeOK
<1>2. wire' = Append(wire, f) => IsAppend(wire', wire, f)
  BY <1>1, Appended
<1>3. \A k \in 1..Len(wire) : wire'[k] = wire[k] /\ k \in 1..Len(wire')
  BY <1>2 DEF IsAppend
<1> QED BY <1>2, <1>3 DEF ResetComes

LEMMA FramesTaken ==
  ASSUME TypeOK, wire # <<>>, wire' = Tail(wire)
  PROVE  /\ IsTail(wire', wire)
         /\ wire[1].type # "reset" /\ ResetComes => ResetComes'
<1>1. IsTail(wire', wire)
  BY Tailed DEF TypeOK
<1> QED BY <1>1 DEF IsTail, ResetComes

LEMMA GrownEcho ==
  ASSUME NEW rows \in Seq(Row), NEW out, NEW t, Grown(rows, out, t), HasEcho(out)
  PROVE  HasEcho(rows)
<1>1. PICK i \in 1..Len(out) : out[i] = Echo
  BY DEF HasEcho
<1>2. Len(rows) \in Nat /\ Len(out) \in Nat
  BY DEF Grown
<1>3. i \in 1..Len(rows)
  BY <1>1, <1>2, EchoIsARow DEF Grown
<1>4. rows[i].by = "user" /\ out[i] = rows[i]
  BY <1>1, <1>3, EchoIsARow DEF Grown
<1> QED BY <1>1, <1>3, <1>4 DEF HasEcho

(* A frame other than a reset leaves what makes an echo go.                *)
LEMMA EchoAtArrival ==
  ASSUME SocketInv, EchoGoes, wire # <<>>, wire' = Tail(wire), wire[1].type # "reset",
         mine' = mine, bound' = bound, readies' = readies,
         HasEcho(cache),
         wire[1].type = "mine" => HasSeq(cache, wire[1].n)
  PROVE  mine = "started" /\ bound => readies > 0 \/ ResetComes'
<1>1. TypeOK /\ MineInv
  BY DEF SocketInv
<1>2. SUFFICES ASSUME mine = "started", bound PROVE readies > 0 \/ ResetComes'
  OBVIOUS
<1>3. readies > 0 \/ ResetComes \/ ClaimComes
  BY <1>2 DEF EchoGoes
<1>4. ~ClaimComes
  <2> SUFFICES ASSUME NEW k \in 1..Len(wire), wire[k].type = "mine", ~HasSeq(cache, wire[k].n)
               PROVE  FALSE
    BY DEF ClaimComes
  <2>1. k # 1
    OBVIOUS
  <2>2. 1 \in 1..(k - 1)
    BY <2>1
  <2> QED BY <2>2, <1>1 DEF MineInv
<1> QED BY <1>1, <1>3, <1>4, FramesTaken

LEMMA EchoStep ==
  ASSUME RowsInv, EchoGoes, [Next]_vars
  PROVE  EchoGoes'
<1>1. /\ SocketInv /\ TypeOK /\ Shown(cache) /\ SocketInv' /\ cache \in Seq(Row)
      /\ readies \in Nat /\ Len(log) \in Nat /\ Linked /\ bound \in BOOLEAN /\ LogInv /\ link \in BOOLEAN
  BY SocketStep DEF RowsInv, SocketInv, TypeOK, WireInv
<1>2. SUFFICES ASSUME mine' = "started", bound', HasEcho(cache)'
               PROVE  readies' > 0 \/ ResetComes' \/ ClaimComes'
  BY DEF EchoGoes
<1> USE DEF server, socket, count
<1>3. ASSUME NEW f \in Frame, wire' = wire \/ wire' = Append(wire, f),
             cache' = cache, mine' = mine, bound' = bound, readies' = readies
      PROVE  readies' > 0 \/ ResetComes' \/ ClaimComes'
  <2>1. HasEcho(cache)
    BY <1>2, <1>3 DEF HasEcho
  <2>2. readies > 0 \/ ResetComes \/ ClaimComes
    BY <1>2, <1>3, <2>1 DEF EchoGoes
  <2>3. \A k \in 1..Len(wire) : wire'[k] = wire[k] /\ k \in 1..Len(wire')
    BY <1>1, <1>3, FramesAppended
  <2>4. ClaimComes => ClaimComes'
    BY <2>3, <1>3 DEF ClaimComes, HasSeq
  <2> QED BY <1>1, <1>3, <2>2, <2>4, FramesAppended
<1>4. CASE StartTurn
  <2> DEFINE f == [type |-> IF mine = "sent" THEN "mine" ELSE "user",
                   turn |-> turn + 1, n |-> Len(log) + 1]
  <2>1. f \in Frame /\ cache' = cache /\ readies' = readies
        /\ (wire' = wire \/ wire' = Append(wire, f))
    BY <1>1, <1>4, ServerFrames DEF StartTurn
  <2>2. CASE mine = "sent"
    <3>1. wire' = Append(wire, f)
      BY <1>2, <1>4, <2>2 DEF StartTurn
    <3>2. f.type = "mine" /\ f.n = Len(log) + 1
      BY <2>2
    <3> HIDE DEF f
    <3>3. IsAppend(wire', wire, f)
      BY <1>1, <2>1, <3>1, FramesAppended
    <3>4. ~HasSeq(cache, Len(log) + 1)
      <4>1. \A i \in 1..Len(cache) : cache[i].seq <= Len(log) /\ cache[i].seq \in Nat
        BY <1>1, RowFacts DEF Shown, OfLog
      <4> QED BY <4>1, <1>1 DEF HasSeq
    <3>5. ClaimComes'
      BY <2>1, <3>2, <3>3, <3>4 DEF ClaimComes, IsAppend, HasSeq
    <3> QED BY <3>5
  <2>3. CASE mine # "sent"
    <3>1. mine' = mine /\ bound' = bound
      BY <1>1, <1>4, <2>3 DEF StartTurn
    <3> HIDE DEF f
    <3> QED BY <2>1, <3>1, <1>3
  <2> QED BY <2>2, <2>3
<1>5. CASE BroadcastSessionStream
  <2>1. /\ wire' = wire \/ wire' = Append(wire, [type |-> "chunk", turn |-> turn, n |-> sent + 1])
        /\ UNCHANGED <<cache, mine, bound, readies>>
    BY <1>5 DEF BroadcastSessionStream, Send
  <2> QED BY <2>1, <1>1, <1>3, ServerFrames
<1>6. CASE BroadcastSessionDone
  <2>1. /\ wire' = wire \/ wire' = Append(wire, [type |-> "done", turn |-> turn, n |-> 0])
        /\ UNCHANGED <<cache, mine, bound, readies>>
    BY <1>6 DEF BroadcastSessionDone, Send
  <2> QED BY <2>1, <1>1, <1>3, ServerFrames
<1>7. CASE HandleSessionReady
  <2> DEFINE f == [type |-> "reset", turn |-> turn, n |-> sent]
  <2>1. wire' = Append(wire, f) /\ f \in Frame /\ f.type = "reset"
    BY <1>1, <1>7, ServerFrames DEF HandleSessionReady
  <2> HIDE DEF f
  <2>2. IsAppend(wire', wire, f)
    BY <2>1, <1>1, FramesAppended
  <2>3. ResetComes'
    BY <2>1, <2>2 DEF ResetComes, IsAppend
  <2> QED BY <2>3
<1>8. CASE LoadEnds
  BY <1>1, <1>2, <1>8 DEF LoadEnds, Linked
<1>9. ASSUME UNCHANGED <<wire, cache, mine, bound, readies>>
      PROVE  readies' > 0 \/ ResetComes' \/ ClaimComes'
  BY <1>1, <1>3, <1>9, ServerFrames
<1>10. CASE SaveAnswer \/ ClearSessionPending \/ PollReads \/ PollAnswers
  BY <1>9, <1>10 DEF SaveAnswer, ClearSessionPending, PollReads, PollAnswers
<1>11. CASE Open \/ Leave \/ ReadLog \/ LoadFails \/ ReuseExpires
  BY <1>9, <1>11 DEF Open, Leave, ReadLog, LoadFails, ReuseExpires
<1>12. CASE SendMessage \/ Drop
  BY <1>2, <1>12 DEF SendMessage, Drop
<1>13. CASE Reconnect \/ UNCHANGED vars
  BY <1>9, <1>13 DEF Reconnect, vars
<1>14. CASE UserMessage
  <2>1. /\ wire # <<>> /\ wire' = Tail(wire) /\ wire[1].type # "reset"
        /\ mine' = mine /\ bound' = bound /\ readies' = readies
        /\ cache' = Claim(cache, Said, wire[1].type = "mine")
    BY <1>14 DEF UserMessage, Arrives, Said
  <2>2. Said \in Row /\ Said.seq = wire[1].n /\ Said # Echo
    BY <1>1, <1>14, FirstFrames, SaidFacts
  <2>3. /\ \/ cache' = cache /\ HasSeq(cache, Said.seq)
           \/ /\ HasEcho(cache) /\ ~HasSeq(cache, Said.seq)
              /\ Len(cache') = Len(cache)
              /\ \A i \in 1..Len(cache) :
                   /\ cache[i] = Echo => cache'[i] = Said
                   /\ cache[i] # Echo => cache'[i] = cache[i]
           \/ /\ ~(wire[1].type = "mine") \/ ~HasEcho(cache)
              /\ IsAppend(cache', cache, Said)
    BY <1>1, <2>1, <2>2, ClaimCases
  <2>4. CASE /\ Len(cache') = Len(cache)
             /\ \A i \in 1..Len(cache) :
                  /\ cache[i] = Echo => cache'[i] = Said
                  /\ cache[i] # Echo => cache'[i] = cache[i]
    <3>1. \A i \in 1..Len(cache') : cache'[i] # Echo
      BY <2>2, <2>4
    <3> QED BY <3>1, <1>2 DEF HasEcho
  <2>5. CASE cache' = cache /\ HasSeq(cache, Said.seq)
    BY <2>1, <2>2, <2>5, <1>1, <1>2, EchoAtArrival DEF HasEcho
  <2>6. CASE /\ ~(wire[1].type = "mine") \/ ~HasEcho(cache)
             /\ IsAppend(cache', cache, Said)
    <3>1. HasEcho(cache)
      BY <2>2, <2>6, <1>2 DEF HasEcho, IsAppend
    <3> QED BY <3>1, <2>1, <2>6, <1>1, <1>2, EchoAtArrival
  <2> QED BY <2>3, <2>4, <2>5, <2>6
<1>15. CASE StreamEvent
  <2>1. /\ wire # <<>> /\ wire' = Tail(wire) /\ wire[1].type = "chunk"
        /\ mine' = mine /\ bound' = bound /\ readies' = readies
        /\ cache' = Chunk(cache, wire[1].turn, wire[1].n)
    BY <1>15 DEF StreamEvent, Arrives
  <2>2. wire[1].turn \in Nat /\ wire[1].n \in Nat
    BY <1>1, <1>15, FirstFrames
  <2> DEFINE out == Chunk(cache, wire[1].turn, wire[1].n)
  <2>3. Grown(cache, out, wire[1].turn)
    BY <1>1, <2>2, ChunkGrows
  <2>4. HasEcho(cache)
    <3>1. HasEcho(out)
      BY <2>1, <1>2 DEF HasEcho
    <3> HIDE DEF out
    <3> QED BY <1>1, <2>3, <3>1, GrownEcho
  <2> QED BY <2>1, <2>4, <1>1, <1>2, EchoAtArrival
<1>16. CASE StreamReset
  <2>1. wire[1].turn \in Nat /\ wire[1].n \in Nat /\ wire[1].turn <= turn
    BY <1>1, <1>16, FirstFrames
  <2>2. ~HasEcho(Chunks(Persisted(cache), wire[1].turn, wire[1].n))
    BY <2>1, <1>1, ResetRows
  <2>3. cache' = Chunks(Persisted(cache), wire[1].turn, wire[1].n)
    BY <1>16 DEF StreamReset
  <2> QED BY <2>2, <2>3, <1>2 DEF HasEcho
<1>17. CASE SessionDone
  <2>1. /\ wire # <<>> /\ wire' = Tail(wire) /\ wire[1].type = "done"
        /\ mine' = mine /\ bound' = bound /\ readies' = readies
        /\ cache' = cache \/ cache' = Persisted(cache)
    BY <1>17 DEF SessionDone, Arrives
  <2>2. ~HasEcho(Persisted(cache))
    BY <1>1, PersistedShown
  <2>3. HasEcho(cache)
    BY <2>1, <2>2, <1>2 DEF HasEcho
  <2> QED BY <2>1, <2>3, <1>1, <1>2, EchoAtArrival
<1> QED BY Steps, <1>4, <1>5, <1>6, <1>7, <1>8, <1>10, <1>11, <1>12, <1>13, <1>14, <1>15,
           <1>16, <1>17

(* The echo of the message written here gives way to its row: once the     *)
(* turn has started and nothing is under way the message is not shown      *)
(* twice (EchoRetires).                                                    *)
THEOREM EchoRetiresCorrect == Spec => []EchoRetires
<1> DEFINE Inv == RowsInv /\ EchoGoes
<1>1. Init => Inv
  <2>1. Init => EchoGoes
    BY DEF Init, EchoGoes
  <2> QED BY <2>1, RowsInit
<1>2. Inv /\ [Next]_vars => Inv'
  BY RowsStep, EchoStep
<1>3. Inv => EchoRetires
  BY DEF EchoGoes, EchoRetires, Quiet, HasEcho, ResetComes, ClaimComes
<1> HIDE DEF Inv
<1> QED BY <1>1, <1>2, <1>3, PTL DEF Spec
-----------------------------------------------------------------------------
(* Caught up.                                                              *)
(* Rising numbers that fill an interval are the interval.                  *)
Fills(s, m, n) ==
  /\ \A i \in 1..m : s[i] \in 1..n
  /\ \A i, k \in 1..m : i < k => s[i] < s[k]
  /\ \A j \in 1..n : \E i \in 1..m : s[i] = j

LEMMA Dense ==
  ASSUME NEW m \in Nat, NEW n \in Nat, NEW s, Fills(s, m, n)
  PROVE  m = n /\ \A i \in 1..m : s[i] = i
<1>0. /\ \A i \in 1..m : s[i] \in 1..n
      /\ \A i, k \in 1..m : i < k => s[i] < s[k]
      /\ \A j \in 1..n : \E i \in 1..m : s[i] = j
  BY DEF Fills
<1> DEFINE S == {i \in Nat : i \in 1..m => s[i] = i}
<1>1. 0 \in S
  OBVIOUS
<1>2. ASSUME NEW i \in Nat, i \in S
      PROVE  i + 1 \in S
  <2> SUFFICES ASSUME i + 1 \in 1..m PROVE s[i + 1] = i + 1
    OBVIOUS
  <2>1. s[i + 1] \in 1..n
    BY <1>0
  <2>2. i # 0 => i \in 1..m /\ s[i] = i /\ s[i] < s[i + 1]
    BY <1>0, <1>2
  <2>3. s[i + 1] >= i + 1
    BY <2>1, <2>2
  <2>4. ASSUME s[i + 1] > i + 1
        PROVE  FALSE
    <3>1. i + 1 \in 1..n
      BY <2>1, <2>4
    <3>2. PICK k \in 1..m : s[k] = i + 1
      BY <1>0, <3>1
    <3>3. ~(k > i + 1) /\ k # i + 1
      BY <1>0, <2>1, <2>4, <3>2
    <3>4. k <= i /\ i # 0
      BY <3>3
    <3>5. CASE k = i
      BY <3>2, <3>4, <3>5, <2>2
    <3>6. CASE k < i
      <4>1. s[k] < s[i]
        BY <1>0, <3>4, <3>6, <2>2
      <4> QED BY <4>1, <3>2, <3>4, <2>2
    <3> QED BY <3>4, <3>5, <3>6
  <2> QED BY <2>1, <2>3, <2>4
<1> HIDE DEF S
<1>3. Nat \subseteq S
  BY <1>1, <1>2, Induction
<1>4. \A i \in 1..m : s[i] = i
  BY <1>3 DEF S
<1>5. m <= n
  <2>1. m # 0 => m \in 1..m
    OBVIOUS
  <2>2. m # 0 => m \in 1..n
    BY <1>0, <2>1, <1>4
  <2> QED BY <2>2
<1>6. n <= m
  <2>1. n # 0 => n \in 1..n
    OBVIOUS
  <2>2. n # 0 => \E i \in 1..m : i = n
    BY <1>0, <2>1, <1>4
  <2> QED BY <2>2
<1> QED BY <1>4, <1>5, <1>6

(* All the rows of the log and no others.                                  *)
LEMMA AllRows ==
  ASSUME RowsInv, AllSaved, Complete(cache)
  PROVE  Len(cache) = Len(log) /\ \A i \in 1..Len(cache) : cache[i].seq = i
<1>1. /\ cache \in Seq(Row) /\ Len(log) \in Nat /\ Ordered(cache) /\ OfLog(cache)
      /\ Len(cache) \in Nat /\ \A i \in 1..Len(cache) : cache[i].seq \in Nat
  BY RowFacts DEF RowsInv, SocketInv, TypeOK, Shown
<1> DEFINE s == [i \in 1..Len(cache) |-> cache[i].seq]
<1>2. \A i \in 1..Len(cache) : s[i] = cache[i].seq
  OBVIOUS
<1> HIDE DEF s
<1>3. \A i \in 1..Len(cache) : s[i] \in 1..Len(log)
  <2>1. \A i \in 1..Len(cache) : cache[i].seq # 0
    BY DEF AllSaved, Saved, Transient
  <2>2. \A i \in 1..Len(cache) : cache[i].seq <= Len(log)
    BY <1>1 DEF OfLog
  <2> QED BY <2>1, <2>2, <1>1, <1>2
<1>4. \A i, k \in 1..Len(cache) : i < k => s[i] < s[k]
  BY <1>1, <1>2 DEF Ordered, AllSaved
<1>5. \A n \in 1..Len(log) : \E i \in 1..Len(cache) : s[i] = n
  BY <1>2 DEF Complete, HasSeq
<1>6. Len(cache) = Len(log) /\ \A i \in 1..Len(cache) : s[i] = i
  <2>1. Len(cache) \in Nat /\ Len(log) \in Nat
    BY <1>1
  <2>2. Fills(s, Len(cache), Len(log))
    BY <1>3, <1>4, <1>5 DEF Fills
  <2> QED BY <2>1, <2>2, Dense
<1> QED BY <1>2, <1>6

LEMMA NoChunks ==
  ASSUME NEW rows, NEW t
  PROVE  Chunks(rows, t, 0) = rows
BY ChunksLemma DEF OneByOne

(* The flags and the reply of a load.                                      *)
LEMMA IdleStep ==
  ASSUME TypeOK, OnlyIdle, ReplyIsAll, [Next]_vars
  PROVE  OnlyIdle' /\ ReplyIsAll'
<1>1. /\ load \in [at : {"none", "asked", "answered"}, before : Seq(Row),
                   reply : Seq(Entry), reused : BOOLEAN, current : BOOLEAN]
      /\ current \in BOOLEAN /\ kept.on \in BOOLEAN
  BY DEF TypeOK
<1> USE DEF server, socket, count, vars, OnlyIdle, ReplyIsAll
<1>2. CASE StartTurn
  BY <1>1, <1>2 DEF StartTurn
<1>3. CASE ReadLog
  BY <1>1, <1>3 DEF ReadLog
<1>4. CASE LoadEnds
  BY <1>1, <1>4 DEF LoadEnds, NoLoad
<1>5. CASE LoadFails
  BY <1>1, <1>5 DEF LoadFails, NoLoad
<1>6. ASSUME Restore, UNCHANGED <<phase, current, log>>
      PROVE  OnlyIdle' /\ ReplyIsAll'
  BY <1>1, <1>6 DEF Restore
<1>7. ASSUME UNCHANGED <<phase, current, log, load>>
      PROVE  OnlyIdle' /\ ReplyIsAll'
  BY <1>7
<1>8. CASE Open
  BY <1>6, <1>8 DEF Open
<1>9. CASE Reconnect
  BY <1>6, <1>7, <1>9 DEF Reconnect
<1>10. CASE SessionDone
  BY <1>6, <1>7, <1>10 DEF SessionDone
<1>11. CASE BroadcastSessionStream \/ SaveAnswer \/ BroadcastSessionDone \/ ClearSessionPending
  BY <1>1, <1>11 DEF BroadcastSessionStream, SaveAnswer, BroadcastSessionDone, ClearSessionPending
<1>12. CASE HandleSessionReady \/ SendMessage \/ Leave \/ ReuseExpires
  BY <1>7, <1>12 DEF HandleSessionReady, SendMessage, Leave, ReuseExpires
<1>13. CASE UserMessage \/ StreamEvent \/ StreamReset
  BY <1>7, <1>13 DEF UserMessage, StreamEvent, StreamReset
<1>14. CASE Drop \/ PollReads \/ PollAnswers \/ UNCHANGED vars
  BY <1>7, <1>14 DEF Drop, PollReads, PollAnswers
<1> QED BY Steps, <1>2, <1>3, <1>4, <1>5, <1>8, <1>9, <1>10, <1>11, <1>12, <1>13, <1>14

(* What a step does to the rows put aside and to the flag of the client.   *)
AsideKept == load.at # "none" /\ load'.before = load.before
LoadChange ==
  /\ load'.at = "none" \/ AsideKept \/ load'.before = cache
  /\ current' => current \/ (LoadEnds /\ load.current)

LEMMA LoadSteps ==
  ASSUME TypeOK, [Next]_vars
  PROVE  LoadChange
<1>1. /\ load \in [at : {"none", "asked", "answered"}, before : Seq(Row),
                   reply : Seq(Entry), reused : BOOLEAN, current : BOOLEAN]
      /\ current \in BOOLEAN
  BY DEF TypeOK
<1> USE DEF server, socket, count, vars
<1>2. CASE StartTurn
  <2>1. current' = FALSE /\ load' = [load EXCEPT !.current = FALSE]
    BY <1>2 DEF StartTurn
  <2>2. load'.at = load.at /\ load'.before = load.before
    BY <2>1, <1>1
  <2> QED BY <2>1, <2>2 DEF LoadChange, AsideKept
<1>3. CASE ReadLog
  <2>1. current' = current /\ load.at = "asked"
        /\ load' = [load EXCEPT !.at = "answered", !.reply = log]
    BY <1>3 DEF ReadLog
  <2>2. load'.before = load.before
    BY <2>1, <1>1
  <2> QED BY <2>1, <2>2 DEF LoadChange, AsideKept
<1>4. CASE LoadEnds
  <2>1. current' = (current \/ load.current) /\ load'.at = "none"
    BY <1>4 DEF LoadEnds, NoLoad
  <2> QED BY <2>1, <1>4, <1>1 DEF LoadChange
<1>5. CASE LoadFails
  BY <1>1, <1>5 DEF LoadFails, NoLoad, LoadChange
<1>6. ASSUME Restore, current' = current
      PROVE  LoadChange
  <2>1. load' = load \/ load'.before = cache
    BY <1>6 DEF Restore
  <2>2. load' = load => load'.at = "none" \/ AsideKept
    BY DEF AsideKept
  <2> QED BY <2>1, <2>2, <1>6 DEF LoadChange
<1>7. ASSUME current' = current, load' = load
      PROVE  LoadChange
  BY <1>7 DEF LoadChange, AsideKept
<1>8. CASE Open
  BY <1>6, <1>8 DEF Open
<1>9. CASE Reconnect
  BY <1>6, <1>7, <1>9 DEF Reconnect
<1>10. CASE SessionDone
  BY <1>6, <1>7, <1>10 DEF SessionDone
<1>11. CASE BroadcastSessionStream \/ SaveAnswer \/ BroadcastSessionDone \/ ClearSessionPending
  BY <1>7, <1>11 DEF BroadcastSessionStream, SaveAnswer, BroadcastSessionDone, ClearSessionPending
<1>12. CASE HandleSessionReady \/ SendMessage \/ Leave \/ ReuseExpires
  BY <1>7, <1>12 DEF HandleSessionReady, SendMessage, Leave, ReuseExpires
<1>13. CASE UserMessage \/ StreamEvent \/ StreamReset
  BY <1>7, <1>13 DEF UserMessage, StreamEvent, StreamReset
<1>14. CASE Drop \/ PollReads \/ PollAnswers \/ UNCHANGED vars
  BY <1>7, <1>14 DEF Drop, PollReads, PollAnswers
<1> QED BY Steps, <1>2, <1>3, <1>4, <1>5, <1>8, <1>9, <1>10, <1>11, <1>12, <1>13, <1>14

(* No row of the log goes.                                                 *)
KeepsSeqs(rows, out) == \A n \in Nat : n # 0 /\ HasSeq(rows, n) => HasSeq(out, n)

LEMMA SeqsKept ==
  ASSUME NEW rows, NEW out, KeepsSeqs(rows, out), Complete(rows), Len(log) \in Nat
  PROVE  Complete(out)
BY DEF Complete, KeepsSeqs

LEMMA GrownSeqs ==
  ASSUME NEW rows \in Seq(Row), NEW out, NEW t, Grown(rows, out, t)
  PROVE  KeepsSeqs(rows, out)
<1> SUFFICES ASSUME NEW n \in Nat, HasSeq(rows, n) PROVE HasSeq(out, n)
  BY DEF KeepsSeqs
<1>1. PICK i \in 1..Len(rows) : rows[i].seq = n
  BY DEF HasSeq
<1>2. Len(rows) \in Nat /\ Len(out) \in Nat /\ Len(rows) <= Len(out) /\ out[i].seq = n
  BY <1>1 DEF Grown
<1> QED BY <1>1, <1>2 DEF HasSeq

LEMMA PersistedComplete ==
  ASSUME NEW rows \in Seq(Row), Complete(rows)
  PROVE  Complete(Persisted(rows))
<1> DEFINE out == Persisted(rows)
<1>1. \A p \in 1..Len(rows) : Saved(rows[p]) => \E i \in 1..Len(out) : out[i] = rows[p]
  BY PersistedShape
<1> HIDE DEF out
<1>2. ASSUME NEW n \in 1..Len(log) PROVE HasSeq(out, n)
  <2>1. PICK p \in 1..Len(rows) : rows[p].seq = n
    BY DEF Complete, HasSeq
  <2>2. Saved(rows[p])
    BY <2>1 DEF Saved, Transient
  <2>3. PICK i \in 1..Len(out) : out[i] = rows[p]
    BY <1>1, <2>2
  <2> QED BY <2>1, <2>3 DEF HasSeq
<1> QED BY <1>2 DEF Complete, out

LEMMA ComposeComplete ==
  ASSUME NEW reply \in Seq(Entry), NEW before \in Seq(Row), NEW inFlight \in BOOLEAN,
         Len(reply) = Len(log) \/ Complete(before)
  PROVE  Complete(Compose(RowsOf(reply), before, inFlight))
<1> DEFINE out == Compose(RowsOf(reply), before, inFlight)
           L == Len(reply)
<1>1. Composed(out, reply, before)
  BY ComposeShape
<1> HIDE DEF out
<1>2. /\ L \in Nat /\ Len(out) \in Nat /\ L <= Len(out)
      /\ \A i \in 1..L : out[i] = RowsOf(reply)[i]
      /\ \A p \in 1..Len(before) : before[p].seq > L => \E i \in 1..Len(out) : out[i] = before[p]
  BY <1>1 DEF Composed
<1>3. ASSUME NEW n \in 1..Len(log) PROVE HasSeq(out, n)
  <2>1. CASE n \in 1..L
    <3>1. RowsOf(reply)[n] = [seq |-> n, turn |-> reply[n].turn, by |-> reply[n].by,
                              text |-> <<>>]
      BY <2>1, RowsOfType
    <3>2. out[n].seq = n /\ n \in 1..Len(out)
      BY <2>1, <3>1, <1>2
    <3> QED BY <3>2 DEF HasSeq
  <2>2. CASE ~(n \in 1..L)
    <3>1. n > L /\ Len(reply) # Len(log)
      BY <2>2, <1>2
    <3>2. PICK p \in 1..Len(before) : before[p].seq = n
      BY <3>1 DEF Complete, HasSeq
    <3>3. PICK i \in 1..Len(out) : out[i] = before[p]
      BY <3>1, <3>2, <1>2
    <3> QED BY <3>2, <3>3 DEF HasSeq
  <2> QED BY <2>1, <2>2
<1> QED BY <1>3 DEF Complete, out

LEMMA LogKept ==
  ASSUME TypeOK, LogInv, OnlyIdle', current', [Next]_vars
  PROVE  log' = log /\ phase' = "idle"
<1>1. phase' = "idle"
  BY DEF OnlyIdle
<1>2. ~StartTurn /\ ~BroadcastSessionStream /\ ~SaveAnswer /\ ~BroadcastSessionDone
  BY <1>1 DEF StartTurn, BroadcastSessionStream, SaveAnswer, BroadcastSessionDone
<1>3. ClearSessionPending => log' = log
  BY DEF ClearSessionPending
<1> QED BY <1>1, <1>2, <1>3, ServerOrNot

LEMMA ShowsStep ==
  ASSUME RowsInv, CurrentInv, [Next]_vars
  PROVE  ShowsAll'
<1>1. /\ SocketInv /\ TypeOK /\ LogInv /\ Shown(cache) /\ EchoIsLast /\ OnlyIdle'
      /\ OnlyIdle /\ ReplyIsAll /\ ShowsAll
  BY IdleStep DEF RowsInv, SocketInv, CurrentInv
<1>2. /\ cache \in Seq(Row) /\ load.before \in Seq(Row) /\ load.reply \in Seq(Entry)
      /\ lamp \in BOOLEAN
  BY <1>1, LoadType DEF TypeOK
<1>3. SUFFICES ASSUME current'
               PROVE  Complete(cache)' /\ (load'.at # "none" => Complete(load.before)')
  BY DEF ShowsAll
<1>4. log' = log
  BY <1>1, <1>3, LogKept
<1>5. current \/ (LoadEnds /\ load.current)
  BY <1>1, <1>3, LoadSteps DEF LoadChange
<1>6. PICK x : x = cache'
  OBVIOUS
<1>7. SUFFICES Complete(x) /\ (load'.at # "none" => Complete(load'.before))
  BY <1>4, <1>6 DEF Complete, HasSeq
<1>8. load'.at # "none" => Complete(load'.before)
  <2> SUFFICES ASSUME load'.at # "none" PROVE Complete(load'.before)
    OBVIOUS
  <2>1. current
    BY <1>5 DEF LoadEnds, NoLoad
  <2>2. Complete(cache) /\ (load.at # "none" => Complete(load.before))
    BY <2>1, <1>1 DEF ShowsAll
  <2>3. AsideKept \/ load'.before = cache
    BY <1>1, LoadSteps DEF LoadChange
  <2> QED BY <2>2, <2>3 DEF AsideKept
<1>a. SUFFICES Complete(x)
  BY <1>8
<1>9. CASE LoadEnds /\ x = Compose(RowsOf(load.reply), load.before, lamp)
  <2>1. load.at = "answered"
    BY <1>9 DEF LoadEnds
  <2>2. Len(load.reply) = Len(log) \/ Complete(load.before)
    BY <2>1, <1>1, <1>5 DEF ShowsAll, ReplyIsAll
  <2> QED BY <2>2, <1>2, <1>8, <1>9, ComposeComplete
<1>10. CASE ~LoadEnds
  <2>1. Complete(cache)
    BY <1>1, <1>5, <1>10 DEF ShowsAll
  <2>2. Len(log) \in Nat /\ (KeepsSeqs(cache, x) => Complete(x))
    <3>1. Len(log) \in Nat
      BY <1>1 DEF TypeOK
    <3> QED BY <2>1, <3>1, SeqsKept
  <2>3. CASE x = cache
    BY <2>1, <2>3
  <2>4. CASE x = Append(cache, Echo)
    <3>1. IsAppend(x, cache, Echo)
      BY <2>4, <1>2, EchoIsARow, Appended
    <3>2. KeepsSeqs(cache, x)
      BY <3>1 DEF IsAppend, HasSeq, KeepsSeqs
    <3> QED BY <3>2, <2>2
  <2>5. CASE UserMessage /\ x = Claim(cache, Said, wire[1].type = "mine")
    <3>1. KeepsSeqs(cache, x)
      BY <2>5, <1>1, FirstFrames, ClaimShown DEF KeepsSeqs
    <3> QED BY <3>1, <2>2
  <2>6. CASE StreamEvent /\ x = Chunk(cache, wire[1].turn, wire[1].n)
    <3>1. wire[1].turn \in Nat /\ wire[1].n \in Nat
      BY <2>6, <1>1, FirstFrames
    <3>2. Grown(cache, x, wire[1].turn)
      BY <3>1, <2>6, <1>2, ChunkGrows
    <3>3. KeepsSeqs(cache, x)
      BY <3>2, <1>2, GrownSeqs
    <3> QED BY <3>3, <2>2
  <2>7. CASE StreamReset /\ x = Chunks(Persisted(cache), wire[1].turn, wire[1].n)
    <3> DEFINE rows == Persisted(cache)
    <3>1. wire[1].turn \in Nat /\ wire[1].n \in Nat
      BY <2>7, <1>1, FirstFrames
    <3>2. rows \in Seq(Row) /\ Complete(rows)
      BY <2>1, <1>2, PersistedShape, PersistedComplete
    <3>3. x = Chunks(rows, wire[1].turn, wire[1].n)
      BY <2>7
    <3> HIDE DEF rows
    <3>4. Grown(rows, x, wire[1].turn)
      BY <3>1, <3>2, <3>3, ChunksGrow
    <3>5. KeepsSeqs(rows, x)
      BY <3>2, <3>4, GrownSeqs
    <3> QED BY <3>2, <3>5, <2>2, SeqsKept
  <2>8. CASE x = Persisted(cache)
    BY <2>1, <2>8, <1>2, PersistedComplete
  <2>9. Complete(x)
    BY <1>1, <1>6, <1>10, <2>3, <2>4, <2>5, <2>6, <2>7, <2>8, CacheSteps
  <2> QED BY <2>9, <1>8
<1>11. LoadEnds => x = Compose(RowsOf(load.reply), load.before, lamp)
  BY <1>6 DEF LoadEnds
<1> QED BY <1>9, <1>10, <1>11
(* Frames that come or go, and what will clean the cache.                  *)
LEMMA CleanTaken ==
  ASSUME TypeOK, wire # <<>>, wire' = Tail(wire), CleanAfter(0)
  PROVE  CleanAfter(0)' /\ ~Dirty(wire[1])
<1>1. IsTail(wire', wire) /\ Len(wire) \in Nat
  BY Tailed DEF TypeOK
<1>2. \A i \in 1..Len(wire) : ~Dirty(wire[i])
  BY DEF CleanAfter
<1>3. \A i \in 1..Len(wire') : ~Dirty(wire'[i])
  BY <1>1, <1>2 DEF IsTail
<1>4. \A i \in (0 + 1)..Len(wire') : ~Dirty(wire'[i])
  BY <1>3
<1> QED BY <1>1, <1>2, <1>4 DEF CleanAfter, Dirty, IsTail

LEMMA CleansTaken ==
  ASSUME TypeOK, wire # <<>>, wire' = Tail(wire), Cleans
  PROVE  Cleans' \/ (CleanAfter(0) /\ wire[1].type = "reset")
<1>1. IsTail(wire', wire) /\ Len(wire) \in Nat /\ Len(wire') \in Nat
  BY Tailed DEF TypeOK
<1>2. PICK j \in 1..Len(wire) : wire[j].type = "reset" /\ CleanAfter(j - 1)
  BY DEF Cleans
<1>3. CASE j = 1
  BY <1>2, <1>3
<1>4. CASE j # 1
  <2>1. j - 1 \in 1..Len(wire') /\ wire'[j - 1] = wire[j]
    BY <1>1, <1>4 DEF IsTail
  <2>2. ASSUME NEW i \in (j - 1)..Len(wire')
        PROVE  ~Dirty(wire'[i])
    <3>1. i \in 1..Len(wire') /\ i + 1 \in (j - 1 + 1)..Len(wire)
      BY <2>1, <1>1 DEF IsTail
    <3>2. wire'[i] = wire[i + 1]
      BY <3>1, <1>1 DEF IsTail
    <3>3. ~Dirty(wire[i + 1])
      BY <3>1, <1>2 DEF CleanAfter
    <3> QED BY <3>2, <3>3
  <2>3. \A i \in (j - 1 - 1 + 1)..Len(wire') : ~Dirty(wire'[i])
    <3>1. j - 1 - 1 + 1 = j - 1
      OBVIOUS
    <3>2. \A i \in (j - 1)..Len(wire') : ~Dirty(wire'[i])
      BY <2>2
    <3> QED BY <3>1, <3>2
  <2>4. CleanAfter(j - 1 - 1)'
    BY <2>3 DEF CleanAfter, Dirty
  <2> QED BY <1>2, <2>1, <2>4 DEF Cleans
<1> QED BY <1>3, <1>4

LEMMA CleansSent ==
  ASSUME TypeOK, NEW f \in Frame, wire' = Append(wire, f), f.type = "reset", f.n = 0
  PROVE  Cleans'
<1>1. IsAppend(wire', wire, f) /\ Len(wire) \in Nat
  BY Appended DEF TypeOK
<1>j. PICK j : j = Len(wire) + 1
  OBVIOUS
<1>2. j \in 1..Len(wire') /\ wire'[j] = f /\ Len(wire') = j /\ j \in Nat
  BY <1>1, <1>j DEF IsAppend
<1>3. \A i \in (j - 1 + 1)..Len(wire') : i = j
  BY <1>2
<1>4. \A i \in (j - 1 + 1)..Len(wire') : ~Dirty(wire'[i])
  BY <1>2, <1>3 DEF Dirty
<1>5. CleanAfter(j - 1)'
  BY <1>4 DEF CleanAfter, Dirty
<1> QED BY <1>2, <1>5 DEF Cleans

LEMMA AllClaimed ==
  ASSUME SocketInv, 1 \in 1..Len(wire), IsUser(wire[1]), AllSaved,
         cache' = Claim(cache, Said, wire[1].type = "mine")
  PROVE  AllSaved'
<1>1. Said \in Row /\ Saved(Said) /\ cache \in Seq(Row)
  BY SaidFacts DEF SocketInv, TypeOK
<1>2. /\ Len(cache') \in Nat /\ Len(cache) \in Nat
      /\ \/ cache' = cache
         \/ /\ Len(cache') = Len(cache)
            /\ \A i \in 1..Len(cache) : /\ cache[i] = Echo => cache'[i] = Said
                                        /\ cache[i] # Echo => cache'[i] = cache[i]
         \/ IsAppend(cache', cache, Said)
  BY <1>1, ClaimCases
<1>3. \A i \in 1..Len(cache) : Saved(cache[i])
  BY DEF AllSaved
<1>4. \A i \in 1..Len(cache') : Saved(cache'[i])
  <2>1. CASE cache' = cache
    BY <1>3, <2>1
  <2>2. CASE /\ Len(cache') = Len(cache)
             /\ \A i \in 1..Len(cache) : /\ cache[i] = Echo => cache'[i] = Said
                                         /\ cache[i] # Echo => cache'[i] = cache[i]
    BY <1>1, <1>3, <2>2
  <2>3. CASE IsAppend(cache', cache, Said)
    BY <1>1, <1>3, <2>3 DEF IsAppend
  <2> QED BY <1>2, <2>1, <2>2, <2>3
<1> QED BY <1>4 DEF AllSaved, Saved, Transient

LEMMA AllPersisted ==
  ASSUME cache \in Seq(Row), cache' = Persisted(cache)
  PROVE  AllSaved'
<1>1. \A i \in 1..Len(cache') : Saved(cache'[i])
  BY PersistedShape
<1> QED BY <1>1 DEF AllSaved, Saved, Transient

(* A load that began after the turn was over asks for the reset that takes *)
(* the tail away.                                                          *)
LEMMA TailGoesStep ==
  ASSUME RowsInv, CurrentInv, [Next]_vars
  PROVE  TailGoes'
<1>1. /\ SocketInv /\ TypeOK /\ LogInv /\ Linked /\ OnlyIdle /\ OnlyIdle' /\ TailGoes
      /\ cache \in Seq(Row) /\ readies \in Nat /\ Len(log) \in Nat /\ link \in BOOLEAN
  BY IdleStep DEF RowsInv, SocketInv, WireInv, CurrentInv, TypeOK
<1> DEFINE Goal == readies' > 0 \/ Cleans' \/ (AllSaved' /\ CleanAfter(0)')
<1>2. SUFFICES ASSUME current', bound', mine' # "sent"
               PROVE  Goal
  BY DEF TailGoes
<1>3. phase' = "idle"
  BY <1>1, <1>2, LogKept
<1>4. LoadEnds \/ current
  BY <1>1, <1>2, LoadSteps DEF LoadChange
<1>5. CASE LoadEnds
  <2>1. bound /\ readies' = IF link THEN readies + 1 ELSE readies
    BY <1>2, <1>5 DEF LoadEnds
  <2> QED BY <2>1, <1>1 DEF Linked
<1>6. CASE current /\ ~LoadEnds
  <2>1. phase = "idle"
    BY <1>6, <1>1 DEF OnlyIdle
  <2> USE DEF server, socket, count, vars
  <2>2. ASSUME bound' = bound, mine' = mine
        PROVE  readies > 0 \/ Cleans \/ (AllSaved /\ CleanAfter(0))
    BY <1>1, <1>2, <1>6, <2>2 DEF TailGoes
  <2> HIDE DEF Goal
  <2>3. ASSUME UNCHANGED <<bound, mine, readies, wire, cache>>
        PROVE  Goal
    <3>1. readies > 0 \/ Cleans \/ (AllSaved /\ CleanAfter(0))
      BY <2>2, <2>3
    <3> QED BY <2>3, <3>1 DEF Goal, Cleans, CleanAfter, AllSaved
  <2>4. ASSUME wire # <<>>, wire' = Tail(wire), bound' = bound, mine' = mine, readies' = readies,
               AllSaved /\ ~Dirty(wire[1]) => AllSaved',
               wire[1].type = "reset" /\ ~Dirty(wire[1]) => AllSaved'
        PROVE  Goal
    <3>1. readies > 0 \/ Cleans \/ (AllSaved /\ CleanAfter(0))
      BY <2>2, <2>4
    <3>2. CASE readies > 0
      BY <2>4, <3>2 DEF Goal
    <3>3. CASE Cleans
      <4>1. Cleans' \/ (CleanAfter(0) /\ wire[1].type = "reset")
        BY <1>1, <2>4, <3>3, CleansTaken
      <4>2. CleanAfter(0) => CleanAfter(0)' /\ ~Dirty(wire[1])
        BY <1>1, <2>4, CleanTaken
      <4> QED BY <4>1, <4>2, <2>4 DEF Goal
    <3>4. CASE AllSaved /\ CleanAfter(0)
      <4>1. CleanAfter(0)' /\ ~Dirty(wire[1])
        BY <1>1, <2>4, <3>4, CleanTaken
      <4> QED BY <3>4, <4>1, <2>4 DEF Goal
    <3> QED BY <3>1, <3>2, <3>3, <3>4
  <2>5. ~StartTurn /\ ~BroadcastSessionStream /\ ~SaveAnswer /\ ~BroadcastSessionDone
    BY <1>3 DEF StartTurn, BroadcastSessionStream, SaveAnswer, BroadcastSessionDone
  <2>6. ~ClearSessionPending
    BY <2>1 DEF ClearSessionPending
  <2>7. CASE HandleSessionReady
    <3> DEFINE f == [type |-> "reset", turn |-> turn, n |-> sent]
    <3>1. wire' = Append(wire, f) /\ f \in Frame /\ f.type = "reset" /\ f.n = sent
      BY <1>1, <2>7, ServerFrames DEF HandleSessionReady
    <3>2. sent = 0
      BY <2>1, <1>1 DEF LogInv
    <3> HIDE DEF f
    <3>3. Cleans'
      BY <3>1, <3>2, <1>1, CleansSent
    <3> QED BY <3>3 DEF Goal
  <2>8. CASE Open \/ Leave \/ ReadLog \/ LoadFails \/ ReuseExpires
    BY <2>3, <2>8 DEF Open, Leave, ReadLog, LoadFails, ReuseExpires
  <2>9. CASE PollReads \/ PollAnswers \/ UNCHANGED vars
    BY <2>3, <2>9 DEF PollReads, PollAnswers
  <2>10. CASE Reconnect
    BY <2>3, <2>10 DEF Reconnect
  <2>11. CASE SendMessage \/ Drop
    BY <1>2, <2>11 DEF SendMessage, Drop
  <2>12. CASE UserMessage
    <3>1. /\ wire # <<>> /\ wire' = Tail(wire)
          /\ mine' = mine /\ bound' = bound /\ readies' = readies
          /\ cache' = Claim(cache, Said, wire[1].type = "mine")
      BY <2>12 DEF UserMessage, Arrives, Said
    <3>2. 1 \in 1..Len(wire) /\ IsUser(wire[1])
      BY <1>1, <2>12, FirstFrames
    <3>3. AllSaved => AllSaved'
      BY <1>1, <3>1, <3>2, AllClaimed
    <3>4. wire[1].type # "reset"
      BY <3>2 DEF IsUser
    <3> QED BY <3>1, <3>3, <3>4, <2>4
  <2>13. CASE StreamEvent
    <3>1. /\ wire # <<>> /\ wire' = Tail(wire) /\ wire[1].type = "chunk"
          /\ mine' = mine /\ bound' = bound /\ readies' = readies
      BY <2>13 DEF StreamEvent, Arrives
    <3>2. Dirty(wire[1])
      BY <3>1 DEF Dirty
    <3> QED BY <3>1, <3>2, <2>4
  <2>14. CASE StreamReset
    <3>1. /\ wire # <<>> /\ wire' = Tail(wire) /\ wire[1].type = "reset"
          /\ mine' = mine /\ bound' = bound /\ readies' = readies
          /\ cache' = Chunks(Persisted(cache), wire[1].turn, wire[1].n)
      BY <2>14 DEF StreamReset, Arrives
    <3>2. wire[1].n \in Nat
      BY <1>1, <2>14, FirstFrames
    <3>3. ASSUME ~Dirty(wire[1]) PROVE AllSaved'
      <4>1. wire[1].n = 0
        BY <3>1, <3>2, <3>3 DEF Dirty
      <4>2. cache' = Persisted(cache)
        BY <3>1, <4>1, NoChunks
      <4> QED BY <4>2, <1>1, AllPersisted
    <3> QED BY <3>1, <3>3, <2>4
  <2>15. CASE SessionDone
    <3>1. /\ wire # <<>> /\ wire' = Tail(wire) /\ wire[1].type = "done"
          /\ mine' = mine /\ bound' = bound /\ readies' = readies
          /\ cache' = cache \/ cache' = Persisted(cache)
      BY <2>15 DEF SessionDone, Arrives
    <3>2. AllSaved => AllSaved'
      <4>1. cache' = cache /\ AllSaved => AllSaved'
        BY DEF AllSaved
      <4> QED BY <4>1, <3>1, <1>1, AllPersisted
    <3> QED BY <3>1, <3>2, <2>4
  <2> QED BY Steps, <1>6, <2>5, <2>6, <2>7, <2>8, <2>9, <2>10, <2>11, <2>12, <2>13, <2>14,
             <2>15
<1> QED BY <1>4, <1>5, <1>6

LEMMA CurrentStep ==
  ASSUME RowsInv, CurrentInv, [Next]_vars
  PROVE  CurrentInv'
<1>1. OnlyIdle' /\ ReplyIsAll'
  BY IdleStep DEF RowsInv, SocketInv, CurrentInv
<1> QED BY <1>1, ShowsStep, TailGoesStep DEF CurrentInv

(* A client whose load was asked for after the turn, with nothing under    *)
(* way and nothing written since, shows the log and nothing else           *)
(* (CaughtUp).                                                             *)
THEOREM CaughtUpCorrect == Spec => []CaughtUp
<1> DEFINE Inv == RowsInv /\ CurrentInv
<1>1. Init => Inv
  <2>1. Init => CurrentInv
    BY DEF Init, CurrentInv, OnlyIdle, ReplyIsAll, ShowsAll, TailGoes, NoLoad
  <2> QED BY <2>1, RowsInit
<1>2. Inv /\ [Next]_vars => Inv'
  BY RowsStep, CurrentStep
<1>3. Inv => CaughtUp
  <2> SUFFICES ASSUME Inv, Quiet, phase = "idle", mine # "sent", current
               PROVE  /\ Len(cache) = Len(log)
                      /\ \A i \in 1..Len(cache) : cache[i].seq = i
    BY DEF CaughtUp
  <2>1. readies = 0 /\ Len(wire) = 0 /\ bound
    BY DEF Quiet
  <2>2. ~Cleans
    BY <2>1 DEF Cleans
  <2>3. AllSaved
    BY <2>1, <2>2 DEF CurrentInv, TailGoes
  <2>4. Complete(cache)
    BY DEF CurrentInv, ShowsAll
  <2> QED BY <2>3, <2>4, AllRows
<1> HIDE DEF Inv
<1> QED BY <1>1, <1>2, <1>3, PTL DEF Spec
-----------------------------------------------------------------------------
(* The tail.                                                               *)

(* A frame that comes goes on from the events before it, a frame that is   *)
(* taken leaves those behind it.                                           *)
LEMMA EventSent ==
  ASSUME TypeOK, wire' = Append(wire, EventFrame(sent + 1)), sent' = sent + 1, turn' = turn,
         NEW j \in 0..Len(wire), NEW n \in Nat, GoesOn(j, n)
  PROVE  GoesOn(j, n)'
<1>1. wire \in Seq(Frame) /\ Len(wire) \in Nat /\ sent \in Nat /\ turn \in Nat
  BY TranscriptAssumption DEF TypeOK
<1>f. PICK f : f = EventFrame(sent + 1)
  OBVIOUS
<1>2. f \in Frame
  BY <1>1, <1>f, ServerFrames DEF EventFrame
<1>3. IsAppend(wire', wire, f)
  BY <1>1, <1>2, <1>f, Appended
<1>4. n + Len(wire) - j = sent /\ n + Len(wire') - j = sent'
  BY <1>1, <1>3 DEF GoesOn, IsAppend
<1>5. ASSUME NEW i \in (j + 1)..Len(wire')
      PROVE  wire'[i] = EventFrame(n + i - j)
  <2>1. CASE i = Len(wire) + 1
    <3>1. n + i - j = sent + 1
      BY <2>1, <1>1, <1>4
    <3> QED BY <2>1, <3>1, <1>3, <1>f DEF IsAppend
  <2>2. CASE i # Len(wire) + 1
    <3>1. i \in (j + 1)..Len(wire) /\ i \in 1..Len(wire)
      BY <2>2, <1>1, <1>3 DEF IsAppend
    <3>2. wire[i] = EventFrame(n + i - j)
      BY <3>1 DEF GoesOn
    <3> QED BY <3>1, <3>2, <1>3 DEF IsAppend
  <2> QED BY <2>1, <2>2
<1>6. \A i \in (j + 1)..Len(wire') : wire'[i] = EventFrame(n + i - j)'
  BY <1>5 DEF EventFrame
<1> QED BY <1>4, <1>6 DEF GoesOn

LEMMA OtherTaken ==
  ASSUME TypeOK, wire # <<>>, wire' = Tail(wire), UNCHANGED <<sent, turn>>,
         NEW j \in 1..Len(wire), NEW n \in Nat, GoesOn(j, n)
  PROVE  GoesOn(j - 1, n)'
<1>1. IsTail(wire', wire) /\ Len(wire) \in Nat /\ Len(wire') \in Nat
  BY Tailed DEF TypeOK
<1>2. n + Len(wire') - (j - 1) = sent'
  BY <1>1 DEF GoesOn, IsTail
<1>3. ASSUME NEW i \in (j - 1 + 1)..Len(wire')
      PROVE  wire'[i] = EventFrame(n + i - (j - 1))'
  <2>1. i \in 1..Len(wire') /\ i + 1 \in (j + 1)..Len(wire) /\ n + (i + 1) - j = n + i - (j - 1)
    BY <1>1 DEF IsTail
  <2>2. wire[i + 1] = EventFrame(n + (i + 1) - j)
    BY <2>1 DEF GoesOn
  <2>3. wire'[i] = wire[i + 1]
    BY <2>1, <1>1 DEF IsTail
  <2> QED BY <2>1, <2>2, <2>3 DEF EventFrame
<1> QED BY <1>2, <1>3 DEF GoesOn

LEMMA EventTaken ==
  ASSUME TypeOK, wire # <<>>, wire' = Tail(wire), UNCHANGED <<sent, turn>>,
         NEW n \in Nat, GoesOn(0, n)
  PROVE  GoesOn(0, n + 1)' /\ wire[1] = EventFrame(n + 1) /\ n + 1 \in 1..sent
<1>1. IsTail(wire', wire) /\ Len(wire) \in Nat /\ Len(wire') \in Nat /\ sent \in Nat
  BY Tailed, TranscriptAssumption DEF TypeOK
<1>2. n + 1 + Len(wire') - 0 = sent' /\ n + 1 \in 1..sent
  BY <1>1 DEF GoesOn, IsTail
<1>3. ASSUME NEW i \in (0 + 1)..Len(wire')
      PROVE  wire'[i] = EventFrame(n + 1 + i - 0)'
  <2>1. i \in 1..Len(wire') /\ i + 1 \in (0 + 1)..Len(wire) /\ n + (i + 1) - 0 = n + 1 + i - 0
    BY <1>1 DEF IsTail
  <2>2. wire[i + 1] = EventFrame(n + (i + 1) - 0)
    BY <2>1 DEF GoesOn
  <2>3. wire'[i] = wire[i + 1]
    BY <2>1, <1>1 DEF IsTail
  <2> QED BY <2>1, <2>2, <2>3 DEF EventFrame
<1>4. wire[1] = EventFrame(n + 1)
  <2>1. 1 \in (0 + 1)..Len(wire) /\ n + 1 - 0 = n + 1
    BY <1>1 DEF IsTail
  <2> QED BY <2>1 DEF GoesOn
<1> QED BY <1>2, <1>3, <1>4 DEF GoesOn

(* Rows of the agent in a turn that goes on, without an answer in the log, *)
(* are transient ones.                                                     *)
LEMMA NoneSaved ==
  ASSUME RowsInv, ~Answered
  PROVE  /\ Persisted(cache) \in Seq(Row)
         /\ \A i \in 1..Len(Persisted(cache)) : ~OfTurn(Persisted(cache)[i])
<1>1. /\ cache \in Seq(Row) /\ Len(log) \in Nat /\ OfLog(cache) /\ LogInv
      /\ \A i \in 1..Len(cache) : cache[i].seq \in Nat
  BY RowFacts DEF RowsInv, SocketInv, TypeOK, Shown
<1> DEFINE out == Persisted(cache)
<1>2. /\ out \in Seq(Row)
      /\ \A i \in 1..Len(out) : Saved(out[i]) /\ \E p \in 1..Len(cache) : out[i] = cache[p]
  BY <1>1, PersistedShape
<1> HIDE DEF out
<1>3. ASSUME NEW i \in 1..Len(out), OfTurn(out[i])
      PROVE  FALSE
  <2>1. PICK p \in 1..Len(cache) : out[i] = cache[p]
    BY <1>2
  <2>2. Saved(cache[p]) /\ OfTurn(cache[p])
    BY <1>2, <1>3, <2>1
  <2>3. cache[p].seq \in 1..Len(log)
    <3>1. cache[p].seq \in Nat /\ cache[p].seq <= Len(log) /\ cache[p].seq # 0
      BY <2>2, <1>1 DEF OfLog, Saved, Transient
    <3> QED BY <3>1, <1>1
  <2>4. log[cache[p].seq] = [turn |-> cache[p].turn, by |-> cache[p].by]
    BY <2>2, <1>1 DEF OfLog
  <2>5. log[cache[p].seq].turn = turn /\ log[cache[p].seq].by = "agent"
    BY <2>2, <2>4 DEF OfTurn
  <2>6. cache[p].seq = Len(log) /\ log # <<>>
    BY <2>3, <2>5, <1>1 DEF LogInv
  <2> QED BY <2>5, <2>6 DEF Answered
<1> QED BY <1>2, <1>3 DEF out

LEMMA GrownElsewhere ==
  ASSUME NEW rows \in Seq(Row), NEW out, NEW t, Grown(rows, out, t), t # turn,
         \A i \in 1..Len(rows) : ~OfTurn(rows[i])
  PROVE  \A i \in 1..Len(out) : ~OfTurn(out[i])
<1>1. Len(rows) \in Nat /\ Len(out) \in Nat
  BY DEF Grown
<1>2. ASSUME NEW i \in 1..Len(out) PROVE ~OfTurn(out[i])
  <2>1. CASE i \in 1..Len(rows)
    BY <2>1 DEF Grown, OfTurn
  <2>2. CASE i > Len(rows)
    BY <2>2 DEF Grown, OfTurn
  <2> QED BY <2>1, <2>2, <1>1
<1> QED BY <1>2

(* A frame that is none of the turn's events adds nothing to its tail.     *)
LEMMA OtherFrame ==
  ASSUME RowsInv, ~Answered, NotYet, Other(wire[1]), turn' = turn,
         \/ UserMessage /\ cache' = Claim(cache, Said, wire[1].type = "mine")
         \/ StreamEvent /\ cache' = Chunk(cache, wire[1].turn, wire[1].n)
         \/ StreamReset /\ cache' = Chunks(Persisted(cache), wire[1].turn, wire[1].n)
         \/ SessionDone /\ (cache' = cache \/ cache' = Persisted(cache))
  PROVE  NotYet'
<1>1. SocketInv /\ cache \in Seq(Row) /\ turn \in Nat
  BY TranscriptAssumption DEF RowsInv, SocketInv, TypeOK
<1>2. \A i \in 1..Len(cache) : ~OfTurn(cache[i])
  BY DEF NotYet
<1>3. PICK x : x = cache'
  OBVIOUS
<1>4. SUFFICES \A i \in 1..Len(x) : ~OfTurn(x[i])
  BY <1>3 DEF NotYet, OfTurn
<1>5. CASE UserMessage /\ x = Claim(cache, Said, wire[1].type = "mine")
  <2>1. Said \in Row /\ ~OfTurn(Said)
    BY <1>1, <1>5, FirstFrames, SaidFacts DEF OfTurn, Said
  <2>2. /\ Len(x) \in Nat /\ Len(cache) \in Nat
        /\ \/ x = cache
           \/ /\ Len(x) = Len(cache)
              /\ \A i \in 1..Len(cache) : /\ cache[i] = Echo => x[i] = Said
                                          /\ cache[i] # Echo => x[i] = cache[i]
           \/ IsAppend(x, cache, Said)
    BY <1>1, <1>5, <2>1, ClaimCases
  <2>3. CASE x = cache
    BY <1>2, <2>3
  <2>4. CASE /\ Len(x) = Len(cache)
             /\ \A i \in 1..Len(cache) : /\ cache[i] = Echo => x[i] = Said
                                         /\ cache[i] # Echo => x[i] = cache[i]
    BY <1>2, <2>1, <2>4
  <2>5. CASE IsAppend(x, cache, Said)
    BY <1>2, <2>1, <2>5 DEF IsAppend
  <2> QED BY <2>2, <2>3, <2>4, <2>5
<1>6. ASSUME ~IsUser(wire[1]), 1 \in 1..Len(wire)
      PROVE  wire[1].turn \in Nat /\ wire[1].n \in Nat /\ wire[1].turn # turn
  BY <1>1, <1>6, FirstFrames DEF Other
<1>7. CASE StreamEvent /\ x = Chunk(cache, wire[1].turn, wire[1].n)
  <2>1. wire[1].turn \in Nat /\ wire[1].n \in Nat /\ wire[1].turn # turn
    BY <1>1, <1>6, <1>7, FirstFrames DEF IsUser
  <2>2. Grown(cache, x, wire[1].turn)
    BY <2>1, <1>1, <1>7, ChunkGrows
  <2> QED BY <2>1, <2>2, <1>1, <1>2, GrownElsewhere
<1>8. CASE StreamReset /\ x = Chunks(Persisted(cache), wire[1].turn, wire[1].n)
  <2>1. wire[1].turn \in Nat /\ wire[1].n \in Nat /\ wire[1].turn # turn
    BY <1>1, <1>6, <1>8, FirstFrames DEF IsUser
  <2> DEFINE rows == Persisted(cache)
  <2>2. rows \in Seq(Row) /\ \A i \in 1..Len(rows) : ~OfTurn(rows[i])
    BY NoneSaved
  <2>3. x = Chunks(rows, wire[1].turn, wire[1].n)
    BY <1>8
  <2> HIDE DEF rows
  <2>4. Grown(rows, x, wire[1].turn)
    BY <2>1, <2>2, <2>3, ChunksGrow
  <2> QED BY <2>1, <2>2, <2>4, GrownElsewhere
<1>9. CASE x = cache \/ x = Persisted(cache)
  BY <1>2, <1>9, NoneSaved
<1> QED BY <1>3, <1>5, <1>7, <1>8, <1>9
(* The tail begins, and it grows.                                          *)
LEMMA TailAdded ==
  ASSUME NEW rows \in Seq(Row), \A i \in 1..Len(rows) : ~OfTurn(rows[i]),
         NEW n \in Nat, turn \in Nat, turn' = turn, cache' = Append(rows, TailRow(turn, n))
  PROVE  Streamed(n)'
<1>1. PICK x : x = TailRow(turn, n)
  OBVIOUS
<1>2. x \in Row /\ x.turn = turn /\ x.by = "agent" /\ x.seq = 0 /\ x.text = UpTo(n)
  BY <1>1 DEF TailRow, Row, UpTo
<1>3. IsAppend(cache', rows, x) /\ Len(cache') \in Nat /\ Len(rows) \in Nat
  BY <1>1, <1>2, Appended
<1>4. cache' # <<>> /\ cache'[Len(cache')] = x
  BY <1>3 DEF IsAppend
<1>5. \A i \in 1..Len(cache') : i # Len(cache') => ~(cache'[i].turn = turn' /\ cache'[i].by = "agent")
  BY <1>3 DEF IsAppend, OfTurn
<1> QED BY <1>2, <1>4, <1>5 DEF Streamed, OfTurn, Transient, UpTo

LEMMA TailLonger ==
  ASSUME cache \in Seq(Row), NEW n \in Nat, turn \in Nat, turn' = turn, Streamed(n),
         cache' = Chunk(cache, turn, n + 1)
  PROVE  Streamed(n + 1)'
<1> DEFINE m == Len(cache)
<1>1. /\ cache # <<>> /\ cache[m].by = "agent" /\ cache[m].turn = turn /\ cache[m].seq = 0
      /\ cache[m].text = UpTo(n) /\ m \in Nat /\ m \in 1..m /\ cache[m] \in Row
  BY DEF Streamed, OfTurn, Transient
<1>2. /\ cache' \in Seq(Row) /\ Len(cache') = m
      /\ \A i \in 1..m : i # m => cache'[i] = cache[i]
      /\ cache'[m] = [cache[m] EXCEPT !.text = UpTo(n + 1)]
  BY <1>1, NextChunk
<1>3. /\ cache'[m].by = "agent" /\ cache'[m].turn = turn /\ cache'[m].seq = 0
      /\ cache'[m].text = UpTo(n + 1)
  <2>1. UpTo(n + 1) \in Seq(Nat)
    BY DEF UpTo
  <2>2. cache'[m] = [seq |-> cache[m].seq, turn |-> cache[m].turn, by |-> cache[m].by,
                     text |-> UpTo(n + 1)]
    BY <2>1, <1>1, <1>2, TextReplaced
  <2> QED BY <2>2, <1>1
<1>4. \A i \in 1..Len(cache') : i # Len(cache') => ~(cache'[i].turn = turn' /\ cache'[i].by = "agent")
  BY <1>2 DEF Streamed, OfTurn
<1>5. cache' # <<>>
  BY <1>1, <1>2
<1> HIDE DEF m
<1> QED BY <1>2, <1>3, <1>4, <1>5 DEF Streamed, OfTurn, Transient, UpTo

(* A frame of the turn that goes on, taken from a wire that streams.       *)
FrameTaken ==
  /\ wire # <<>> /\ wire' = Tail(wire)
  /\ UNCHANGED <<log, phase, turn, sent, bound, readies>>
  /\ \/ UserMessage /\ cache' = Claim(cache, Said, wire[1].type = "mine")
     \/ StreamEvent /\ cache' = Chunk(cache, wire[1].turn, wire[1].n)
     \/ StreamReset /\ cache' = Chunks(Persisted(cache), wire[1].turn, wire[1].n)
     \/ SessionDone /\ (cache' = cache \/ cache' = Persisted(cache))

LEMMA Delivered ==
  ASSUME UserMessage \/ StreamEvent \/ StreamReset \/ SessionDone
  PROVE  FrameTaken
<1> USE DEF server, socket, Arrives
<1>1. CASE UserMessage
  BY <1>1 DEF UserMessage, FrameTaken, Said
<1>2. CASE StreamEvent
  BY <1>2 DEF StreamEvent, FrameTaken
<1>3. CASE StreamReset
  BY <1>3 DEF StreamReset, FrameTaken
<1>4. CASE SessionDone
  BY <1>4 DEF SessionDone, FrameTaken
<1> QED BY <1>1, <1>2, <1>3, <1>4

LEMMA ByResetTaken ==
  ASSUME RowsInv, ~Answered, ByReset, FrameTaken
  PROVE  Streams'
<1>1. /\ SocketInv /\ TypeOK /\ cache \in Seq(Row) /\ turn \in Nat /\ Len(wire) \in Nat
      /\ sent \in Nat
  BY TranscriptAssumption DEF RowsInv, SocketInv, TypeOK
<1>2. PICK j \in 1..Len(wire) : /\ wire[j].type = "reset" /\ wire[j].turn = turn
                                /\ GoesOn(j, wire[j].n)
  BY DEF ByReset
<1>3. PICK n : n = wire[j].n
  OBVIOUS
<1>4. /\ n \in Nat /\ IsTail(wire', wire) /\ wire # <<>> /\ wire' = Tail(wire)
      /\ UNCHANGED <<sent, turn>>
  BY <1>1, <1>2, <1>3, FirstFrames, Tailed DEF FrameTaken, TypeOK
<1>5. GoesOn(j - 1, n)'
  BY <1>1, <1>2, <1>3, <1>4, OtherTaken
<1>6. CASE j # 1
  <2>1. j - 1 \in 1..Len(wire') /\ wire'[j - 1] = wire[j]
    BY <1>4, <1>6 DEF IsTail
  <2>2. ByReset'
    BY <2>1, <1>2, <1>3, <1>4, <1>5 DEF ByReset
  <2> QED BY <2>2 DEF Streams
<1>7. CASE j = 1
  <2>1. StreamReset /\ cache' = Chunks(Persisted(cache), turn, n)
    BY <1>1, <1>2, <1>3, <1>7, FirstFrames DEF FrameTaken, IsUser
  <2> DEFINE rows == Persisted(cache)
  <2>2. rows \in Seq(Row) /\ \A i \in 1..Len(rows) : ~OfTurn(rows[i])
    BY NoneSaved
  <2>3. cache' = Chunks(rows, turn, n)
    BY <2>1
  <2> HIDE DEF rows
  <2>4. \A i \in 1..Len(rows) : ~(rows[i].turn = turn /\ rows[i].by = "agent")
    BY <2>2 DEF OfTurn
  <2>5. cache' = IF n = 0 THEN rows ELSE Append(rows, TailRow(turn, n))
    BY <2>2, <2>3, <2>4, <1>1, <1>4, ChunksTail
  <2>6. GoesOn(0, n)'
    <3>1. j - 1 = 0
      BY <1>7
    <3> QED BY <3>1, <1>5
  <2>7. CASE n = 0
    <3>1. NotYet'
      BY <2>2, <2>5, <2>7, <1>4 DEF NotYet, OfTurn
    <3>2. 0 \in 0..Len(wire') /\ OthersUpTo(0)'
      <4>1. Len(wire') \in Nat
        BY <1>1, <1>4, Tailed DEF TypeOK
      <4> QED BY <4>1 DEF OthersUpTo
    <3>3. GoesOn(0, 0)'
      BY <2>6, <2>7
    <3>4. FromFirst'
      BY <3>1, <3>2, <3>3 DEF FromFirst
    <3> QED BY <3>4 DEF Streams
  <2>8. CASE n # 0
    <3>1. Streamed(n)'
      BY <2>2, <2>5, <2>8, <1>1, <1>4, TailAdded
    <3>2. n \in 1..sent'
      <4>1. n + Len(wire') - 0 = sent' /\ Len(wire') \in Nat
        BY <2>6, <1>1, <1>4, Tailed DEF GoesOn, TypeOK
      <4> QED BY <4>1, <2>8, <1>1, <1>4
    <3>3. Further'
      BY <3>1, <3>2, <2>6 DEF Further
    <3> QED BY <3>3 DEF Streams
  <2> QED BY <2>7, <2>8
<1> QED BY <1>6, <1>7

LEMMA FromFirstTaken ==
  ASSUME RowsInv, ~Answered, FromFirst, FrameTaken
  PROVE  Streams'
<1>1. /\ SocketInv /\ TypeOK /\ cache \in Seq(Row) /\ turn \in Nat /\ Len(wire) \in Nat
      /\ sent \in Nat
  BY TranscriptAssumption DEF RowsInv, SocketInv, TypeOK
<1>2. PICK j \in 0..Len(wire) : GoesOn(j, 0) /\ OthersUpTo(j)
  BY DEF FromFirst
<1>3. NotYet
  BY DEF FromFirst
<1>4. /\ IsTail(wire', wire) /\ wire # <<>> /\ wire' = Tail(wire)
      /\ sent' = sent /\ turn' = turn
  BY <1>1, Tailed DEF FrameTaken, TypeOK
<1>5. CASE j # 0
  <2>1. j \in 1..Len(wire) /\ j - 1 \in 0..Len(wire')
    BY <1>5, <1>1, <1>4 DEF IsTail
  <2>2. GoesOn(j - 1, 0)'
    BY <2>1, <1>1, <1>2, <1>4, OtherTaken
  <2>3. OthersUpTo(j - 1)'
    <3>1. ASSUME NEW i \in 1..(j - 1) PROVE wire'[i] = wire[i + 1] /\ i + 1 \in 1..j
      <4>1. i \in 1..Len(wire')
        BY <2>1
      <4> QED BY <4>1, <2>1, <1>4 DEF IsTail
    <3> QED BY <3>1, <1>2, <1>4 DEF OthersUpTo, Other, IsUser
  <2>4. Other(wire[1])
    BY <2>1, <1>2 DEF OthersUpTo
  <2>5. NotYet'
    BY <2>4, <1>3, <1>4, OtherFrame DEF FrameTaken
  <2>6. FromFirst'
    BY <2>1, <2>2, <2>3, <2>5 DEF FromFirst
  <2> QED BY <2>6 DEF Streams
<1>6. CASE j = 0
  <2>1. GoesOn(0, 0 + 1)' /\ wire[1] = EventFrame(0 + 1) /\ 0 + 1 \in 1..sent
    BY <1>1, <1>2, <1>4, <1>6, EventTaken
  <2>2. wire[1].type = "chunk" /\ wire[1].turn = turn /\ wire[1].n = 1
    BY <2>1 DEF EventFrame
  <2>3. cache' = Chunk(cache, turn, 1)
    BY <2>2, <1>1, FirstFrames DEF FrameTaken, IsUser
  <2>4. \A i \in 1..Len(cache) : ~OfTurn(cache[i])
    BY <1>3 DEF NotYet
  <2>5. cache' = Append(cache, TailRow(turn, 1))
    BY <2>3, <2>4, <1>1, FirstChunk DEF OfTurn
  <2>6. Streamed(1)'
    BY <2>4, <2>5, <1>1, <1>4, TailAdded
  <2>7. GoesOn(0, 1)' /\ 1 \in 1..sent'
    BY <2>1, <1>4
  <2>8. Further'
    BY <2>6, <2>7 DEF Further
  <2> QED BY <2>8 DEF Streams
<1> QED BY <1>5, <1>6

LEMMA FurtherTaken ==
  ASSUME RowsInv, Further, FrameTaken
  PROVE  Streams'
<1>1. /\ SocketInv /\ TypeOK /\ cache \in Seq(Row) /\ turn \in Nat /\ sent \in Nat
  BY TranscriptAssumption DEF RowsInv, SocketInv, TypeOK
<1>2. PICK n \in 1..sent : Streamed(n) /\ GoesOn(0, n)
  BY DEF Further
<1>3. /\ wire # <<>> /\ wire' = Tail(wire) /\ sent' = sent /\ turn' = turn /\ n \in Nat
  BY <1>1 DEF FrameTaken
<1>4. GoesOn(0, n + 1)' /\ wire[1] = EventFrame(n + 1) /\ n + 1 \in 1..sent
  BY <1>1, <1>2, <1>3, EventTaken
<1>5. wire[1].type = "chunk" /\ wire[1].turn = turn /\ wire[1].n = n + 1
  BY <1>4 DEF EventFrame
<1>6. cache' = Chunk(cache, turn, n + 1)
  BY <1>1, <1>5, FirstFrames DEF FrameTaken, IsUser
<1>7. Streamed(n + 1)'
  BY <1>1, <1>2, <1>3, <1>6, TailLonger
<1>8. Further'
  BY <1>3, <1>4, <1>7 DEF Further
<1> QED BY <1>8 DEF Streams
LEMMA EventFollows ==
  ASSUME RowsInv, Streams, cache' = cache, turn' = turn, sent' = sent + 1,
         wire' = Append(wire, EventFrame(sent + 1))
  PROVE  Streams'
<1>1. TypeOK /\ SocketInv /\ Len(wire) \in Nat /\ sent \in Nat
  BY DEF RowsInv, SocketInv, TypeOK
<1>f. PICK f : f = EventFrame(sent + 1)
  OBVIOUS
<1>2. f \in Frame
  BY <1>1, <1>f, ServerFrames DEF EventFrame
<1>3. IsAppend(wire', wire, f)
  BY <1>1, <1>2, <1>f, LastFrame
<1>4. CASE ByReset
  <2>1. PICK j \in 1..Len(wire) : /\ wire[j].type = "reset" /\ wire[j].turn = turn
                                  /\ GoesOn(j, wire[j].n)
    BY <1>4 DEF ByReset
  <2>2. PICK n : n = wire[j].n
    OBVIOUS
  <2>3. n \in Nat /\ j \in 0..Len(wire)
    BY <2>2, <1>1, FirstFrames
  <2>4. GoesOn(j, n)'
    BY <2>1, <2>2, <2>3, <1>1, EventSent
  <2>5. wire'[j] = wire[j] /\ j \in 1..Len(wire')
    BY <1>3 DEF IsAppend
  <2>6. ByReset'
    BY <2>1, <2>2, <2>4, <2>5 DEF ByReset
  <2> QED BY <2>6 DEF Streams
<1>5. CASE FromFirst
  <2>1. PICK j \in 0..Len(wire) : GoesOn(j, 0) /\ OthersUpTo(j)
    BY <1>5 DEF FromFirst
  <2>2. GoesOn(j, 0)'
    BY <2>1, <1>1, EventSent
  <2>3. OthersUpTo(j)' /\ j \in 0..Len(wire')
    <3>1. \A i \in 1..j : wire'[i] = wire[i]
      BY <1>1, <1>3 DEF IsAppend
    <3>2. j \in 0..Len(wire')
      BY <1>1, <1>3 DEF IsAppend
    <3> QED BY <3>1, <3>2, <2>1 DEF OthersUpTo, Other, IsUser
  <2>4. NotYet'
    BY <1>5 DEF FromFirst, NotYet, OfTurn
  <2>5. FromFirst'
    BY <2>2, <2>3, <2>4 DEF FromFirst
  <2> QED BY <2>5 DEF Streams
<1>6. CASE Further
  <2>1. PICK n \in 1..sent : Streamed(n) /\ GoesOn(0, n)
    BY <1>6 DEF Further
  <2>2. n \in Nat /\ 0 \in 0..Len(wire) /\ n \in 1..sent'
    BY <1>1
  <2>3. GoesOn(0, n)'
    BY <2>1, <2>2, <1>1, EventSent
  <2>4. Streamed(n)'
    BY <2>1 DEF Streamed, OfTurn
  <2>5. Further'
    BY <2>2, <2>3, <2>4 DEF Further
  <2> QED BY <2>5 DEF Streams
<1> QED BY <1>4, <1>5, <1>6 DEF Streams

LEMMA ResetFollows ==
  ASSUME TypeOK, HandleSessionReady
  PROVE  Streams'
<1>f. PICK f : f = [type |-> "reset", turn |-> turn, n |-> sent]
  OBVIOUS
<1>1. /\ f \in Frame /\ f.type = "reset" /\ f.turn = turn /\ f.n = sent
      /\ wire' = Append(wire, f) /\ turn' = turn /\ sent' = sent
  BY <1>f, ServerFrames DEF HandleSessionReady, server
<1>2. IsAppend(wire', wire, f) /\ Len(wire) \in Nat /\ sent \in Nat
  BY <1>1, LastFrame DEF TypeOK
<1>j. PICK j : j = Len(wire')
  OBVIOUS
<1>3. j \in 1..Len(wire') /\ wire'[j] = f /\ j \in Nat
  BY <1>2, <1>j DEF IsAppend
<1>n. PICK n : n = sent
  OBVIOUS
<1>4. GoesOn(j, n)'
  <2>1. n + Len(wire') - j = sent'
    BY <1>1, <1>2, <1>3, <1>j, <1>n
  <2>2. \A i \in (j + 1)..Len(wire') : FALSE
    BY <1>3, <1>j
  <2> QED BY <2>1, <2>2 DEF GoesOn
<1>5. ByReset'
  BY <1>1, <1>3, <1>4, <1>n DEF ByReset
<1> QED BY <1>5 DEF Streams

LEMMA TurnFollows ==
  ASSUME RowsInv, StartTurn, bound'
  PROVE  Streams'
<1>1. /\ TypeOK /\ LogInv /\ SocketInv /\ Shown(cache) /\ cache \in Seq(Row) /\ turn \in Nat
      /\ FramesOfLog
  BY TranscriptAssumption DEF RowsInv, SocketInv, TypeOK, WireInv
<1>f. PICK f : f = [type |-> IF mine = "sent" THEN "mine" ELSE "user",
                    turn |-> turn + 1, n |-> Len(log) + 1]
  OBVIOUS
<1>2. /\ f \in Frame /\ IsUser(f) /\ wire' = Append(wire, f)
      /\ turn' = turn + 1 /\ sent' = 0 /\ cache' = cache
  BY <1>1, <1>f, ServerFrames DEF StartTurn, IsUser
<1>3. IsAppend(wire', wire, f) /\ Len(wire) \in Nat /\ wire \in Seq(Frame)
  BY <1>1, <1>2, LastFrame
<1>4. NotYet'
  <2>1. \A i \in 1..Len(cache) : cache[i].turn \in Nat /\ cache[i].turn <= turn
    BY <1>1, RowFacts DEF Shown, OfLog
  <2>2. \A i \in 1..Len(cache) : cache[i].turn # turn + 1
    BY <2>1, <1>1
  <2> QED BY <2>2, <1>2 DEF NotYet, OfTurn
<1>j. PICK j : j = Len(wire')
  OBVIOUS
<1>5. j \in 0..Len(wire') /\ j \in Nat
  BY <1>3, <1>j DEF IsAppend
<1>6. GoesOn(j, 0)'
  <2>1. 0 + Len(wire') - j = sent'
    BY <1>2, <1>5, <1>j
  <2>2. \A i \in (j + 1)..Len(wire') : FALSE
    BY <1>5, <1>j
  <2> QED BY <2>1, <2>2 DEF GoesOn
<1>7. OthersUpTo(j)'
  <2>1. \A i \in 1..Len(wire) : wire[i].turn \in Nat /\ wire[i].turn <= turn
    BY <1>1, FirstFrames
  <2>2. \A i \in 1..Len(wire) : wire[i].turn < turn'
    BY <2>1, <1>1, <1>2
  <2>3. \A i \in 1..j : wire'[i].turn < turn' \/ wire'[i] = f
    BY <2>2, <1>3, <1>j DEF IsAppend
  <2> QED BY <2>3, <1>2 DEF OthersUpTo, Other, IsUser
<1>8. FromFirst'
  BY <1>4, <1>5, <1>6, <1>7 DEF FromFirst
<1> QED BY <1>8 DEF Streams

LEMMA TailStep ==
  ASSUME RowsInv, TailInv, [Next]_vars
  PROVE  TailInv'
<1>1. /\ TypeOK /\ SocketInv /\ Linked /\ readies \in Nat /\ bound \in BOOLEAN
  BY DEF RowsInv, SocketInv, WireInv, TypeOK
<1>2. SUFFICES ASSUME phase' = "running", ~Answered', bound'
               PROVE  readies' > 0 \/ Streams'
  BY DEF TailInv
<1> USE DEF server, socket, count
<1>3. ASSUME UNCHANGED <<log, phase, bound>>
      PROVE  ~Answered /\ (readies > 0 \/ Streams)
  BY <1>2, <1>3 DEF TailInv, Answered
<1>4. ASSUME UNCHANGED <<log, phase, turn, sent, bound, wire, readies, cache>>
      PROVE  readies' > 0 \/ Streams'
  <2>1. readies > 0 \/ Streams
    BY <1>3, <1>4
  <2>2. /\ ByReset => ByReset'
        /\ FromFirst => FromFirst'
        /\ Further => Further'
    BY <1>4 DEF ByReset, FromFirst, Further, NotYet, Streamed, GoesOn, OthersUpTo, Other,
                OfTurn, EventFrame, IsUser
  <2> QED BY <2>1, <2>2, <1>4 DEF Streams
<1>5. CASE StartTurn
  BY <1>2, <1>5, TurnFollows
<1>6. CASE BroadcastSessionStream
  <2>1. /\ UNCHANGED <<log, phase, bound, turn, cache, readies>> /\ sent' = sent + 1
        /\ wire' = IF bound THEN Append(wire, [type |-> "chunk", turn |-> turn, n |-> sent + 1])
                   ELSE wire
    BY <1>6 DEF BroadcastSessionStream, Send
  <2>2. readies > 0 \/ Streams
    BY <2>1, <1>3
  <2>3. wire' = Append(wire, EventFrame(sent + 1))
    BY <2>1, <1>2 DEF EventFrame
  <2> QED BY <2>1, <2>2, <2>3, EventFollows
<1>7. CASE SaveAnswer
  BY <1>1, <1>2, <1>7, NewAnswer DEF SocketInv
<1>8. CASE BroadcastSessionDone \/ ClearSessionPending
  BY <1>2, <1>8 DEF BroadcastSessionDone, ClearSessionPending
<1>9. CASE HandleSessionReady
  BY <1>1, <1>9, ResetFollows
<1>10. CASE LoadEnds
  <2>1. bound' = bound /\ readies' = IF link THEN readies + 1 ELSE readies
    BY <1>10 DEF LoadEnds
  <2> QED BY <2>1, <1>1, <1>2 DEF Linked
<1>11. CASE UserMessage \/ StreamEvent \/ StreamReset \/ SessionDone
  <2>1. FrameTaken
    BY <1>11, Delivered
  <2>2. UNCHANGED <<log, phase, bound>> /\ readies' = readies
    BY <2>1 DEF FrameTaken
  <2>3. ~Answered /\ (readies > 0 \/ Streams)
    BY <2>2, <1>3
  <2> QED BY <2>1, <2>2, <2>3, ByResetTaken, FromFirstTaken, FurtherTaken DEF Streams
<1>12. CASE Open \/ Leave \/ ReadLog \/ LoadFails \/ ReuseExpires
  BY <1>4, <1>12 DEF Open, Leave, ReadLog, LoadFails, ReuseExpires
<1>13. CASE PollReads \/ PollAnswers \/ UNCHANGED vars
  BY <1>4, <1>13 DEF PollReads, PollAnswers, vars
<1>14. CASE Reconnect
  BY <1>4, <1>14 DEF Reconnect
<1>15. CASE SendMessage \/ Drop
  BY <1>2, <1>15 DEF SendMessage, Drop
<1> QED BY Steps, <1>5, <1>6, <1>7, <1>8, <1>9, <1>10, <1>11, <1>12, <1>13, <1>14, <1>15

(* While the agent works and nothing is under way, the tail shown is the   *)
(* buffer of the turn: no event twice, none missing, none out of order and *)
(* none in a row of the log (LiveTail).                                    *)
THEOREM LiveTailCorrect == Spec => []LiveTail
<1> DEFINE Inv == RowsInv /\ TailInv
<1>1. Init => Inv
  <2>1. Init => TailInv
    BY DEF Init, TailInv
  <2> QED BY <2>1, RowsInit
<1>2. Inv /\ [Next]_vars => Inv'
  BY RowsStep, TailStep
<1>3. Inv => LiveTail
  <2> DEFINE places == {i \in 1..Len(cache) : cache[i].turn = turn /\ cache[i].by = "agent"}
             tail == Select(cache, places)
  <2> SUFFICES ASSUME Inv, Quiet, phase = "running", ~Answered
               PROVE  IF sent = 0 THEN tail = <<>>
                      ELSE /\ Len(tail) = 1 /\ Transient(tail[1])
                           /\ tail[1].text = [n \in 1..sent |-> n]
    BY DEF LiveTail
  <2>1. /\ Streams /\ Len(wire) = 0 /\ sent \in Nat /\ cache \in Seq(Row) /\ Len(cache) \in Nat
    BY DEF Quiet, TailInv, RowsInv, SocketInv, TypeOK
  <2>2. \A i \in 1..Len(cache) : i \in places <=> OfTurn(cache[i])
    BY DEF OfTurn
  <2> HIDE DEF Inv, places
  <2>s. tail \in Seq(Row) /\ Selection(tail, cache, places)
    BY <2>1, SelectShape
  <2> HIDE DEF tail
  <2>3. /\ \A i \in 1..Len(tail) : \E p \in 1..Len(cache) : p \in places /\ tail[i] = cache[p]
        /\ \A p \in 1..Len(cache) : p \in places => \E i \in 1..Len(tail) : tail[i] = cache[p]
    BY <2>s DEF Selection
  <2>a. \A i, k \in 1..Len(tail) : i < k =>
          \E p, q \in 1..Len(cache) : p < q /\ p \in places /\ q \in places
    BY <2>s DEF Selection
  <2>4. Len(tail) \in Nat
    BY <2>s
  <2>5. ~ByReset
    BY <2>1 DEF ByReset
  <2>6. CASE FromFirst
    <3>1. sent = 0
      BY <2>1, <2>6 DEF FromFirst, GoesOn
    <3>2. ~(1 \in 1..Len(tail))
      BY <2>2, <2>3, <2>6 DEF FromFirst, NotYet
    <3>3. tail = <<>>
      BY <2>s, <2>4, <3>2
    <3> QED BY <3>1, <3>3
  <2>7. CASE Further
    <3>1. PICK n \in 1..sent : Streamed(n) /\ GoesOn(0, n)
      BY <2>7 DEF Further
    <3>2. n = sent /\ sent # 0
      BY <2>1, <3>1 DEF GoesOn
    <3>3. Len(cache) \in 1..Len(cache)
      BY <2>1, <3>1 DEF Streamed
    <3>4. \A p \in 1..Len(cache) : p \in places <=> p = Len(cache)
      BY <2>2, <3>1 DEF Streamed
    <3>5. Len(tail) >= 1
      BY <2>3, <2>4, <3>3, <3>4
    <3>6. ~(1 \in 1..Len(tail) /\ 2 \in 1..Len(tail))
      <4> SUFFICES ASSUME 1 \in 1..Len(tail), 2 \in 1..Len(tail) PROVE FALSE
        OBVIOUS
      <4>1. PICK p, q \in 1..Len(cache) : p < q /\ p \in places /\ q \in places
        BY <2>a
      <4>2. p = Len(cache) /\ q = Len(cache)
        BY <3>4, <4>1
      <4> QED BY <4>1, <4>2, <2>1
    <3>7. Len(tail) = 1 /\ 1 \in 1..Len(tail)
      <4>1. 1 \in 1..Len(tail)
        BY <2>4, <3>5
      <4>2. ~(2 \in 1..Len(tail))
        BY <3>6, <4>1
      <4>3. \A m \in Nat : m >= 1 /\ ~(2 \in 1..m) => m = 1
        OBVIOUS
      <4> QED BY <2>4, <3>5, <4>1, <4>2, <4>3
    <3>8. tail[1] = cache[Len(cache)]
      BY <2>3, <3>4, <3>7
    <3>9. Transient(tail[1]) /\ tail[1].text = UpTo(sent)
      BY <3>1, <3>2, <3>8 DEF Streamed, Transient
    <3>10. UpTo(sent) = [k \in 1..sent |-> k]
      BY DEF UpTo
    <3> QED BY <3>2, <3>7, <3>9, <3>10
  <2> QED BY <2>1, <2>5, <2>6, <2>7 DEF Streams
<1> HIDE DEF Inv
<1> QED BY <1>1, <1>2, <1>3, PTL DEF Spec
=============================================================================
