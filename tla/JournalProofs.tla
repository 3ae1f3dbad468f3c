---------------------------- MODULE JournalProofs ----------------------------
(***************************************************************************)
(* Proofs about AuditJournal for any writers and payloads, any length of   *)
(* the file and any number of torn writes and changes.                     *)
(***************************************************************************)
EXTENDS AuditJournal, Integers, FiniteSetTheorems, WellFoundedInduction, TLAPS

Forked == \E j, k \in 1..Len(lines) :
             j # k /\ lines[j].previous_hash = lines[k].previous_hash

Sealed(file) ==
    \A k \in 1..Len(file) :
        file[k] # Garbage /\ file[k].event_hash = Hash(file[k].previous_hash, file[k].payload)

TypeInv ==
    /\ lines \in Seq(Lines \cup {Garbage})
    /\ bare \in BOOLEAN /\ (bare => lines # <<>>)
    /\ pc \in [Writers -> {"idle", "write"}]
    /\ tail \in [Writers -> Hashes] /\ body \in [Writers -> Payloads \cup {Garbage}]
    /\ \A w \in Writers : pc[w] = "write" => body[w] \in Payloads
    /\ acknowledged \in Nat /\ cuts \in Nat /\ edits \in Nat

(* What the writers of an undamaged file know and what they left: every    *)
(* tail read is the hash of some line there still is, and if the chain is  *)
(* not whole it is because two lines built on the same one.                *)
ChainOK ==
    edits = 0 /\ cuts = 0 =>
        /\ Sealed(lines)
        /\ \A w \in Writers : pc[w] = "write" =>
              \E i \in 1..(Len(lines) + 1) : tail[w] = HashBefore(lines, i)
        /\ Intact(lines) \/ Forked

(* As long as no write is cut short there is one line per append. *)
CountOK == cuts = 0 => /\ ~bare /\ acknowledged = Len(lines)
                       /\ \A k \in 1..Len(lines) : lines[k] # Garbage

Inv == TypeInv /\ ChainOK /\ CountOK

----------------------------------------------------------------------------
(* Sequences and hashes *)

LEMMA LengthOf ==
    ASSUME NEW S, NEW s \in Seq(S)
    PROVE  /\ Len(s) \in Nat /\ \A k \in 1..Len(s) : s[k] \in S
           /\ s # <<>> => Len(s) > 0
OBVIOUS

LEMMA Extended ==
    ASSUME NEW S, NEW s \in Seq(S), NEW x \in S
    PROVE  /\ Append(s, x) \in Seq(S) /\ Len(Append(s, x)) = Len(s) + 1
           /\ Append(s, x)[Len(s) + 1] = x
           /\ \A k \in 1..Len(s) : Append(s, x)[k] = s[k]
OBVIOUS

LEMMA Replaced ==
    ASSUME NEW S, NEW s \in Seq(S), NEW x \in S, NEW k \in 1..Len(s)
    PROVE  /\ [s EXCEPT ![k] = x] \in Seq(S)
           /\ Len([s EXCEPT ![k] = x]) = Len(s)
           /\ [s EXCEPT ![k] = x][k] = x
           /\ \A i \in 1..Len(s) : i # k => [s EXCEPT ![k] = x][i] = s[i]
OBVIOUS

(* Two hashes agree only if what they are made of does. *)
LEMMA HashIsIdeal ==
    ASSUME NEW h \in Hashes, NEW p \in Payloads
    PROVE  /\ Hash(h, p) \in Hashes /\ Len(Hash(h, p)) = Len(h) + 1
           /\ \A g \in Hashes, q \in Payloads : Hash(g, q) = Hash(h, p) => g = h /\ q = p
<1>1. Hash(h, p) \in Hashes /\ Len(Hash(h, p)) = Len(h) + 1
  BY DEF Hash, Hashes
<1>2. ASSUME NEW g \in Hashes, NEW q \in Payloads, Hash(g, q) = Hash(h, p)
      PROVE  g = h /\ q = p
  <2>1. Len(g) = Len(h) /\ Len(h) \in Nat
    BY <1>1, <1>2 DEF Hash, Hashes
  <2>2. q = p
    BY <1>2, <2>1 DEF Hash, Hashes
  <2>3. \A k \in 1..Len(h) : g[k] = h[k]
    BY <1>2, <2>1 DEF Hash, Hashes
  <2> QED BY <2>1, <2>2, <2>3 DEF Hashes
<1> QED BY <1>1, <1>2

LEMMA EventIsALine ==
    ASSUME NEW h \in Hashes, NEW p \in Payloads
    PROVE  /\ Event(h, p) \in Lines /\ Event(h, p) # Garbage
           /\ Event(h, p).previous_hash = h
           /\ Event(h, p).event_hash = Hash(h, Event(h, p).payload)
BY GarbageAssumption, HashIsIdeal DEF Event, Lines

(* A set of naturals has a least element: < is well-founded on Nat.        *)
LEMMA LessOnNat == \A x, y \in Nat : x < y => <<x, y>> \in OpToRel(<, Nat)
BY DEF OpToRel

LEMMA NatIsWellOrdered ==
    \E R : IsWellFoundedOn(R, Nat) /\ \A x, y \in Nat : x < y => <<x, y>> \in R
BY NatLessThanWellFounded, LessOnNat

LEMMA LeastNatural ==
    ASSUME NEW T, T \subseteq Nat, T # {}
    PROVE  \E n \in T : \A m \in T : n <= m
<1>1. PICK R : IsWellFoundedOn(R, Nat) /\ \A x, y \in Nat : x < y => <<x, y>> \in R
  BY NatIsWellOrdered
<1>2. IsWellFoundedOn(R, Nat)
  BY <1>1
<1>3. \E n \in T : \A m \in T : ~ (<<m, n>> \in R)
  BY <1>2, WFMin
<1>4. PICK n \in T : \A m \in T : ~ (<<m, n>> \in R)
  BY <1>3
<1>5. ASSUME NEW m \in T PROVE n <= m
  <2>1. n \in Nat /\ m \in Nat
    OBVIOUS
  <2>2. ~ (m < n)
    BY <1>1, <1>4, <2>1
  <2> QED BY <2>1, <2>2
<1> QED BY <1>5

(* In a whole chain the hash under line k is made of k - 1 payloads.       *)
LEMMA DepthOfHash ==
    ASSUME NEW file \in Seq(Lines \cup {Garbage}), Intact(file)
    PROVE  \A k \in 1..Len(file) : /\ file[k] \in Lines
                                   /\ Len(HashBefore(file, k)) = k - 1
<1>1. \A k \in 1..Len(file) :
         /\ file[k] \in Lines
         /\ file[k].previous_hash = HashBefore(file, k)
         /\ file[k].event_hash = Hash(file[k].previous_hash, file[k].payload)
  BY LengthOf DEF Intact
<1> DEFINE Wrong == {k \in 1..Len(file) : Len(HashBefore(file, k)) # k - 1}
<1>2. ASSUME Wrong # {} PROVE FALSE
  <2>1. Wrong \subseteq Nat
    OBVIOUS
  <2>2. \E k \in Wrong : \A m \in Wrong : k <= m
    BY <1>2, <2>1, LeastNatural
  <2>3. PICK k \in Wrong : \A m \in Wrong : k <= m
    BY <2>2
  <2>4. k # 1
    BY <2>3 DEF HashBefore, GENESIS
  <2>5. k - 1 \in 1..Len(file) /\ k - 1 \notin Wrong /\ k \in 1..Len(file)
    BY <2>3, <2>4
  <2>6. Len(HashBefore(file, k - 1)) = (k - 1) - 1
    BY <2>5
  <2>7. HashBefore(file, k) = file[k - 1].event_hash
    BY <2>4 DEF HashBefore
  <2>8. /\ file[k - 1] \in Lines /\ file[k - 1].previous_hash = HashBefore(file, k - 1)
        /\ file[k - 1].event_hash = Hash(file[k - 1].previous_hash, file[k - 1].payload)
    BY <1>1, <2>5
  <2>9. Len(file[k - 1].event_hash) = Len(file[k - 1].previous_hash) + 1
    BY <2>8, HashIsIdeal DEF Lines
  <2>10. Len(HashBefore(file, k)) = k - 1
    BY <2>5, <2>6, <2>7, <2>8, <2>9
  <2> QED BY <2>3, <2>10
<1> QED BY <1>1, <1>2

----------------------------------------------------------------------------
(* Preservation *)

LEMMA InitInv == Init => Inv
<1> SUFFICES ASSUME Init PROVE Inv
  OBVIOUS
<1>1. /\ lines = <<>> /\ Len(lines) = 0 /\ bare = FALSE
      /\ pc = [w \in Writers |-> "idle"] /\ tail = [w \in Writers |-> GENESIS]
      /\ body = [w \in Writers |-> Garbage]
      /\ acknowledged = 0 /\ cuts = 0 /\ edits = 0
  BY DEF Init
<1>2. GENESIS \in Hashes /\ lines \in Seq(Lines \cup {Garbage})
  BY <1>1 DEF GENESIS, Hashes
<1>3. TypeInv
  BY <1>1, <1>2 DEF TypeInv
<1>4. ChainOK /\ CountOK
  BY <1>1 DEF ChainOK, CountOK, Sealed, Intact
<1> QED BY <1>3, <1>4 DEF Inv

LEMMA RestTypes ==
    ASSUME TypeInv, NEW w \in Writers, Rest(w)
    PROVE  /\ pc' \in [Writers -> {"idle", "write"}]
           /\ tail' \in [Writers -> Hashes] /\ body' \in [Writers -> Payloads \cup {Garbage}]
           /\ \A u \in Writers : pc'[u] = "write" =>
                 u # w /\ pc[u] = "write" /\ body'[u] \in Payloads
           /\ \A u \in Writers : u # w => tail'[u] = tail[u] /\ body'[u] = body[u]
<1>1. GENESIS \in Hashes
  BY DEF GENESIS, Hashes
<1> QED BY <1>1 DEF Rest, TypeInv

(* Steps that leave the file, its damage and the writers' tails alone.     *)
LEMMA RestOK ==
    ASSUME Inv, NEW w \in Writers, Rest(w),
           UNCHANGED <<lines, bare, acknowledged, cuts, edits>>
    PROVE  Inv'
<1>1. /\ \A u \in Writers : pc'[u] = "write" => u # w /\ pc[u] = "write"
      /\ \A u \in Writers : u # w => tail'[u] = tail[u] /\ body'[u] = body[u]
  BY RestTypes DEF Inv
<1>2. TypeInv'
  BY RestTypes DEF Inv, TypeInv
<1>3. ChainOK' /\ CountOK'
  BY <1>1 DEF Inv, ChainOK, CountOK, Sealed, Intact, Forked, HashBefore
<1> QED BY <1>2, <1>3 DEF Inv

LEMMA ReadTailOK ==
    ASSUME Inv, NEW w \in Writers, NEW payload \in Payloads, ReadTail(w, payload)
    PROVE  Inv'
<1>1. /\ Readable(lines) /\ tail' = [tail EXCEPT ![w] = LastHash(lines)]
      /\ pc' = [pc EXCEPT ![w] = "write"] /\ body' = [body EXCEPT ![w] = payload]
      /\ UNCHANGED <<lines, bare, acknowledged, cuts, edits>>
  BY DEF ReadTail
<1>2. lines \in Seq(Lines \cup {Garbage}) /\ Len(lines) \in Nat
  BY DEF Inv, TypeInv
<1>3. /\ LastHash(lines) \in Hashes
      /\ LastHash(lines) = HashBefore(lines, Len(lines) + 1)
  <2>1. CASE lines = <<>>
    BY <2>1 DEF LastHash, HashBefore, Hashes, GENESIS
  <2>2. CASE lines # <<>>
    <3>1. Len(lines) > 0
      BY <1>2, <2>2
    <3>2. lines[Len(lines)] \in Lines
      BY <1>1, <1>2, <2>2, <3>1 DEF Readable
    <3> QED BY <1>2, <2>2, <3>1, <3>2 DEF LastHash, HashBefore, Lines
  <2> QED BY <2>1, <2>2
<1>4. TypeInv'
  BY <1>1, <1>3 DEF Inv, TypeInv
<1>5. ASSUME NEW u \in Writers, pc'[u] = "write", edits = 0, cuts = 0
      PROVE  \E i \in 1..(Len(lines) + 1) : tail'[u] = HashBefore(lines, i)
  <2>1. CASE u = w
    BY <1>1, <1>2, <1>3, <2>1 DEF Inv, TypeInv
  <2>2. CASE u # w
    BY <1>1, <1>5, <2>2 DEF Inv, TypeInv, ChainOK
  <2> QED BY <2>1, <2>2
<1>6. ChainOK'
  BY <1>1, <1>5 DEF Inv, ChainOK, Sealed, Intact, Forked, HashBefore
<1>7. CountOK'
  BY <1>1 DEF Inv, CountOK
<1> QED BY <1>4, <1>6, <1>7 DEF Inv

(* What an append does to the file, as long as no line was cut short.      *)
LEMMA Appended ==
    ASSUME NEW file \in Seq(Lines \cup {Garbage}), NEW line \in Lines \cup {Garbage},
           NEW k \in 1..(Len(file) + 1)
    PROVE  HashBefore(Append(file, line), k) = HashBefore(file, k)
<1>1. CASE k = 1
  BY <1>1 DEF HashBefore
<1>2. CASE k # 1
  <2>1. k - 1 \in 1..Len(file)
    BY <1>2
  <2>2. Append(file, line)[k - 1] = file[k - 1]
    BY <2>1, Extended
  <2> QED BY <1>2, <2>2 DEF HashBefore
<1> QED BY <1>1, <1>2

LEMMA WrittenTypes ==
    ASSUME Inv, NEW line \in Lines \cup {Garbage}, NEW new, new = Written(line)
    PROVE  new \in Seq(Lines \cup {Garbage}) /\ new # <<>>
<1>1. lines \in Seq(Lines \cup {Garbage}) /\ (bare => lines # <<>>)
  BY DEF Inv, TypeInv
<1>2. CASE bare
  <2>1. Len(lines) \in 1..Len(lines)
    BY <1>1, <1>2
  <2>2. new = [lines EXCEPT ![Len(lines)] = Garbage]
    BY <1>2 DEF Written
  <2>3. new \in Seq(Lines \cup {Garbage}) /\ Len(new) = Len(lines)
    BY <1>1, <2>1, <2>2, Replaced
  <2> QED BY <2>1, <2>3
<1>3. CASE ~bare
  <2>1. new = Append(lines, line)
    BY <1>3 DEF Written
  <2> QED BY <1>1, <2>1
<1> QED BY <1>2, <1>3

LEMMA WriteOK == ASSUME Inv, NEW w \in Writers, Write(w) PROVE Inv'
<1> DEFINE line == Event(tail[w], body[w])
<1>1. /\ pc[w] = "write" /\ lines' = Written(line) /\ bare' = FALSE /\ Rest(w)
      /\ acknowledged' = acknowledged + 1 /\ UNCHANGED <<cuts, edits>>
  BY DEF Write
<1>2. tail[w] \in Hashes /\ body[w] \in Payloads
  BY <1>1 DEF Inv, TypeInv
<1>3. /\ line \in Lines /\ line # Garbage /\ line.previous_hash = tail[w]
      /\ line.event_hash = Hash(line.previous_hash, line.payload)
  BY <1>2, EventIsALine
<1> HIDE DEF line
<1>4. /\ \A u \in Writers : pc'[u] = "write" => u # w /\ pc[u] = "write"
      /\ \A u \in Writers : u # w => tail'[u] = tail[u] /\ body'[u] = body[u]
  BY <1>1, RestTypes DEF Inv
<1>5. TypeInv'
  <2>1. lines' \in Seq(Lines \cup {Garbage})
    BY <1>1, <1>3, WrittenTypes
  <2>2. lines' # <<>>
    BY <1>1, <1>3, WrittenTypes
  <2>3. /\ pc' \in [Writers -> {"idle", "write"}]
        /\ tail' \in [Writers -> Hashes] /\ body' \in [Writers -> Payloads \cup {Garbage}]
        /\ \A u \in Writers : pc'[u] = "write" => body'[u] \in Payloads
    BY <1>1, RestTypes DEF Inv
  <2>4. acknowledged' = acknowledged + 1 /\ cuts' = cuts /\ edits' = edits /\ bare' = FALSE
    BY <1>1
  <2>5. acknowledged' \in Nat /\ cuts' \in Nat /\ edits' \in Nat
    BY <2>4 DEF Inv, TypeInv
  <2> QED BY <2>1, <2>2, <2>3, <2>4, <2>5 DEF TypeInv
<1>6. ASSUME cuts = 0
      PROVE  /\ lines' = Append(lines, line) /\ Len(lines) \in Nat
             /\ Len(lines') = Len(lines) + 1 /\ lines'[Len(lines) + 1] = line
             /\ \A k \in 1..Len(lines) : lines'[k] = lines[k]
             /\ \A k \in 1..(Len(lines) + 1) : HashBefore(lines', k) = HashBefore(lines, k)
  <2>1. ~bare /\ lines \in Seq(Lines \cup {Garbage}) /\ Len(lines) \in Nat
    BY <1>6 DEF Inv, CountOK, TypeInv
  <2>2. lines' = Append(lines, line)
    BY <1>1, <2>1 DEF Written
  <2>3. /\ Len(lines') = Len(lines) + 1 /\ lines'[Len(lines) + 1] = line
        /\ \A k \in 1..Len(lines) : lines'[k] = lines[k]
    BY <1>3, <2>1, <2>2, Extended
  <2>4. \A k \in 1..(Len(lines) + 1) : HashBefore(lines', k) = HashBefore(lines, k)
    BY <1>3, <2>1, <2>2, Appended
  <2> QED BY <2>1, <2>2, <2>3, <2>4
<1>7. CountOK'
  BY <1>1, <1>3, <1>6 DEF Inv, CountOK
<1>8. ASSUME edits = 0, cuts = 0
      PROVE  /\ Sealed(lines')
             /\ \A u \in Writers : pc'[u] = "write" =>
                   \E i \in 1..(Len(lines') + 1) : tail'[u] = HashBefore(lines', i)
             /\ Intact(lines') \/ Forked'
  <2> DEFINE n == Len(lines)
  <2>1. /\ Sealed(lines)
        /\ Intact(lines) \/ Forked
        /\ \A u \in Writers : pc[u] = "write" =>
              \E i \in 1..(n + 1) : tail[u] = HashBefore(lines, i)
    BY <1>8 DEF Inv, ChainOK
  <2>2. Sealed(lines')
    <3>1. ASSUME NEW k \in 1..Len(lines')
          PROVE  /\ lines'[k] # Garbage
                 /\ lines'[k].event_hash = Hash(lines'[k].previous_hash, lines'[k].payload)
      <4>1. CASE k = n + 1
        BY <1>3, <1>6, <1>8, <4>1
      <4>2. CASE k # n + 1
        <5>1. k \in 1..n /\ lines'[k] = lines[k]
          BY <1>6, <1>8, <4>2
        <5> QED BY <2>1, <5>1 DEF Sealed
      <4> QED BY <4>1, <4>2
    <3> QED BY <3>1 DEF Sealed
  <2>3. ASSUME NEW u \in Writers, pc'[u] = "write"
        PROVE  \E i \in 1..(Len(lines') + 1) : tail'[u] = HashBefore(lines', i)
    <3>1. PICK i \in 1..(n + 1) : tail[u] = HashBefore(lines, i)
      BY <1>4, <2>1, <2>3
    <3>2. tail'[u] = HashBefore(lines', i) /\ i \in 1..(Len(lines') + 1)
      BY <1>4, <1>6, <1>8, <2>3, <3>1
    <3> QED BY <3>2
  <2>4. CASE Forked
    <3>1. PICK j, k \in 1..n : j # k /\ lines[j].previous_hash = lines[k].previous_hash
      BY <2>4 DEF Forked
    <3>2. /\ j \in 1..Len(lines') /\ k \in 1..Len(lines') /\ j # k
          /\ lines'[j].previous_hash = lines'[k].previous_hash
      BY <1>6, <1>8, <3>1
    <3>3. Forked'
      BY <3>2 DEF Forked
    <3> QED BY <2>2, <2>3, <3>3
  <2>5. CASE Intact(lines)
    <3>1. PICK i \in 1..(n + 1) : tail[w] = HashBefore(lines, i)
      BY <1>1, <2>1
    <3>2. CASE i = n + 1
      <4>1. ASSUME NEW k \in 1..Len(lines')
            PROVE  lines'[k].previous_hash = HashBefore(lines', k)
        <5>1. CASE k = n + 1
          BY <1>3, <1>6, <1>8, <3>1, <3>2, <5>1
        <5>2. CASE k # n + 1
          BY <1>6, <1>8, <2>5, <5>2 DEF Intact
        <5> QED BY <5>1, <5>2
      <4>2. Intact(lines')
        BY <2>2, <4>1 DEF Intact, Sealed
      <4> QED BY <2>2, <2>3, <4>2
    <3>3. CASE i # n + 1
      <4>1. i \in 1..n
        BY <1>6, <1>8, <3>1, <3>3
      <4>2. lines[i].previous_hash = HashBefore(lines, i)
        BY <2>5, <4>1 DEF Intact
      <4>3. /\ i \in 1..Len(lines') /\ n + 1 \in 1..Len(lines') /\ i # n + 1
            /\ lines'[i].previous_hash = lines'[n + 1].previous_hash
        BY <1>3, <1>6, <1>8, <3>1, <4>1, <4>2
      <4>4. Forked'
        BY <4>3 DEF Forked
      <4> QED BY <2>2, <2>3, <4>4
    <3> QED BY <3>2, <3>3
  <2> QED BY <2>1, <2>4, <2>5
<1>9. ChainOK'
  BY <1>1, <1>8 DEF ChainOK
<1> QED BY <1>5, <1>7, <1>9 DEF Inv

LEMMA WriteCutShortOK == ASSUME Inv, NEW w \in Writers, WriteCutShort(w) PROVE Inv'
<1>1. /\ pc[w] = "write" /\ bare' = TRUE /\ Rest(w) /\ cuts' = cuts + 1
      /\ UNCHANGED <<acknowledged, edits>>
  BY DEF WriteCutShort
<1>2. tail[w] \in Hashes /\ body[w] \in Payloads
  BY <1>1 DEF Inv, TypeInv
<1>3. PICK line \in {Garbage, Event(tail[w], body[w])} : lines' = Written(line)
  BY DEF WriteCutShort
<1>4. lines' \in Seq(Lines \cup {Garbage}) /\ lines' # <<>>
  BY <1>2, <1>3, EventIsALine, WrittenTypes
<1>5. TypeInv'
  BY <1>1, <1>4, RestTypes DEF Inv, TypeInv
<1>6. cuts' # 0
  BY <1>1 DEF Inv, TypeInv
<1> QED BY <1>5, <1>6 DEF Inv, ChainOK, CountOK

(* Changes from outside that keep the number of lines and make no garbage. *)
LEMMA TamperingOK ==
    ASSUME Inv, edits' = edits + 1, UNCHANGED <<bare, pc, tail, body, acknowledged, cuts>>,
           lines' \in Seq(Lines \cup {Garbage}), Len(lines') = Len(lines),
           (\A i \in 1..Len(lines) : lines[i] # Garbage)
              => (\A i \in 1..Len(lines) : lines'[i] # Garbage)
    PROVE  Inv'
<1>1. edits' # 0 /\ (lines # <<>> => lines' # <<>>)
  BY DEF Inv, TypeInv
<1>2. TypeInv'
  BY <1>1 DEF Inv, TypeInv
<1>3. ChainOK' /\ CountOK'
  BY <1>1 DEF Inv, ChainOK, CountOK
<1> QED BY <1>2, <1>3 DEF Inv

LEMMA EditOK ==
    ASSUME Inv, NEW k \in 1..Len(lines), NEW payload \in Payloads, Edit(k, payload)
    PROVE  Inv'
<1>1. /\ lines[k] # Garbage /\ lines' = [lines EXCEPT ![k].payload = payload]
      /\ edits' = edits + 1 /\ UNCHANGED <<bare, pc, tail, body, acknowledged, cuts>>
  BY DEF Edit, Tampering, writers
<1>2. lines \in Seq(Lines \cup {Garbage}) /\ lines[k] \in Lines
  BY <1>1, LengthOf DEF Inv, TypeInv
<1>3. [lines[k] EXCEPT !.payload = payload] \in Lines
  BY <1>2 DEF Lines
<1>4. /\ lines' \in Seq(Lines \cup {Garbage}) /\ Len(lines') = Len(lines)
      /\ lines'[k] # Garbage
      /\ \A i \in 1..Len(lines) : i # k => lines'[i] = lines[i]
  BY <1>1, <1>2, <1>3, Replaced, GarbageAssumption
<1> QED BY <1>1, <1>4, TamperingOK

LEMMA SwapOK ==
    ASSUME Inv, NEW j \in 1..Len(lines), NEW k \in 1..Len(lines), Swap(j, k)
    PROVE  Inv'
<1>1. /\ lines[j] # lines[k] /\ lines' = [lines EXCEPT ![j] = lines[k], ![k] = lines[j]]
      /\ edits' = edits + 1 /\ UNCHANGED <<bare, pc, tail, body, acknowledged, cuts>>
  BY DEF Swap, Tampering, writers
<1>2. /\ lines \in Seq(Lines \cup {Garbage}) /\ lines[j] \in Lines \cup {Garbage}
      /\ lines[k] \in Lines \cup {Garbage}
  BY LengthOf DEF Inv, TypeInv
<1>3. /\ lines' \in Seq(Lines \cup {Garbage}) /\ Len(lines') = Len(lines)
      /\ \A i \in 1..Len(lines) : lines'[i] = IF i = k THEN lines[j]
                                              ELSE IF i = j THEN lines[k] ELSE lines[i]
  BY <1>1, <1>2
<1>4. (\A i \in 1..Len(lines) : lines[i] # Garbage)
         => (\A i \in 1..Len(lines) : lines'[i] # Garbage)
  BY <1>3
<1> QED BY <1>1, <1>3, <1>4, TamperingOK

LEMMA StepInv == Inv /\ [Next]_vars => Inv'
<1> SUFFICES ASSUME Inv, [Next]_vars PROVE Inv'
  OBVIOUS
<1>1. ASSUME NEW w \in Writers, NEW payload \in Payloads, ReadTail(w, payload) PROVE Inv'
  BY <1>1, ReadTailOK
<1>2. ASSUME NEW w \in Writers, Write(w) PROVE Inv'
  BY <1>2, WriteOK
<1>3. ASSUME NEW w \in Writers, WriteCutShort(w) PROVE Inv'
  BY <1>3, WriteCutShortOK
<1>4. ASSUME NEW w \in Writers, Abandon(w) PROVE Inv'
  BY <1>4, RestOK DEF Abandon
<1>5. ASSUME NEW k \in 1..Len(lines), NEW payload \in Payloads, Edit(k, payload) PROVE Inv'
  BY <1>5, EditOK
<1>6. ASSUME NEW j \in 1..Len(lines), NEW k \in 1..Len(lines), Swap(j, k) PROVE Inv'
  BY <1>6, SwapOK
<1>7. CASE UNCHANGED vars
  BY <1>7 DEF vars, writers, Inv, TypeInv, ChainOK, CountOK, Sealed, Intact, Forked,
              HashBefore
<1> QED BY <1>1, <1>2, <1>3, <1>4, <1>5, <1>6, <1>7 DEF Next

(* The invariant of the journal: its types, what an undamaged chain is     *)
(* made of, and the count of its lines.                                    *)
THEOREM JournalInv == Spec => []Inv
<1> QED BY InitInv, StepInv, PTL DEF Spec

----------------------------------------------------------------------------
(* What follows *)

(* In a file nobody damaged a failing check always shows two events built  *)
(* on the same one.                                                        *)
THEOREM AlarmMeansFork == Spec => []OnlyForksAlarm
<1>1. Inv => OnlyForksAlarm
  BY DEF Inv, ChainOK, Forked, OnlyForksAlarm
<1> QED BY <1>1, JournalInv, PTL

(* One line for every append that returned, as long as no write is cut.    *)
THEOREM AllIsKept == Spec => []NothingLost
<1>1. ASSUME Inv, cuts = 0
      PROVE  Cardinality({k \in 1..Len(lines) : lines[k] # Garbage}) = acknowledged
  <2>1. /\ acknowledged = Len(lines) /\ Len(lines) \in Nat
        /\ {k \in 1..Len(lines) : lines[k] # Garbage} = 1..Len(lines)
    BY <1>1 DEF Inv, CountOK, TypeInv
  <2>2. \A n \in Nat : Cardinality(1..n) = IF 1 > n THEN 0 ELSE n - 1 + 1
    BY FS_Interval
  <2>3. Cardinality(1..Len(lines)) = Len(lines)
    BY <2>1, <2>2
  <2> QED BY <2>1, <2>3
<1>2. Inv => NothingLost
  BY <1>1 DEF NothingLost
<1> QED BY <1>2, JournalInv, PTL

(* Rewriting an event of a whole chain, or exchanging two of its lines,    *)
(* breaks it.                                                              *)
LEMMA EditBreaks ==
    ASSUME Inv, Intact(lines), NEW k \in 1..Len(lines), NEW payload \in Payloads,
           Edit(k, payload)
    PROVE  ~Intact(lines')
<1>1. /\ lines[k] # Garbage /\ lines' = [lines EXCEPT ![k].payload = payload]
      /\ payload # lines[k].payload
  BY DEF Edit
<1>2. lines \in Seq(Lines \cup {Garbage}) /\ lines[k] \in Lines
  BY <1>1, LengthOf DEF Inv, TypeInv
<1>3. /\ Len(lines') = Len(lines) /\ lines'[k].payload = payload
      /\ lines'[k].previous_hash = lines[k].previous_hash
      /\ lines'[k].event_hash = lines[k].event_hash
  BY <1>1, <1>2 DEF Lines
<1>4. lines[k].event_hash = Hash(lines[k].previous_hash, lines[k].payload)
  BY DEF Intact
<1>5. Hash(lines[k].previous_hash, payload) # lines[k].event_hash
  BY <1>1, <1>2, <1>4, HashIsIdeal DEF Lines
<1> QED BY <1>3, <1>5 DEF Intact

LEMMA SwapBreaks ==
    ASSUME Inv, Intact(lines), NEW j \in 1..Len(lines), NEW k \in 1..Len(lines), j < k,
           NEW new, Len(new) = Len(lines), new[j] = lines[k],
           \A i \in 1..Len(lines) : i < j => new[i] = lines[i]
    PROVE  ~Intact(new)
<1>1. lines \in Seq(Lines \cup {Garbage}) /\ Len(lines) \in Nat
  BY DEF Inv, TypeInv
<1>2. /\ Len(HashBefore(lines, j)) = j - 1 /\ Len(HashBefore(lines, k)) = k - 1
      /\ lines[k].previous_hash = HashBefore(lines, k)
  BY <1>1, DepthOfHash DEF Intact
<1>3. HashBefore(new, j) = HashBefore(lines, j)
  <2>1. CASE j = 1
    BY <2>1 DEF HashBefore
  <2>2. CASE j # 1
    <3>1. j - 1 \in 1..Len(lines) /\ j - 1 < j
      BY <1>1, <2>2
    <3> QED BY <2>2, <3>1 DEF HashBefore
  <2> QED BY <2>1, <2>2
<1>4. new[j].previous_hash # HashBefore(new, j)
  BY <1>1, <1>2, <1>3
<1> QED BY <1>4 DEF Intact

(* Changing an event of a whole file, or exchanging two of its lines, is    *)
(* seen by the next verify, however the file came to be.                   *)
THEOREM TamperingIsSeen == Spec => TamperingShows
<1>1. ASSUME Inv, [Next]_vars, edits' # edits, Intact(lines) PROVE ~Intact(lines')
  <2>1. ASSUME NEW k \in 1..Len(lines), NEW payload \in Payloads, Edit(k, payload)
        PROVE  ~Intact(lines')
    BY <1>1, <2>1, EditBreaks
  <2>2. ASSUME NEW j \in 1..Len(lines), NEW k \in 1..Len(lines), Swap(j, k)
        PROVE  ~Intact(lines')
    <3>1. lines \in Seq(Lines \cup {Garbage})
      BY <1>1 DEF Inv, TypeInv
    <3>2. /\ lines[j] # lines[k] /\ Len(lines') = Len(lines)
          /\ \A i \in 1..Len(lines) : lines'[i] = IF i = k THEN lines[j]
                                                  ELSE IF i = j THEN lines[k] ELSE lines[i]
      BY <2>2, <3>1 DEF Swap
    <3>3. CASE j < k
      BY <1>1, <3>2, <3>3, SwapBreaks
    <3>4. CASE k < j
      BY <1>1, <3>2, <3>4, SwapBreaks
    <3>5. j # k
      BY <3>2
    <3> QED BY <3>3, <3>4, <3>5
  <2>3. ~(\E w \in Writers, payload \in Payloads : ReadTail(w, payload))
    BY <1>1 DEF ReadTail
  <2>4. ~(\E w \in Writers : Write(w) \/ WriteCutShort(w) \/ Abandon(w))
    BY <1>1 DEF Write, WriteCutShort, Abandon
  <2> QED BY <1>1, <2>1, <2>2, <2>3, <2>4 DEF Next, vars
<1>2. Inv /\ [Next]_vars => [edits' # edits /\ Intact(lines) => ~Intact(lines')]_vars
  BY <1>1
<1> QED BY <1>2, JournalInv, PTL DEF Spec, TamperingShows

(* What the appends add never makes a broken file whole.                   *)
LEMMA WritingKeepsDamage ==
    ASSUME Inv, ~Intact(lines), NEW line \in Lines \cup {Garbage}, NEW new,
           new = Written(line)
    PROVE  ~Intact(new)
<1>1. lines \in Seq(Lines \cup {Garbage}) /\ (bare => lines # <<>>) /\ Len(lines) \in Nat
  BY DEF Inv, TypeInv
<1>2. CASE bare
  <2>1. Len(lines) \in 1..Len(lines)
    BY <1>1, <1>2
  <2>2. Len(new) = Len(lines) /\ new[Len(lines)] = Garbage
    BY <1>1, <1>2, <2>1, Replaced DEF Written
  <2> QED BY <2>1, <2>2 DEF Intact
<1>3. CASE ~bare
  <2>1. new = Append(lines, line)
    BY <1>3 DEF Written
  <2>2. PICK k \in 1..Len(lines) :
           \/ lines[k] = Garbage
           \/ lines[k].previous_hash # HashBefore(lines, k)
           \/ lines[k].event_hash # Hash(lines[k].previous_hash, lines[k].payload)
    BY DEF Intact
  <2>3. k \in 1..(Len(lines) + 1)
    BY <1>1, <2>2
  <2>4. Len(new) = Len(lines) + 1 /\ new[k] = lines[k]
    BY <1>1, <2>1, Extended
  <2>5. HashBefore(new, k) = HashBefore(lines, k)
    BY <1>1, <2>1, <2>3, Appended
  <2> QED BY <2>2, <2>3, <2>4, <2>5 DEF Intact
<1> QED BY <1>2, <1>3

(* No append, whole or cut short, makes a damaged file verify again.       *)
THEOREM DamageIsKept == Spec => DamageStays
<1>1. ASSUME Inv, [Next]_vars, edits' = edits, ~Intact(lines) PROVE ~Intact(lines')
  <2>1. ASSUME NEW w \in Writers, Write(w) PROVE ~Intact(lines')
    <3>1. Event(tail[w], body[w]) \in Lines /\ lines' = Written(Event(tail[w], body[w]))
      BY <1>1, <2>1, EventIsALine DEF Write, Inv, TypeInv
    <3> QED BY <1>1, <3>1, WritingKeepsDamage
  <2>2. ASSUME NEW w \in Writers, WriteCutShort(w) PROVE ~Intact(lines')
    <3>1. Event(tail[w], body[w]) \in Lines
      BY <1>1, <2>2, EventIsALine DEF WriteCutShort, Inv, TypeInv
    <3>2. PICK line \in {Garbage, Event(tail[w], body[w])} : lines' = Written(line)
      BY <2>2 DEF WriteCutShort
    <3> QED BY <1>1, <3>1, <3>2, WritingKeepsDamage
  <2>3. ASSUME NEW w \in Writers, Abandon(w) \/ \E payload \in Payloads : ReadTail(w, payload)
        PROVE  lines' = lines
    BY <2>3 DEF Abandon, ReadTail
  <2>4. CASE UNCHANGED vars
    BY <1>1, <2>4 DEF vars
  <2>5. ~(\E k \in 1..Len(lines), payload \in Payloads : Edit(k, payload))
    BY <1>1 DEF Edit, Tampering, Inv, TypeInv
  <2>6. ~(\E j, k \in 1..Len(lines) : Swap(j, k))
    BY <1>1 DEF Swap, Tampering, Inv, TypeInv
  <2> QED BY <1>1, <2>1, <2>2, <2>3, <2>4, <2>5, <2>6 DEF Next
<1>2. Inv /\ [Next]_vars => [edits' = edits /\ ~Intact(lines) => ~Intact(lines')]_vars
  BY <1>1
<1> QED BY <1>2, JournalInv, PTL DEF Spec, DamageStays

----------------------------------------------------------------------------
(* One writer *)

(* The writer of a file that nobody damaged writes on its last line.       *)
SoloOK ==
    edits = 0 /\ cuts = 0 =>
        /\ Intact(lines)
        /\ \A w \in Writers : pc[w] = "write" => tail[w] = HashBefore(lines, Len(lines) + 1)

LEMMA SoloWrites ==
    ASSUME Inv, SoloOK, NEW w \in Writers, Write(w), edits = 0, cuts = 0
    PROVE  Intact(lines')
<1> DEFINE line == Event(tail[w], body[w])
           n == Len(lines)
<1>1. /\ pc[w] = "write" /\ lines' = Append(lines, line)
      /\ lines \in Seq(Lines \cup {Garbage}) /\ n \in Nat
  BY DEF Write, Written, Inv, TypeInv, CountOK
<1>2. /\ line \in Lines /\ line # Garbage
      /\ line.previous_hash = HashBefore(lines, n + 1)
      /\ line.event_hash = Hash(line.previous_hash, line.payload)
  BY <1>1, EventIsALine DEF Inv, TypeInv, SoloOK
<1> HIDE DEF line
<1>3. /\ Len(lines') = n + 1 /\ lines'[n + 1] = line
      /\ \A k \in 1..n : lines'[k] = lines[k]
      /\ \A k \in 1..(n + 1) : HashBefore(lines', k) = HashBefore(lines, k)
  BY <1>1, <1>2, Extended, Appended
<1>4. ASSUME NEW k \in 1..(n + 1)
      PROVE  /\ lines'[k] # Garbage
             /\ lines'[k].previous_hash = HashBefore(lines', k)
             /\ lines'[k].event_hash = Hash(lines'[k].previous_hash, lines'[k].payload)
  <2>1. CASE k = n + 1
    BY <1>2, <1>3, <2>1
  <2>2. CASE k # n + 1
    <3>1. k \in 1..n
      BY <1>1, <2>2
    <3> QED BY <1>3, <3>1 DEF SoloOK, Intact
  <2> QED BY <2>1, <2>2
<1> QED BY <1>3, <1>4 DEF Intact

LEMMA NextSolo ==
    ASSUME \A w, v \in Writers : w = v
    PROVE  Inv /\ SoloOK /\ [Next]_vars => SoloOK'
<1> SUFFICES ASSUME Inv, SoloOK, [Next]_vars, edits' = 0, cuts' = 0
             PROVE  /\ Intact(lines')
                    /\ \A w \in Writers : pc'[w] = "write" =>
                          tail'[w] = HashBefore(lines', Len(lines') + 1)
  BY DEF SoloOK
<1>1. edits \in Nat /\ cuts \in Nat
  BY DEF Inv, TypeInv
<1>2. CASE \E w \in Writers, payload \in Payloads : ReadTail(w, payload)
  <2>1. PICK w \in Writers, payload \in Payloads : ReadTail(w, payload)
    BY <1>2
  <2>2. UNCHANGED <<lines, edits, cuts>> /\ tail'[w] = LastHash(lines) /\ Writers = {w}
    BY <2>1 DEF ReadTail, Inv, TypeInv
  <2>3. LastHash(lines) = HashBefore(lines, Len(lines) + 1)
    <3>1. CASE lines = <<>>
      BY <3>1 DEF LastHash, HashBefore
    <3>2. CASE lines # <<>>
      <4>1. Len(lines) \in Nat /\ Len(lines) > 0
        BY <3>2, LengthOf DEF Inv, TypeInv
      <4> QED BY <3>2, <4>1 DEF LastHash, HashBefore
    <3> QED BY <3>1, <3>2
  <2> QED BY <2>2, <2>3 DEF SoloOK
<1>3. CASE \E w \in Writers : Write(w)
  <2>1. PICK w \in Writers : Write(w)
    BY <1>3
  <2>2. /\ edits = 0 /\ cuts = 0 /\ \A v \in Writers : pc'[v] # "write"
    BY <2>1 DEF Write, Rest, Inv, TypeInv
  <2> QED BY <2>1, <2>2, SoloWrites
<1>4. CASE \E w \in Writers : Abandon(w)
  <2>1. UNCHANGED <<lines, edits, cuts>> /\ \A v \in Writers : pc'[v] # "write"
    BY <1>4 DEF Abandon, Rest, Inv, TypeInv
  <2> QED BY <2>1 DEF SoloOK
<1>5. ~(\E w \in Writers : WriteCutShort(w))
  BY <1>1 DEF WriteCutShort
<1>6. /\ ~(\E k \in 1..Len(lines), payload \in Payloads : Edit(k, payload))
      /\ ~(\E j, k \in 1..Len(lines) : Swap(j, k))
  BY <1>1 DEF Edit, Swap, Tampering
<1>7. CASE UNCHANGED vars
  BY <1>7 DEF vars, writers, SoloOK
<1> QED BY <1>2, <1>3, <1>4, <1>5, <1>6, <1>7 DEF Next

(* A single writer never raises a false alarm: the assertion of            *)
(* test_audit.py, which racing writers violate, holds of the use that the  *)
(* tests make of the journal, over any number of appends, failed ones too. *)
THEOREM SoloNeverAlarms ==
    ASSUME \A w, v \in Writers : w = v
    PROVE  Spec => []NoFalseAlarm
<1>1. Init => SoloOK
  BY DEF Init, SoloOK, Intact
<1>2. SoloOK => NoFalseAlarm
  BY DEF SoloOK, NoFalseAlarm
<1> QED BY <1>1, <1>2, JournalInv, NextSolo, PTL DEF Spec

=============================================================================
