------------------------ MODULE CachedVerifierProofs -------------------------
(***************************************************************************)
(* Theorems about CachedVerifier and the RewriteCache it composes, for     *)
(* every number of workers, pairs and keys, every capacity and every set   *)
(* of places where an append may be cut short.                             *)
(*                                                                         *)
(* The key notion is what a file says firmly: what it will still say when  *)
(* its last line, if torn, is continued by the next append.  Only a line   *)
(* cut inside its timestamp is read and yet not firm.                      *)
(***************************************************************************)
EXTENDS CachedVerifier, FiniteSetTheorems, SequenceTheorems, TLAPS

Frag == [key : AllKeys, status : Statuses, cut : Cuts \cup {"none"}]

\* parse_line() of a line that will be continued, for the keys of pairs.
Firm(line) ==
  IF line[1].cut \in {"none", "message"} THEN Entry(line[1].key, line[1].status)
  ELSE NoEntry

\* The status of the last line that is read as an entry of k.
ReadLast(lines, k) ==
  LET at == {n \in DOMAIN lines : lines[n].key = k}
  IN  IF at = {} THEN Absent ELSE lines[Max(at)].status

FirmLines(f)   == [n \in DOMAIN f |-> Firm(f[n])]
ParsedLines(f) == [n \in DOMAIN f |-> Parse(f[n])]
FirmLoad(f, k) == ReadLast(FirmLines(f), k)

\* Where lines and fragments may be cut; nothing follows a whole fragment.
WellFormed(f) ==
  /\ f \in Seq(Seq(Frag))
  /\ \A n \in DOMAIN f :
       /\ f[n] # <<>>
       /\ \A m \in DOMAIN f[n] : f[n][m].cut = "none" => m = Len(f[n])
       /\ n < Len(f) => Last(f[n]).cut = "none"

CacheType == CacheTypeOK /\ WellFormed(file)

\* A pair answered in this process has a verdict on record.
SessionAnswered ==
  /\ stream = "closed" => session = {}
  /\ \A k \in session : last[k] # Absent

\* All that is read under the key of a pair was put there for it.
OnlyOffered ==
  /\ \A n \in DOMAIN file : \A m \in DOMAIN file[n] :
       file[n][m].key \in Keys => Entry(file[n][m].key, file[n][m].status) \in offered
  /\ \A k \in Keys : index[k] # Absent => Entry(k, index[k]) \in offered

\* For a durable verdict file and memory say what was put, or what the file
\* says firmly, so that continuing or rewriting a line loses nothing more.
LossSettled ==
  \A k \in durable :
    /\ Load(file)[k] \in {last[k], FirmLoad(file, k)}
    /\ stream # "closed" => index[k] \in {last[k], FirmLoad(file, k)}

\* The verdicts lost, or lost as soon as the torn line is continued.
FirmlyLost == {k \in durable : FirmLoad(file, k) # last[k]}

\* A tear whose line was continued has cost at most one verdict; one whose
\* line is still the last has cost none yet.
LossCounted ==
  Cardinality(FirmlyLost) + (IF Torn(file) THEN 1 ELSE 0) <= tears

CacheInv == CacheType /\ HitIsLatest /\ SessionAnswered /\ OnlyOffered
            /\ LossSettled /\ LossCounted

-----------------------------------------------------------------------------
(* The last line that is read as an entry of a key *)

LEMMA HasMax ==
  ASSUME NEW b \in Nat, NEW T, T \subseteq 1..b, T # {}
  PROVE  Max(T) \in T /\ \A x \in T : x <= Max(T)
<1> DEFINE Gaps == {b - x : x \in T}
<1>1. Gaps \subseteq Nat /\ Gaps # {}
  <2>1. \A x \in T : x \in Nat /\ x <= b
    OBVIOUS
  <2>2. \A x \in T : b - x \in Nat
    BY <2>1
  <2>3. QED
    BY <2>2
<1>2. PICK g \in Gaps : \A h \in Gaps : <<h, g>> \notin OpToRel(<, Nat)
  BY <1>1, NatLessThanWellFounded, WFMin
<1>3. \A h \in Gaps : ~(h < g)
  BY <1>1, <1>2 DEF OpToRel
<1>4. PICK m \in T : g = b - m
  OBVIOUS
<1>5. \A x \in T : m >= x
  <2> SUFFICES ASSUME NEW x \in T PROVE m >= x
    OBVIOUS
  <2>1. b - x \in Gaps
    OBVIOUS
  <2>2. ~(b - x < b - m)
    BY <1>3, <1>4, <2>1
  <2>3. QED
    BY <2>2
<1>6. \E x \in T : \A y \in T : x >= y
  BY <1>4, <1>5
<1>7. Max(T) \in T /\ \A y \in T : Max(T) >= y
  BY <1>6 DEF Max
<1>8. QED
  BY <1>7

LEMMA ReadAtEnd ==
  ASSUME NEW b \in Nat, b > 0, NEW q, DOMAIN q = 1..b, NEW k, q[b].key = k
  PROVE  ReadLast(q, k) = q[b].status
<1> DEFINE at == {n \in DOMAIN q : q[n].key = k}
<1>1. b \in at /\ at \subseteq 1..b
  OBVIOUS
<1>2. Max(at) \in at /\ b <= Max(at)
  BY <1>1, HasMax
<1>3. Max(at) = b
  BY <1>1, <1>2
<1>4. QED
  BY <1>1, <1>3 DEF ReadLast

\* What is read under a key changes only to the status of a line that was not
\* read under it before; q may be longer than p.
LEMMA ReadChange ==
  ASSUME NEW a \in Nat, NEW b \in Nat, a <= b,
         NEW p, DOMAIN p = 1..a, NEW q, DOMAIN q = 1..b, NEW k,
         \A n \in 1..a : p[n].key = k => q[n] = p[n]
  PROVE  \/ ReadLast(q, k) = ReadLast(p, k)
         \/ \E n \in 1..b : /\ q[n].key = k /\ ReadLast(q, k) = q[n].status
                            /\ n <= a => p[n].key # k
<1> DEFINE P == {n \in DOMAIN p : p[n].key = k}
           Q == {n \in DOMAIN q : q[n].key = k}
<1>1. P \subseteq Q /\ P \subseteq 1..a /\ Q \subseteq 1..b
  OBVIOUS
<1>2. CASE Q = {}
  BY <1>1, <1>2 DEF ReadLast
<1>3. CASE Q # {} /\ Max(Q) \in P
  <2>1. Max(Q) \in Q /\ \A x \in Q : x <= Max(Q)
    BY <1>1, <1>3, HasMax
  <2>2. Max(P) \in P /\ \A x \in P : x <= Max(P)
    BY <1>1, <1>3, HasMax
  <2>3. Max(P) = Max(Q)
    <3>1. Max(Q) <= Max(P) /\ Max(P) <= Max(Q)
      BY <1>1, <1>3, <2>1, <2>2
    <3>2. Max(P) \in Nat /\ Max(Q) \in Nat
      BY <1>1, <2>1, <2>2
    <3>3. QED
      BY <3>1, <3>2
  <2>4. q[Max(Q)] = p[Max(P)]
    BY <1>3, <2>3
  <2>5. QED
    BY <1>3, <2>2, <2>4 DEF ReadLast
<1>4. CASE Q # {} /\ Max(Q) \notin P
  <2>1. Max(Q) \in Q
    BY <1>1, <1>4, HasMax
  <2>2. ReadLast(q, k) = q[Max(Q)].status
    BY <1>4 DEF ReadLast
  <2>3. Max(Q) \in 1..b /\ q[Max(Q)].key = k
    BY <1>1, <2>1
  <2>4. Max(Q) <= a => p[Max(Q)].key # k
    BY <1>4, <2>3
  <2>5. QED
    BY <2>2, <2>3, <2>4
<1>5. QED
  BY <1>2, <1>3, <1>4

\* What is read is the status of some line of the key.
LEMMA ReadSome ==
  ASSUME NEW b \in Nat, NEW q, DOMAIN q = 1..b, NEW k, ReadLast(q, k) # Absent
  PROVE  \E n \in 1..b : q[n].key = k /\ ReadLast(q, k) = q[n].status
<1> DEFINE at == {n \in DOMAIN q : q[n].key = k}
<1>1. at # {} /\ at \subseteq 1..b
  BY DEF ReadLast
<1>2. Max(at) \in at
  BY <1>1, HasMax
<1>3. QED
  BY <1>1, <1>2 DEF ReadLast

-----------------------------------------------------------------------------
(* Lines *)

LEMMA LineFacts ==
  ASSUME NEW line \in Seq(Frag), line # <<>>
  PROVE  /\ Len(line) \in Nat \ {0} /\ DOMAIN line = 1..Len(line)
         /\ \A m \in 1..Len(line) : line[m] \in Frag
         /\ line[1] \in Frag
<1>1. Len(line) \in Nat \ {0} /\ DOMAIN line = 1..Len(line)
  BY EmptySeq, LenProperties
<1>2. \A m \in 1..Len(line) : line[m] \in Frag
  BY ElementOfSeq
<1>3. QED
  BY <1>1, <1>2

\* A line is read under the key of a pair only by its first fragment.
LEMMA ParseFacts ==
  ASSUME NEW line \in Seq(Frag), line # <<>>, NEW k \in Keys
  PROVE  /\ Parse(line).key = k <=>
              /\ line[1].key = k
              /\ \/ line[1].cut \in {"none", "message"}
                 \/ line[1].cut = "stamp" /\ Len(line) = 1
         /\ Parse(line).key = k => Parse(line) = Entry(k, line[1].status)
<1> USE LineFacts, CacheAssumption
<1>1. k # Mangled /\ k # Absent
  BY DEF AllKeys
<1>2. CASE line[1].cut = "lhs"
  <2>1. Parse(line).key \in {Mangled, Absent}
    BY <1>2 DEF Parse, NoEntry, Entry
  <2>2. QED
    BY <1>1, <1>2, <2>1
<1>3. CASE line[1].cut # "lhs"
  BY <1>1, <1>3 DEF Parse, NoEntry, Entry
<1>4. QED
  BY <1>2, <1>3

LEMMA FirmFacts ==
  ASSUME NEW line, NEW k \in Keys
  PROVE  /\ Firm(line).key = k <=> line[1].key = k /\ line[1].cut \in {"none", "message"}
         /\ Firm(line).key = k => Firm(line) = Entry(k, line[1].status)
<1>1. k # Absent
  BY CacheAssumption DEF AllKeys
<1>2. QED
  BY <1>1 DEF Firm, NoEntry, Entry

LEMMA FirmIsParsed ==
  ASSUME NEW line \in Seq(Frag), line # <<>>, NEW k \in Keys
  PROVE  /\ Firm(line).key = k => Parse(line) = Firm(line)
         /\ Parse(line).key = k =>
              \/ Firm(line) = Parse(line)
              \/ line[1].cut = "stamp" /\ Len(line) = 1
BY ParseFacts, FirmFacts

\* The lines of a file, and their number.
LEMMA FileFacts ==
  ASSUME NEW f, WellFormed(f)
  PROVE  /\ Len(f) \in Nat /\ DOMAIN f = 1..Len(f)
         /\ f # <<>> => Len(f) \in DOMAIN f
         /\ \A n \in DOMAIN f : /\ f[n] \in Seq(Frag) /\ f[n] # <<>>
                                /\ Len(f[n]) \in Nat \ {0} /\ f[n][1] \in Frag
                                /\ DOMAIN f[n] = 1..Len(f[n])
<1>1. f \in Seq(Seq(Frag))
  BY DEF WellFormed
<1>2. Len(f) \in Nat /\ DOMAIN f = 1..Len(f) /\ (f # <<>> => Len(f) # 0)
  BY <1>1, EmptySeq, LenProperties
<1>3. \A n \in DOMAIN f : f[n] \in Seq(Frag) /\ f[n] # <<>>
  BY <1>1, <1>2, ElementOfSeq DEF WellFormed
<1>4. QED
  BY <1>2, <1>3, LineFacts

\* Only a torn last line is read and not firm.
LEMMA LoadIsFirm ==
  ASSUME NEW f, WellFormed(f), NEW k \in Keys
  PROVE  /\ ~Torn(f) => Load(f)[k] = FirmLoad(f, k)
         /\ \/ Load(f)[k] = FirmLoad(f, k)
            \/ /\ f # <<>> /\ Len(Last(f)) = 1
               /\ Last(f)[1].key = k /\ Load(f)[k] = Last(f)[1].status
<1> DEFINE p == FirmLines(f)
           q == ParsedLines(f)
<1>0. /\ Len(f) \in Nat /\ DOMAIN f = 1..Len(f) /\ (f # <<>> => Len(f) \in DOMAIN f)
      /\ \A n \in 1..Len(f) : f[n] \in Seq(Frag) /\ f[n] # <<>>
      /\ FirmLoad(f, k) = ReadLast(p, k)
  BY FileFacts DEF FirmLoad
<1> USE <1>0
<1>1. Load(f)[k] = ReadLast(q, k)
  <2>1. {n \in DOMAIN q : q[n].key = k} = {n \in DOMAIN f : Parse(f[n]).key = k}
    BY DEF ParsedLines
  <2> DEFINE at == {n \in DOMAIN f : Parse(f[n]).key = k}
  <2>2. Load(f)[k] = IF at = {} THEN Absent ELSE Parse(f[Max(at)]).status
    BY DEF Load, AllKeys
  <2>3. ReadLast(q, k) = IF at = {} THEN Absent ELSE q[Max(at)].status
    BY <2>1 DEF ReadLast
  <2>4. CASE at = {}
    BY <2>2, <2>3, <2>4
  <2>5. CASE at # {}
    <3>1. Max(at) \in at
      <4>1. at \subseteq 1..Len(f)
        OBVIOUS
      <4>2. QED
        BY <2>5, <4>1, HasMax
    <3>2. q[Max(at)] = Parse(f[Max(at)])
      BY <3>1 DEF ParsedLines
    <3>3. QED
      BY <2>2, <2>3, <2>5, <3>2
  <2>6. QED
    BY <2>4, <2>5
<1>2. DOMAIN p = 1..Len(f) /\ DOMAIN q = 1..Len(f)
  BY DEF FirmLines, ParsedLines
<1>3. \A n \in 1..Len(f) : p[n] = Firm(f[n]) /\ q[n] = Parse(f[n])
  BY DEF FirmLines, ParsedLines
<1>4. \A n \in 1..Len(f) : p[n].key = k => q[n] = p[n]
  BY <1>3, FirmIsParsed
<1> HIDE DEF p, q
<1>5. \/ ReadLast(q, k) = ReadLast(p, k)
      \/ \E n \in 1..Len(f) : q[n].key = k /\ ReadLast(q, k) = q[n].status /\ p[n].key # k
  BY <1>2, <1>4, ReadChange
<1>6. ASSUME NEW n \in 1..Len(f), q[n].key = k, p[n].key # k
      PROVE  /\ n = Len(f) /\ Torn(f) /\ f # <<>>
             /\ Last(f) = f[n] /\ Len(f[n]) = 1 /\ f[n][1].key = k /\ q[n].status = f[n][1].status
  <2>1. f[n][1].cut = "stamp" /\ Len(f[n]) = 1
    BY <1>3, <1>6, FirmIsParsed
  <2>2. Last(f[n]).cut = "stamp"
    BY <2>1 DEF Last
  <2>3. n = Len(f)
    BY <2>2 DEF WellFormed
  <2>4. Parse(f[n]) = Entry(k, f[n][1].status) /\ f[n][1].key = k
    BY <1>3, <1>6, ParseFacts
  <2>5. f # <<>>
    OBVIOUS
  <2>6. Last(f) = f[n]
    BY <2>3 DEF Last
  <2>7. Torn(f)
    BY <2>2, <2>5, <2>6 DEF Torn
  <2>8. q[n].status = f[n][1].status
    BY <1>3, <2>4 DEF Entry
  <2>9. QED
    BY <2>1, <2>3, <2>4, <2>5, <2>6, <2>7, <2>8
<1>7. QED
  BY <1>1, <1>5, <1>6


-----------------------------------------------------------------------------
(* Appending *)

\* What an append of the fragments of es, of which the first may continue a
\* torn line, does to what the file says.
Extends(f, g, es) ==
  /\ WellFormed(g)
  /\ \A n \in DOMAIN g : \A m \in DOMAIN g[n] :
       \/ n \in DOMAIN f /\ m \in DOMAIN f[n] /\ g[n][m] = f[n][m]
       \/ g[n][m] \in es
  /\ \A k \in Keys :
       \/ FirmLoad(g, k) = FirmLoad(f, k)
       \/ \E e \in es : e.key = k /\ FirmLoad(g, k) = e.status
  /\ \A k \in Keys :
       \/ Load(g)[k] = FirmLoad(g, k)
       \/ Torn(g) /\ \E e \in es : e.key = k /\ Load(g)[k] = e.status

LEMMA AppendOne ==
  ASSUME NEW f, WellFormed(f), NEW fr \in Frag
  PROVE  /\ Extends(f, AppendTo(f, fr), {fr})
         /\ Torn(AppendTo(f, fr)) <=> fr.cut # "none"
         /\ ~Torn(f) /\ fr.cut = "none" /\ fr.key \in Keys
              => FirmLoad(AppendTo(f, fr), fr.key) = fr.status
         /\ Len(AppendTo(f, fr)) \in {Len(f), Len(f) + 1}
         /\ AppendTo(f, fr) # <<>>
<1> DEFINE g == AppendTo(f, fr)
           a == Len(f)
           b == Len(g)
<1>0. /\ a \in Nat /\ DOMAIN f = 1..a /\ f \in Seq(Seq(Frag))
      /\ \A n \in 1..a : f[n] \in Seq(Frag) /\ f[n] # <<>>
      /\ \A n \in 1..a : Len(f[n]) \in Nat \ {0} /\ DOMAIN f[n] = 1..Len(f[n])
      /\ \A n \in 1..a : n < a => Last(f[n]).cut = "none"
      /\ \A n \in 1..a : \A m \in DOMAIN f[n] : f[n][m].cut = "none" => m = Len(f[n])
  <2>1. a \in Nat /\ DOMAIN f = 1..a /\ f \in Seq(Seq(Frag))
    BY FileFacts DEF WellFormed
  <2>2. \A n \in 1..a : /\ f[n] \in Seq(Frag) /\ f[n] # <<>>
                       /\ Len(f[n]) \in Nat \ {0} /\ DOMAIN f[n] = 1..Len(f[n])
    BY <2>1, FileFacts
  <2>3. \A n \in 1..a : n < a => Last(f[n]).cut = "none"
    BY <2>1 DEF WellFormed
  <2>4. \A n \in 1..a : \A m \in DOMAIN f[n] : f[n][m].cut = "none" => m = Len(f[n])
    BY <2>1 DEF WellFormed
  <2>5. QED
    BY <2>1, <2>2, <2>3, <2>4
\* The shape of the new file.
<1>1. CASE ~Torn(f)
  <2>1. g = Append(f, <<fr>>)
    BY <1>1 DEF AppendTo
  <2>2. <<fr>> \in Seq(Frag) /\ Len(<<fr>>) = 1 /\ <<fr>>[1] = fr /\ DOMAIN <<fr>> = 1..1
       /\ <<fr>> # <<>>
    OBVIOUS
  <2>3. /\ g \in Seq(Seq(Frag)) /\ b = a + 1 /\ DOMAIN g = 1..b
        /\ \A n \in 1..a : g[n] = f[n]
        /\ g[b] = <<fr>>
        /\ b \in 1..b /\ \A n \in 1..b : n = b \/ n \in 1..a
    BY <1>0, <2>1, <2>2, AppendProperties, LenProperties
  <2>4. \A n \in 1..a : Last(f[n]).cut = "none"
    <3>1. CASE a = 0
      BY <3>1
    <3>2. CASE a # 0
      <4>1. f # <<>> /\ Last(f) = f[a]
        BY <1>0, <3>2 DEF Last
      <4>2. Last(f[a]).cut = "none"
        BY <1>1, <4>1 DEF Torn
      <4>3. \A n \in 1..a : n < a \/ n = a
        <5>1. \A i \in Nat : \A n \in 1..i : n < i \/ n = i
          OBVIOUS
        <5>2. a \in Nat
          BY <1>0
        <5>3. QED
          BY <5>1, <5>2
      <4>4. QED
        BY <1>0, <4>2, <4>3
    <3>3. QED
      BY <3>1, <3>2
  <2> HIDE DEF g, a, b
  <2>5. WellFormed(g)
    <3>1. ASSUME NEW n \in 1..b
          PROVE  /\ g[n] # <<>>
                 /\ \A m \in DOMAIN g[n] : g[n][m].cut = "none" => m = Len(g[n])
                 /\ n < b => Last(g[n]).cut = "none"
      <4>1. CASE n = b
        <5>1. g[n] = <<fr>>
          BY <2>3, <4>1
        <5>2. \A m \in 1..1 : m = 1
          OBVIOUS
        <5>3. ~(b < b)
          BY <1>0, <2>3
        <5>4. QED
          BY <2>2, <4>1, <5>1, <5>2, <5>3
      <4>2. CASE n # b
        <5>1. n \in 1..a /\ g[n] = f[n]
          BY <2>3, <4>2
        <5>2. QED
          BY <1>0, <2>4, <5>1
      <4>3. QED
        BY <4>1, <4>2
    <3>2. g \in Seq(Seq(Frag)) /\ DOMAIN g = 1..b /\ b = Len(g)
      BY <2>3 DEF b
    <3>3. QED
      BY <3>1, <3>2, Zenon DEF WellFormed
  <2>6. \A n \in DOMAIN g : \A m \in DOMAIN g[n] :
          \/ n \in DOMAIN f /\ m \in DOMAIN f[n] /\ g[n][m] = f[n][m]
          \/ g[n][m] \in {fr}
    <3> SUFFICES ASSUME NEW n \in DOMAIN g, NEW m \in DOMAIN g[n]
                 PROVE  \/ n \in DOMAIN f /\ m \in DOMAIN f[n] /\ g[n][m] = f[n][m]
                        \/ g[n][m] \in {fr}
      OBVIOUS
    <3>1. CASE n = b
      BY <2>2, <2>3, <3>1
    <3>2. CASE n # b
      BY <1>0, <2>3, <3>2
    <3>3. QED
      BY <3>1, <3>2
  <2>7. Torn(g) <=> fr.cut # "none"
    <3>1. g # <<>> /\ Last(g) = <<fr>>
      BY <1>0, <2>3 DEF Last, b
    <3>2. Last(<<fr>>) = fr
      BY <2>2 DEF Last
    <3>3. QED
      BY <3>1, <3>2 DEF Torn
  <2> DEFINE p == FirmLines(f)
             q == FirmLines(g)
             r == ParsedLines(g)
  <2>8. /\ DOMAIN p = 1..a /\ DOMAIN q = 1..b
        /\ \A n \in 1..a : p[n] = Firm(f[n]) /\ q[n] = p[n]
        /\ q[b] = Firm(<<fr>>)
    <3>1. DOMAIN p = 1..a /\ DOMAIN q = 1..b
      BY <1>0, <2>3 DEF FirmLines
    <3>2. \A n \in 1..b : q[n] = Firm(g[n])
      BY <2>3 DEF FirmLines
    <3>3. \A n \in 1..a : p[n] = Firm(f[n])
      BY <1>0 DEF FirmLines
    <3>4. \A n \in 1..a : n \in 1..b
      BY <1>0, <2>3
    <3> HIDE DEF p, q
    <3>5. \A n \in 1..a : q[n] = p[n]
      BY <2>3, <3>2, <3>3, <3>4
    <3>6. q[b] = Firm(<<fr>>)
      BY <2>3, <3>2
    <3>7. QED
      BY <3>1, <3>3, <3>5, <3>6
  <2>9. ASSUME NEW k \in Keys
        PROVE  \/ FirmLoad(g, k) = FirmLoad(f, k)
               \/ \E e \in {fr} : e.key = k /\ FirmLoad(g, k) = e.status
    <3> HIDE DEF p, q
    <3>1. \/ ReadLast(q, k) = ReadLast(p, k)
          \/ \E n \in 1..b : /\ q[n].key = k /\ ReadLast(q, k) = q[n].status
                             /\ n <= a => p[n].key # k
      <4>1. a \in Nat /\ b \in Nat /\ a <= b
        BY <1>0, <2>3
      <4>2. DOMAIN p = 1..a /\ DOMAIN q = 1..b
        BY <2>8
      <4>3. \A n \in 1..a : p[n].key = k => q[n] = p[n]
        BY <2>8
      <4> QED
        BY <4>1, <4>2, <4>3, ReadChange
    <3>2. ASSUME NEW n \in 1..b, q[n].key = k, n <= a => p[n].key # k
          PROVE  fr.key = k /\ q[n].status = fr.status
      <4>1. n = b
        BY <1>0, <2>3, <2>8, <3>2
      <4>2. Firm(<<fr>>).key = k
        BY <2>8, <3>2, <4>1
      <4>3. <<fr>>[1].key = k /\ Firm(<<fr>>) = Entry(k, <<fr>>[1].status)
        BY <4>2, FirmFacts
      <4>4. QED
        BY <2>2, <2>8, <4>1, <4>3 DEF Entry
    <3>3. QED
      BY <3>1, <3>2 DEF FirmLoad, p, q
  <2>10. ASSUME NEW k \in Keys
         PROVE  \/ Load(g)[k] = FirmLoad(g, k)
                \/ Torn(g) /\ \E e \in {fr} : e.key = k /\ Load(g)[k] = e.status
    <3>1. Last(g) = <<fr>>
      BY <1>0, <2>3 DEF Last, b
    <3>2. QED
      BY <2>2, <2>5, <3>1, LoadIsFirm
  <2>11. ASSUME fr.cut = "none", fr.key \in Keys
         PROVE  FirmLoad(g, fr.key) = fr.status
    <3>1. Firm(<<fr>>) = Entry(fr.key, fr.status)
      BY <2>2, <2>11 DEF Firm
    <3>2. q[b].key = fr.key /\ q[b].status = fr.status
      BY <2>8, <3>1 DEF Entry
    <3> HIDE DEF p, q
    <3>3. ReadLast(q, fr.key) = q[b].status
      <4>1. b \in Nat /\ b > 0
        BY <1>0, <2>3
      <4>2. DOMAIN q = 1..b
        BY <2>8
      <4> QED
        BY <3>2, <4>1, <4>2, ReadAtEnd
    <3>4. QED
      BY <3>2, <3>3 DEF FirmLoad, q
  <2>12. Extends(f, g, {fr})
    BY <2>5, <2>6, <2>9, <2>10 DEF Extends
  <2>13. g # <<>>
    BY <1>0, <2>3
  <2>14. QED
    BY <2>3, <2>7, <2>11, <2>12, <2>13 DEF g, a, b
<1>2. CASE Torn(f)
  <2> DEFINE old == f[a]
             line == Append(old, fr)
  <2>1. /\ a # 0 /\ Last(f) = old /\ Last(old).cut # "none"
        /\ f # <<>>
    BY <1>0, <1>2 DEF Torn, Last
  <2>2. /\ old \in Seq(Frag) /\ old # <<>> /\ Len(old) \in Nat \ {0}
        /\ DOMAIN old = 1..Len(old)
    BY <1>0, <2>1
  <2>3. /\ line \in Seq(Frag) /\ line # <<>> /\ Len(line) = Len(old) + 1
        /\ DOMAIN line = 1..Len(line)
        /\ \A m \in 1..Len(old) : line[m] = old[m]
        /\ line[Len(line)] = fr
    BY <2>2, AppendProperties, LenProperties
  <2>4. g = Append(Front(f), line)
    BY <1>2, <2>1 DEF AppendTo
  <2>5. /\ Front(f) \in Seq(Seq(Frag)) /\ Len(Front(f)) = a - 1
        /\ \A n \in 1..(a - 1) : Front(f)[n] = f[n]
    <3>1. Front(f) = SubSeq(f, 1, a - 1)
      BY DEF Front
    <3>2. \A n \in 1..(a - 1) : f[n] \in Seq(Frag)
      BY <1>0
    <3>3. QED
      BY <1>0, <2>1, <3>1, <3>2, SubSeqProperties
  <2>6. /\ g \in Seq(Seq(Frag)) /\ b = a /\ DOMAIN g = 1..a
        /\ \A n \in 1..(a - 1) : g[n] = f[n]
        /\ g[a] = line
        /\ a \in 1..a /\ \A n \in 1..a : n = a \/ (n \in 1..(a - 1) /\ n < a)
    <3> HIDE DEF line, old
    <3>1. /\ Append(Front(f), line) \in Seq(Seq(Frag))
          /\ Len(Append(Front(f), line)) = Len(Front(f)) + 1
          /\ \A i \in 1..Len(Front(f)) : Append(Front(f), line)[i] = Front(f)[i]
          /\ Append(Front(f), line)[Len(Front(f)) + 1] = line
      BY <2>3, <2>5, AppendProperties
    <3>2. g \in Seq(Seq(Frag)) /\ b = a
      BY <1>0, <2>1, <2>4, <2>5, <3>1
    <3>3. DOMAIN g = 1..a
      BY <3>2, LenProperties
    <3>4. a - 1 + 1 = a
      BY <1>0
    <3>5. g[a] = line /\ \A n \in 1..(a - 1) : g[n] = f[n]
      BY <2>4, <2>5, <3>1, <3>4
    <3>6. a \in 1..a /\ \A n \in 1..a : n = a \/ (n \in 1..(a - 1) /\ n < a)
      <4>1. \A i \in Nat \ {0} : i \in 1..i /\ \A n \in 1..i : n = i \/ (n \in 1..(i - 1) /\ n < i)
        OBVIOUS
      <4>2. a \in Nat \ {0}
        BY <1>0, <2>1
      <4>3. QED
        BY <4>1, <4>2
    <3>7. QED
      BY <3>2, <3>3, <3>5, <3>6
  <2> HIDE DEF g, a, b, old, line
  <2>7. \A m \in DOMAIN old : old[m].cut # "none"
    <3> SUFFICES ASSUME NEW m \in DOMAIN old, old[m].cut = "none" PROVE FALSE
      OBVIOUS
    <3>1. m = Len(old)
      BY <1>0, <2>1 DEF WellFormed, old
    <3>2. QED
      BY <2>1, <3>1 DEF Last
  <2>8. WellFormed(g)
    <3>1. \A n \in 1..a : g[n] # <<>>
      BY <1>0, <2>3, <2>6
    <3>2. ASSUME NEW n \in 1..a, NEW m \in DOMAIN g[n], g[n][m].cut = "none"
          PROVE  m = Len(g[n])
      <4>1. CASE n = a
        BY <2>2, <2>3, <2>6, <2>7, <3>2, <4>1
      <4>2. CASE n # a
        BY <1>0, <2>6, <3>2, <4>2 
      <4>3. QED
        BY <4>1, <4>2
    <3>3. ASSUME NEW n \in 1..a, n < a PROVE Last(g[n]).cut = "none"
      <4>1. g[n] = f[n]
        BY <1>0, <2>6, <3>3
      <4>2. QED
        BY <1>0, <3>3, <4>1
    <3>4. QED
      BY <2>6, <3>1, <3>2, <3>3 DEF WellFormed, b
  <2>9. \A n \in DOMAIN g : \A m \in DOMAIN g[n] :
          \/ n \in DOMAIN f /\ m \in DOMAIN f[n] /\ g[n][m] = f[n][m]
          \/ g[n][m] \in {fr}
    <3> SUFFICES ASSUME NEW n \in DOMAIN g, NEW m \in DOMAIN g[n]
                 PROVE  \/ n \in DOMAIN f /\ m \in DOMAIN f[n] /\ g[n][m] = f[n][m]
                        \/ g[n][m] \in {fr}
      OBVIOUS
    <3>1. CASE n = a /\ m = Len(line)
      BY <2>3, <2>6, <3>1
    <3>2. CASE n = a /\ m # Len(line)
      BY <1>0, <2>1, <2>2, <2>3, <2>6, <3>2 DEF old
    <3>3. CASE n # a
      BY <1>0, <2>6, <3>3
    <3>4. QED
      BY <3>1, <3>2, <3>3
  <2>10. Torn(g) <=> fr.cut # "none"
    <3>1. g # <<>> /\ Last(g) = line
      BY <1>0, <2>1, <2>6 DEF Last, b
    <3>2. Last(line) = fr
      BY <2>3 DEF Last
    <3>3. QED
      BY <3>1, <3>2 DEF Torn
  <2>11. Firm(line) = Firm(old) /\ line[1] = old[1]
    <3>1. line[1] = old[1]
      BY <2>2, <2>3
    <3>2. QED
      BY <3>1 DEF Firm
  <2>12. FirmLines(g) = FirmLines(f)
    <3>1. \A n \in 1..a : Firm(g[n]) = Firm(f[n])
      BY <1>0, <2>6, <2>11 DEF old
    <3>2. QED
      BY <1>0, <2>6, <3>1 DEF FirmLines
  <2>13. \A k \in Keys : FirmLoad(g, k) = FirmLoad(f, k)
    BY <2>12 DEF FirmLoad
  <2>14. \A k \in Keys : Load(g)[k] = FirmLoad(g, k)
    <3>1. Len(Last(g)) # 1
      BY <2>2, <2>3, <1>0, <2>6 DEF Last, b
    <3>2. QED
      BY <2>8, <3>1, LoadIsFirm
  <2>15. Extends(f, g, {fr})
    BY <2>8, <2>9, <2>13, <2>14 DEF Extends
  <2>16. g # <<>>
    BY <1>0, <2>1, <2>6
  <2>17. QED
    BY <1>2, <2>6, <2>10, <2>15, <2>16 DEF g, a, b
<1>3. QED
  BY <1>1, <1>2


LEMMA NotTorn ==
  ASSUME NEW f, WellFormed(f), ~Torn(f)
  PROVE  \A n \in 1..Len(f) : Last(f[n]).cut = "none"
<1> TAKE n \in 1..Len(f)
<1>1. Len(f) \in Nat /\ DOMAIN f = 1..Len(f)
  BY FileFacts
<1>2. CASE n = Len(f)
  <2>1. f # <<>> /\ Last(f) = f[n]
    BY <1>1, <1>2 DEF Last
  <2>2. QED
    BY <2>1 DEF Torn
<1>3. CASE n # Len(f)
  <2>1. n < Len(f)
    <3>1. \A i \in Nat : \A x \in 1..i : x < i \/ x = i
      OBVIOUS
    <3>2. QED
      BY <1>1, <1>3, <3>1
  <2>2. QED
    BY <1>1, <2>1 DEF WellFormed
<1>4. QED
  BY <1>2, <1>3

\* Whole lines after a file that is not torn.
LEMMA AddLines ==
  ASSUME NEW f, WellFormed(f), ~Torn(f), f # <<>>, NEW A,
         NEW w \in Seq(Seq(Frag)),
         \A n \in 1..Len(w) : \E fr \in A \cap Frag : fr.cut = "none" /\ w[n] = <<fr>>
  PROVE  Extends(f, f \o w, A) /\ ~Torn(f \o w)
<1> DEFINE g == f \o w
           a == Len(f)
           b == Len(g)
<1>1. /\ a \in Nat \ {0} /\ DOMAIN f = 1..a /\ f \in Seq(Seq(Frag))
  BY FileFacts, EmptySeq DEF WellFormed
<1>2. \A n \in 1..a : f[n] # <<>> /\ Last(f[n]).cut = "none"
                      /\ \A m \in DOMAIN f[n] : f[n][m].cut = "none" => m = Len(f[n])
  <2>1. \A n \in 1..a : Last(f[n]).cut = "none"
    BY NotTorn
  <2>2. QED
    BY <1>1, <2>1 DEF WellFormed
<1>3. /\ g \in Seq(Seq(Frag)) /\ b = a + Len(w) /\ DOMAIN g = 1..b
      /\ \A n \in 1..b : g[n] = IF n <= a THEN f[n] ELSE w[n - a]
  <2>1. Len(w) \in Nat
    BY LenProperties
  <2>2. /\ g \in Seq(Seq(Frag)) /\ b = a + Len(w)
        /\ \A n \in 1..(a + Len(w)) : g[n] = IF n <= a THEN f[n] ELSE w[n - a]
    BY <1>1, ConcatProperties
  <2>3. DOMAIN g = 1..b
    BY <2>2, LenProperties
  <2>4. QED
    BY <2>2, <2>3
<1>4. b \in Nat /\ a <= b /\ b \in 1..b /\ \A n \in 1..a : n \in 1..b
  <2>1. Len(w) \in Nat
    BY LenProperties
  <2>2. QED
    BY <1>1, <1>3, <2>1
<1> HIDE DEF g, a, b
<1>5. \A n \in 1..a : g[n] = f[n]
  <2>1. \A n \in 1..a : n <= a
    BY <1>1
  <2>2. QED
    BY <1>3, <1>4, <2>1
<1>6. ASSUME NEW n \in 1..b, n \notin 1..a
      PROVE  \E fr \in A \cap Frag : fr.cut = "none" /\ g[n] = <<fr>>
  <2>1. Len(w) \in Nat
    BY LenProperties
  <2>2. n - a \in 1..Len(w) /\ ~(n <= a)
    BY <1>1, <1>3, <1>6, <2>1
  <2>3. QED
    BY <1>3, <2>2
<1>7. \A fr : <<fr>> # <<>> /\ DOMAIN <<fr>> = {1} /\ Len(<<fr>>) = 1 /\ <<fr>>[1] = fr
  OBVIOUS
<1>8. \A n \in 1..b : /\ g[n] # <<>> /\ Last(g[n]).cut = "none"
                      /\ \A m \in DOMAIN g[n] : g[n][m].cut = "none" => m = Len(g[n])
  <2> TAKE n \in 1..b
  <2>1. CASE n \in 1..a
    BY <1>2, <1>5, <2>1
  <2>2. CASE n \notin 1..a
    <3>1. PICK fr \in A \cap Frag : fr.cut = "none" /\ g[n] = <<fr>>
      BY <1>6, <2>2
    <3>2. Last(<<fr>>) = fr
      BY <1>7 DEF Last
    <3>3. QED
      BY <1>7, <3>1, <3>2
  <2>3. QED
    BY <2>1, <2>2
<1>9. WellFormed(g)
  <2>1. g \in Seq(Seq(Frag)) /\ DOMAIN g = 1..b
    BY <1>3
  <2>2. QED
    BY <1>8, <2>1, Zenon DEF WellFormed
<1>10. ~Torn(g)
  <2>1. Last(g) = g[b]
    BY DEF Last, b
  <2>2. QED
    BY <1>4, <1>8, <2>1 DEF Torn
<1>11. \A n \in DOMAIN g : \A m \in DOMAIN g[n] :
          \/ n \in DOMAIN f /\ m \in DOMAIN f[n] /\ g[n][m] = f[n][m]
          \/ g[n][m] \in A
  <2> TAKE n \in DOMAIN g
  <2> TAKE m \in DOMAIN g[n]
  <2>1. CASE n \in 1..a
    BY <1>1, <1>5, <2>1
  <2>2. CASE n \notin 1..a
    <3>1. PICK fr \in A \cap Frag : fr.cut = "none" /\ g[n] = <<fr>>
      BY <1>3, <1>6, <2>2
    <3>2. m = 1
      BY <1>7, <3>1
    <3>3. QED
      BY <1>7, <3>1, <3>2
  <2>3. QED
    BY <2>1, <2>2
<1>12. ASSUME NEW k \in Keys
       PROVE  \/ FirmLoad(g, k) = FirmLoad(f, k)
              \/ \E e \in A : e.key = k /\ FirmLoad(g, k) = e.status
  <2> DEFINE p == FirmLines(f)
             q == FirmLines(g)
  <2>1. DOMAIN p = 1..a /\ DOMAIN q = 1..b
    BY <1>1, <1>3 DEF FirmLines
  <2>2. \A n \in 1..a : p[n] = Firm(f[n])
    BY <1>1 DEF FirmLines
  <2>3. \A n \in 1..b : q[n] = Firm(g[n])
    BY <1>3 DEF FirmLines
  <2> HIDE DEF p, q
  <2>4. \A n \in 1..a : q[n] = p[n]
    BY <1>4, <1>5, <2>2, <2>3
  <2>5. \/ ReadLast(q, k) = ReadLast(p, k)
        \/ \E n \in 1..b : /\ q[n].key = k /\ ReadLast(q, k) = q[n].status
                           /\ n <= a => p[n].key # k
    <3>1. a \in Nat /\ b \in Nat /\ a <= b
      BY <1>1, <1>4
    <3>2. \A n \in 1..a : p[n].key = k => q[n] = p[n]
      BY <2>4
    <3> HIDE DEF a, b
    <3> QED
      BY <2>1, <3>1, <3>2, ReadChange
  <2>6. ASSUME NEW n \in 1..b, q[n].key = k, n <= a => p[n].key # k
        PROVE  \E e \in A : e.key = k /\ q[n].status = e.status
    <3>1. n \notin 1..a
      BY <1>1, <2>4, <2>6
    <3>2. PICK fr \in A \cap Frag : fr.cut = "none" /\ g[n] = <<fr>>
      BY <1>6, <3>1
    <3>3. Firm(<<fr>>).key = k
      BY <2>3, <2>6, <3>2
    <3>4. fr.key = k /\ Firm(<<fr>>) = Entry(k, fr.status)
      BY <1>7, <3>3, FirmFacts
    <3>5. q[n].status = fr.status
      BY <2>3, <3>2, <3>4 DEF Entry
    <3>6. QED
      BY <3>2, <3>4, <3>5
  <2>7. QED
    BY <2>5, <2>6 DEF FirmLoad, p, q
<1>13. \A k \in Keys : Load(g)[k] = FirmLoad(g, k)
  BY <1>9, <1>10, LoadIsFirm
<1>14. Extends(f, g, A)
  BY <1>9, <1>11, <1>12, <1>13 DEF Extends
<1>15. QED
  BY <1>10, <1>14 DEF g

LEMMA ExtendsMore ==
  ASSUME NEW f, NEW g, NEW h, NEW A, NEW B, NEW C, Extends(f, g, A), Extends(g, h, B),
         A \cup B \subseteq C
  PROVE  Extends(f, h, C)
<1>1. WellFormed(h)
  BY DEF Extends
<1>2. \A n \in DOMAIN h : \A m \in DOMAIN h[n] :
          \/ n \in DOMAIN f /\ m \in DOMAIN f[n] /\ h[n][m] = f[n][m]
          \/ h[n][m] \in C
  <2> TAKE n \in DOMAIN h
  <2> TAKE m \in DOMAIN h[n]
  <2>1. \/ n \in DOMAIN g /\ m \in DOMAIN g[n] /\ h[n][m] = g[n][m]
        \/ h[n][m] \in C
    BY DEF Extends
  <2>2. QED
    BY <2>1 DEF Extends
<1>3. \A k \in Keys :
       \/ FirmLoad(h, k) = FirmLoad(f, k)
       \/ \E e \in C : e.key = k /\ FirmLoad(h, k) = e.status
  <2> TAKE k \in Keys
  <2>1. \/ FirmLoad(h, k) = FirmLoad(g, k)
        \/ \E e \in C : e.key = k /\ FirmLoad(h, k) = e.status
    BY DEF Extends
  <2>2. QED
    BY <2>1 DEF Extends
<1>4. \A k \in Keys :
       \/ Load(h)[k] = FirmLoad(h, k)
       \/ Torn(h) /\ \E e \in C : e.key = k /\ Load(h)[k] = e.status
  BY DEF Extends
<1>5. QED
  BY <1>1, <1>2, <1>3, <1>4 DEF Extends

Wholes(es) == {Whole(es[n]) : n \in DOMAIN es}

LEMMA AppendWhole ==
  ASSUME NEW f, WellFormed(f), NEW es \in Seq(Entries), es # <<>>
  PROVE  /\ Extends(f, AppendAll(f, es), Wholes(es))
         /\ ~Torn(AppendAll(f, es))
<1>1. /\ Len(es) \in Nat \ {0} /\ DOMAIN es = 1..Len(es)
      /\ \A n \in 1..Len(es) : es[n] \in Entries
  BY EmptySeq, LenProperties, ElementOfSeq
<1>2. \A e \in Entries : Whole(e) \in Frag /\ Whole(e).cut = "none"
  BY DEF Entries, Frag, Whole, Cut
<1> DEFINE A == Wholes(es)
           g == AppendTo(f, Whole(es[1]))
           w == [n \in 1..(Len(es) - 1) |-> <<Whole(es[n + 1])>>]
<1>3. \A n \in 1..Len(es) : Whole(es[n]) \in A \cap Frag /\ Whole(es[n]).cut = "none"
  BY <1>1, <1>2 DEF Wholes
<1>4. Whole(es[1]) \in A \cap Frag /\ Whole(es[1]).cut = "none"
  BY <1>1, <1>3
<1>5. Extends(f, g, {Whole(es[1])}) /\ ~Torn(g) /\ g # <<>>
  BY <1>4, AppendOne
<1>6. WellFormed(g)
  BY <1>5 DEF Extends
<1>7. \A n \in 1..(Len(es) - 1) : n + 1 \in 1..Len(es)
  BY <1>1
<1>8. \A n \in 1..(Len(es) - 1) : <<Whole(es[n + 1])>> \in Seq(Frag)
  BY <1>3, <1>7
<1>9. w \in Seq(Seq(Frag)) /\ Len(w) = Len(es) - 1
  BY <1>1, <1>8
<1>10. \A n \in 1..Len(w) : \E fr \in A \cap Frag : fr.cut = "none" /\ w[n] = <<fr>>
  BY <1>3, <1>7, <1>9
<1> HIDE DEF A, g, w
<1>11. Extends(g, g \o w, A) /\ ~Torn(g \o w)
  BY <1>5, <1>6, <1>9, <1>10, AddLines
<1>12. Extends(f, g \o w, A)
  BY <1>4, <1>5, <1>11, ExtendsMore
<1>13. AppendAll(f, es) = g \o w
  BY DEF AppendAll, g, w
<1>14. QED
  BY <1>11, <1>12, <1>13 DEF A

LEMMA AppendTorn ==
  ASSUME NEW f, WellFormed(f), NEW es \in Seq(Entries), NEW i \in DOMAIN es, NEW c \in Cuts
  PROVE  /\ Extends(f, AppendCut(f, es, i, c), Wholes(es) \cup {Cut(es[i], c)})
         /\ Torn(AppendCut(f, es, i, c))
<1>1. /\ Len(es) \in Nat /\ DOMAIN es = 1..Len(es)
      /\ \A n \in 1..Len(es) : es[n] \in Entries
  BY LenProperties, ElementOfSeq
<1> DEFINE fr == Cut(es[i], c)
           sub == SubSeq(es, 1, i - 1)
           g == AppendAll(f, sub)
           C == Wholes(es) \cup {fr}
<1>2. fr \in Frag /\ fr.cut = c /\ c # "none"
  BY <1>1, CacheAssumption DEF Frag, Cut, Entries
<1>3. /\ sub \in Seq(Entries)
      /\ Len(sub) = i - 1
      /\ \A n \in 1..(i - 1) : sub[n] = es[n]
  <2>1. i \in Nat \ {0} /\ \A n \in 1..(i - 1) : n \in 1..Len(es)
    BY <1>1
  <2>2. \A n \in 1..(i - 1) : es[n] \in Entries
    BY <1>1, <2>1
  <2>3. QED
    BY <2>1, <2>2, SubSeqProperties
<1>4. AppendCut(f, es, i, c) = AppendTo(g, fr)
  BY DEF AppendCut
<1>5. CASE sub = <<>>
  <2>1. g = f
    BY <1>5 DEF AppendAll
  <2>2. Extends(f, AppendTo(f, fr), {fr}) /\ Torn(AppendTo(f, fr))
    BY <1>2, AppendOne
  <2>3. Extends(f, AppendTo(f, fr), C)
    BY <2>2 DEF Extends
  <2>4. QED
    BY <1>4, <2>1, <2>2, <2>3
<1>6. CASE sub # <<>>
  <2>1. Extends(f, g, Wholes(sub))
    BY <1>3, <1>6, AppendWhole
  <2>2. WellFormed(g)
    BY <2>1 DEF Extends
  <2>3. Extends(g, AppendTo(g, fr), {fr}) /\ Torn(AppendTo(g, fr))
    BY <1>2, <2>2, AppendOne
  <2>4. Wholes(sub) \subseteq Wholes(es)
    <3>1. DOMAIN sub = 1..(i - 1)
      BY <1>3, LenProperties
    <3>2. \A n \in 1..(i - 1) : n \in DOMAIN es
      BY <1>1
    <3>3. QED
      BY <1>3, <3>1, <3>2 DEF Wholes
  <2> HIDE DEF g, fr, sub
  <2>5. Extends(f, AppendTo(g, fr), C)
    BY <2>1, <2>3, <2>4, ExtendsMore
  <2>6. QED
    BY <1>4, <2>3, <2>5 DEF fr
<1>7. QED
  BY <1>5, <1>6


\* The same, for a set of entries: what was appended says nothing else.
Grows(f, g, new) ==
  /\ WellFormed(g)
  /\ \A n \in DOMAIN g : \A m \in DOMAIN g[n] :
       \/ n \in DOMAIN f /\ m \in DOMAIN f[n] /\ g[n][m] = f[n][m]
       \/ Entry(g[n][m].key, g[n][m].status) \in new
  /\ \A k \in Keys : FirmLoad(g, k) = FirmLoad(f, k) \/ Entry(k, FirmLoad(g, k)) \in new
  /\ \A k \in Keys :
       Load(g)[k] = FirmLoad(g, k) \/ (Torn(g) /\ Entry(k, Load(g)[k]) \in new)

LEMMA ExtendsGrows ==
  ASSUME NEW f, NEW g, NEW A, Extends(f, g, A), NEW new,
         \A fr \in A : Entry(fr.key, fr.status) \in new
  PROVE  Grows(f, g, new)
<1>1. WellFormed(g)
  BY DEF Extends
<1>2. \A n \in DOMAIN g : \A m \in DOMAIN g[n] :
       \/ n \in DOMAIN f /\ m \in DOMAIN f[n] /\ g[n][m] = f[n][m]
       \/ Entry(g[n][m].key, g[n][m].status) \in new
  BY DEF Extends
<1>3. \A k \in Keys : FirmLoad(g, k) = FirmLoad(f, k) \/ Entry(k, FirmLoad(g, k)) \in new
  BY DEF Extends
<1>4. \A k \in Keys :
       Load(g)[k] = FirmLoad(g, k) \/ (Torn(g) /\ Entry(k, Load(g)[k]) \in new)
  <2> TAKE k \in Keys
  <2>1. \/ Load(g)[k] = FirmLoad(g, k)
        \/ Torn(g) /\ \E e \in A : e.key = k /\ Load(g)[k] = e.status
    BY DEF Extends
  <2>2. CASE Torn(g) /\ \E e \in A : e.key = k /\ Load(g)[k] = e.status
    <3>1. PICK e \in A : e.key = k /\ Load(g)[k] = e.status
      BY <2>2
    <3>2. Entry(e.key, e.status) \in new
      OBVIOUS
    <3>3. QED
      BY <2>2, <3>1, <3>2
  <2>3. QED
    BY <2>1, <2>2
<1>5. QED
  BY <1>1, <1>2, <1>3, <1>4 DEF Grows

LEMMA PutGrows ==
  ASSUME NEW f, WellFormed(f), NEW e \in Entries
  PROVE  /\ Grows(f, AppendTo(f, Whole(e)), {e})
         /\ ~Torn(AppendTo(f, Whole(e)))
         /\ ~Torn(f) /\ e.key \in Keys
              => FirmLoad(AppendTo(f, Whole(e)), e.key) = e.status
<1>1. /\ Whole(e) \in Frag /\ Whole(e).cut = "none"
      /\ Whole(e).key = e.key /\ Whole(e).status = e.status
      /\ Entry(e.key, e.status) = e
  BY DEF Entries, Frag, Whole, Cut, Entry
<1>2. /\ Extends(f, AppendTo(f, Whole(e)), {Whole(e)})
      /\ ~Torn(AppendTo(f, Whole(e)))
      /\ ~Torn(f) /\ Whole(e).key \in Keys
           => FirmLoad(AppendTo(f, Whole(e)), Whole(e).key) = Whole(e).status
  BY <1>1, AppendOne
<1>3. \A fr \in {Whole(e)} : Entry(fr.key, fr.status) \in {e}
  BY <1>1
<1>4. Grows(f, AppendTo(f, Whole(e)), {e})
  BY <1>2, <1>3, ExtendsGrows
<1>5. QED
  BY <1>1, <1>2, <1>4

LEMMA EntryOf ==
  ASSUME NEW e \in Entries
  PROVE  /\ e.key \in AllKeys /\ e.status \in Statuses /\ Entry(e.key, e.status) = e
         /\ Entry(Whole(e).key, Whole(e).status) = e
         /\ \A c : Entry(Cut(e, c).key, Cut(e, c).status) = e
BY DEF Entries, Whole, Cut, Entry

LEMMA FlushGrows ==
  ASSUME NEW f, WellFormed(f), NEW es \in Seq(Entries), es # <<>>
  PROVE  Grows(f, AppendAll(f, es), ToSet(es)) /\ ~Torn(AppendAll(f, es))
<1>1. Extends(f, AppendAll(f, es), Wholes(es)) /\ ~Torn(AppendAll(f, es))
  BY AppendWhole
<1>2. \A n \in DOMAIN es : es[n] \in Entries
  BY LenProperties, ElementOfSeq
<1>3. \A fr \in Wholes(es) : Entry(fr.key, fr.status) \in ToSet(es)
  BY <1>2, EntryOf DEF Wholes, ToSet
<1>4. QED
  BY <1>1, <1>3, ExtendsGrows

LEMMA TearGrows ==
  ASSUME WellFormed(file), NEW es \in Seq(Entries), Tear(es),
         written \in 0..MaxWrites, tears \in 0..MaxTears
  PROVE  /\ Grows(file, file', ToSet(es)) /\ Torn(file')
         /\ tears' = tears + 1 /\ tears' \in 0..MaxTears /\ written' \in 0..MaxWrites
         /\ stream = "good"
<1>1. PICK i \in DOMAIN es, c \in Cuts :
         /\ written + i <= MaxWrites
         /\ file' = AppendCut(file, es, i, c)
         /\ written' = written + i
         /\ tears' = tears + 1
  BY DEF Tear
<1>2. \A n \in DOMAIN es : es[n] \in Entries
  BY LenProperties, ElementOfSeq
<1>3. Extends(file, file', Wholes(es) \cup {Cut(es[i], c)}) /\ Torn(file')
  BY <1>1, AppendTorn
<1>4. \A fr \in Wholes(es) \cup {Cut(es[i], c)} : Entry(fr.key, fr.status) \in ToSet(es)
  <2>1. \A fr \in Wholes(es) : Entry(fr.key, fr.status) \in ToSet(es)
    BY <1>2, EntryOf DEF Wholes, ToSet
  <2>2. Entry(Cut(es[i], c).key, Cut(es[i], c).status) \in ToSet(es)
    BY <1>2, EntryOf DEF ToSet
  <2>3. QED
    BY <2>1, <2>2
<1>5. Grows(file, file', ToSet(es))
  BY <1>3, <1>4, ExtendsGrows
<1>6. i \in Nat /\ tears < MaxTears /\ stream = "good"
  BY LenProperties DEF Tear
<1>7. QED
  BY <1>1, <1>3, <1>5, <1>6, CacheAssumption

\* What a process finds under the key of a pair is the first fragment of a line.
LEMMA LoadFromLine ==
  ASSUME NEW f, WellFormed(f), NEW k \in Keys, Load(f)[k] # Absent
  PROVE  \E n \in DOMAIN f : 1 \in DOMAIN f[n] /\ f[n][1].key = k /\ Load(f)[k] = f[n][1].status
<1>1. /\ Len(f) \in Nat /\ DOMAIN f = 1..Len(f) /\ (f # <<>> => Len(f) \in DOMAIN f)
      /\ \A n \in 1..Len(f) : 1 \in DOMAIN f[n]
  BY FileFacts
<1>2. CASE Load(f)[k] = FirmLoad(f, k)
  <2> DEFINE p == FirmLines(f)
  <2>1. DOMAIN p = 1..Len(f) /\ \A n \in 1..Len(f) : p[n] = Firm(f[n])
    BY <1>1 DEF FirmLines
  <2> HIDE DEF p
  <2>2. PICK n \in 1..Len(f) : p[n].key = k /\ ReadLast(p, k) = p[n].status
    BY <1>1, <1>2, <2>1, ReadSome DEF FirmLoad, p
  <2>3. f[n][1].key = k /\ p[n].status = f[n][1].status
    BY <2>1, <2>2, FirmFacts DEF Entry
  <2>4. QED
    BY <1>1, <1>2, <2>2, <2>3 DEF FirmLoad, p
<1>3. CASE Load(f)[k] # FirmLoad(f, k)
  <2>1. f # <<>> /\ Last(f)[1].key = k /\ Load(f)[k] = Last(f)[1].status
    BY <1>3, LoadIsFirm
  <2>2. QED
    BY <1>1, <2>1 DEF Last
<1>4. QED
  BY <1>2, <1>3

LEMMA LoadType ==
  ASSUME NEW f, WellFormed(f)
  PROVE  Load(f) \in [AllKeys -> Statuses \cup {Absent}]
<1>1. Len(f) \in Nat /\ DOMAIN f = 1..Len(f)
  BY FileFacts
<1>2. ASSUME NEW n \in DOMAIN f, Parse(f[n]).key # Absent
      PROVE  Parse(f[n]).status \in Statuses
  <2> DEFINE line == f[n]
             i == IF line[1].cut = "lhs" THEN 2 ELSE 1
  <2>1. line \in Seq(Frag) /\ line # <<>>
    BY FileFacts
  <2>2. i \in DOMAIN line /\ Parse(line).status = line[i].status
    BY <1>2 DEF Parse, NoEntry, Entry
  <2>3. line[i] \in Frag
    BY <2>1, <2>2, LineFacts
  <2>4. QED
    BY <2>2, <2>3 DEF Frag
<1>3. ASSUME NEW k \in AllKeys PROVE Load(f)[k] \in Statuses \cup {Absent}
  <2> DEFINE at == {n \in DOMAIN f : Parse(f[n]).key = k}
  <2>1. Load(f)[k] = IF at = {} THEN Absent ELSE Parse(f[Max(at)]).status
    BY DEF Load
  <2>2. at # {} => Max(at) \in at
    <3>1. at \subseteq 1..Len(f)
      BY <1>1
    <3> HIDE DEF at
    <3>2. QED
      BY <1>1, <3>1, HasMax
  <2>3. k # Absent
    BY CacheAssumption
  <2>4. QED
    BY <1>2, <2>1, <2>2, <2>3
<1>4. QED
  BY <1>3 DEF Load


-----------------------------------------------------------------------------
(* The in-process tier *)

LEMMA MinMaxOfTwo ==
  ASSUME NEW a \in Nat, NEW b \in Nat
  PROVE  /\ Max({a, b}) = IF a >= b THEN a ELSE b
         /\ Min({a, b}) = IF a <= b THEN a ELSE b
<1>1. /\ Max({a, b}) = CHOOSE x \in {a, b} : \A y \in {a, b} : x >= y
      /\ Min({a, b}) = CHOOSE x \in {a, b} : \A y \in {a, b} : x =< y
  BY DEF Max, Min
<1>2. CASE a >= b
  <2>1. Max({a, b}) = a
    <3>1. a \in {a, b} /\ \A y \in {a, b} : a >= y
      BY <1>2
    <3>2. Max({a, b}) \in {a, b} /\ \A y \in {a, b} : Max({a, b}) >= y
      BY <3>1 DEF Max
    <3>3. QED
      BY <1>2, <3>2
  <2>2. Min({a, b}) = b
    <3>1. b \in {a, b} /\ \A y \in {a, b} : b =< y
      BY <1>2
    <3>2. Min({a, b}) \in {a, b} /\ \A y \in {a, b} : Min({a, b}) =< y
      BY <3>1 DEF Min
    <3>3. QED
      BY <1>2, <3>2
  <2>3. QED
    BY <1>2, <2>1, <2>2
<1>3. CASE a < b
  <2>1. Max({a, b}) = b
    <3>1. b \in {a, b} /\ \A y \in {a, b} : b >= y
      BY <1>3
    <3>2. Max({a, b}) \in {a, b} /\ \A y \in {a, b} : Max({a, b}) >= y
      BY <3>1 DEF Max
    <3>3. QED
      BY <1>3, <3>2
  <2>2. Min({a, b}) = a
    <3>1. a \in {a, b} /\ \A y \in {a, b} : a =< y
      BY <1>3
    <3>2. Min({a, b}) \in {a, b} /\ \A y \in {a, b} : Min({a, b}) =< y
      BY <3>1 DEF Min
    <3>3. QED
      BY <1>3, <3>2
  <2>3. QED
    BY <1>3, <2>1, <2>2
<1>4. QED
  BY <1>2, <1>3

\* The LRU: bounded, one entry per key.
LruType(es) ==
  /\ es \in Seq(Entries) /\ Len(es) <= Capacity
  /\ \A m, n \in DOMAIN es : es[m].key = es[n].key => m = n

LEMMA RememberFacts ==
  ASSUME NEW es, LruType(es), NEW e \in Entries
  PROVE  /\ LruType(Remember(es, e))
         /\ \A n \in DOMAIN Remember(es, e) :
              \/ Remember(es, e)[n] = e
              \/ /\ Remember(es, e)[n].key # e.key
                 /\ \E m \in DOMAIN es : Remember(es, e)[n] = es[m]
<1> DEFINE p == Place(es, e.key)
           a == Len(es)
           size == Min({Capacity, Max({a, p})})
           r == Remember(es, e)
<1>1. /\ a \in Nat /\ DOMAIN es = 1..a /\ a <= Capacity
      /\ \A n \in 1..a : es[n] \in Entries
      /\ Capacity \in Nat \ {0}
  BY LenProperties, ElementOfSeq, CacheAssumption DEF LruType
<1>2. \/ p = a + 1 /\ \A n \in 1..a : es[n].key # e.key
      \/ p \in 1..a /\ es[p].key = e.key /\ \A n \in 1..a : es[n].key = e.key => n = p
  <2> DEFINE at == {n \in DOMAIN es : es[n].key = e.key}
  <2>1. CASE at = {}
    BY <1>1, <2>1 DEF Place
  <2>2. CASE at # {}
    <3>1. p \in at
      BY <2>2 DEF Place
    <3>2. QED
      BY <1>1, <3>1 DEF LruType
  <2>3. QED
    BY <2>1, <2>2
<1> HIDE DEF p, a
<1>3. p \in Nat \ {0} /\ p <= a + 1
  BY <1>1, <1>2
<1>4. size = IF p = a + 1 THEN (IF Capacity <= a + 1 THEN Capacity ELSE a + 1) ELSE a
  <2>1. Max({a, p}) = IF a >= p THEN a ELSE p
    BY <1>1, <1>3, MinMaxOfTwo
  <2>2. CASE p = a + 1
    <3>1. Max({a, p}) = a + 1
      BY <1>1, <2>1, <2>2
    <3>2. Min({Capacity, a + 1}) = IF Capacity <= a + 1 THEN Capacity ELSE a + 1
      <4>1. a + 1 \in Nat
        BY <1>1
      <4>2. QED
        BY <1>1, <4>1, MinMaxOfTwo
    <3>3. QED
      BY <2>2, <3>1, <3>2, Zenon
  <2>3. CASE p # a + 1
    <3>1. Max({a, p}) = a
      BY <1>1, <1>3, <2>1, <2>3
    <3>2. Min({Capacity, a}) = IF Capacity <= a THEN Capacity ELSE a
      BY <1>1, MinMaxOfTwo
    <3>3. size = IF Capacity <= a THEN Capacity ELSE a
      BY <3>1, <3>2, Zenon
    <3> HIDE DEF size
    <3>4. QED
      BY <1>1, <2>3, <3>3
  <2>4. QED
    BY <2>2, <2>3
<1>5. r = [n \in 1..size |-> IF n = 1 THEN e ELSE IF n <= p THEN es[n - 1] ELSE es[n]]
  BY DEF Remember, MoveToFront, p, a
<1> HIDE DEF size, r
<1>6. size \in Nat /\ size <= Capacity /\ size <= a + 1 /\ (p # a + 1 => size <= a)
  BY <1>1, <1>4
<1> DEFINE from(n) == IF n <= p THEN n - 1 ELSE n
<1>7. ASSUME NEW n \in 1..size, n # 1
      PROVE  from(n) \in 1..a /\ r[n] = es[from(n)] /\ from(n) # p
  <2>1. from(n) \in 1..a /\ from(n) # p
    <3>1. CASE n <= p
      BY <1>1, <1>3, <1>6, <1>7, <3>1
    <3>2. CASE ~(n <= p)
      BY <1>1, <1>3, <1>6, <1>7, <3>2
    <3>3. QED
      BY <3>1, <3>2
  <2>2. r[n] = es[from(n)]
    BY <1>5, <1>7
  <2>3. QED
    BY <2>1, <2>2
<1>8. ASSUME NEW m \in 1..size, NEW n \in 1..size, m # 1, n # 1, from(m) = from(n)
      PROVE  m = n
  BY <1>3, <1>6, <1>8
<1>9. \A n \in 1..size : n = 1 => r[n] = e
  BY <1>5
<1>10. \A n \in 1..size : n # 1 => r[n].key # e.key /\ \E m \in DOMAIN es : r[n] = es[m]
  <2> SUFFICES ASSUME NEW n \in 1..size, n # 1
               PROVE  r[n].key # e.key /\ \E m \in DOMAIN es : r[n] = es[m]
    OBVIOUS
  <2> DEFINE i == from(n)
  <2>1. i \in 1..a /\ r[n] = es[i] /\ i # p
    BY <1>7
  <2> HIDE DEF i, from
  <2>2. QED
    BY <1>1, <1>2, <2>1
<1>11. r \in Seq(Entries) /\ Len(r) = size /\ DOMAIN r = 1..size
  <2>1. \A n \in 1..size : r[n] \in Entries
    BY <1>1, <1>9, <1>10
  <2>2. DOMAIN r = 1..size /\ r = [n \in 1..size |-> r[n]]
    BY <1>5
  <2>3. r \in [1..size -> Entries]
    BY <2>1, <2>2
  <2>4. r \in Seq(Entries)
    BY <1>6, <2>3, SeqDef
  <2>5. QED
    BY <1>6, <2>2, <2>4, LenProperties
<1>12. ASSUME NEW m \in 1..size, NEW n \in 1..size, r[m].key = r[n].key
       PROVE  m = n
  <2>1. CASE m = 1 \/ n = 1
    BY <1>9, <1>10, <1>12, <2>1
  <2>2. CASE m # 1 /\ n # 1
    <3> DEFINE i == from(m)
               j == from(n)
    <3>1. i \in 1..a /\ j \in 1..a /\ r[m] = es[i] /\ r[n] = es[j]
      BY <1>7, <2>2
    <3>2. i = j
      <4> HIDE DEF i, j, from
      <4>1. QED
        BY <1>1, <1>12, <3>1 DEF LruType
    <3>3. QED
      BY <1>8, <2>2, <3>2
  <2>3. QED
    BY <2>1, <2>2
<1>13. LruType(r)
  BY <1>6, <1>11, <1>12 DEF LruType
<1>14. \A n \in DOMAIN r : r[n] = e \/ (r[n].key # e.key /\ \E m \in DOMAIN es : r[n] = es[m])
  BY <1>9, <1>10, <1>11
<1>15. QED
  BY <1>13, <1>14 DEF r

LEMMA WarmFacts ==
  ASSUME NEW ix \in [AllKeys -> Statuses \cup {Absent}], NEW es \in Warm(ix)
  PROVE  LruType(es) /\ \A n \in DOMAIN es : ix[es[n].key] = es[n].status
<1> DEFINE present == {k \in AllKeys : ix[k] # Absent}
           size == Min({Capacity, Cardinality(present)})
<1>1. Cardinality(present) \in Nat /\ Capacity \in Nat
  <2>1. IsFiniteSet(AllKeys)
    BY CacheAssumption, FS_AddElement DEF AllKeys
  <2>2. IsFiniteSet(present)
    BY <2>1, FS_Subset
  <2>3. QED
    BY <2>2, CacheAssumption, FS_CardinalityType
<1>2. PICK order \in [1..size -> present] :
        IsInjective(order) /\ es = [i \in 1..size |-> Entry(order[i], ix[order[i]])]
  BY DEF Warm
<1>3. size \in Nat /\ size <= Capacity
  <2> DEFINE c == Cardinality(present)
  <2> HIDE DEF present, c
  <2>1. c \in Nat
    BY <1>1 DEF c
  <2>2. Min({Capacity, c}) = IF Capacity <= c THEN Capacity ELSE c
    BY <1>1, <2>1, MinMaxOfTwo
  <2>3. size = Min({Capacity, c})
    BY DEF c
  <2> HIDE DEF size
  <2>4. QED
    BY <1>1, <2>1, <2>2, <2>3
<1> HIDE DEF size
<1>4. \A n \in 1..size : /\ es[n] \in Entries
                         /\ es[n].key = order[n] /\ ix[es[n].key] = es[n].status
  <2> TAKE n \in 1..size
  <2>1. order[n] \in AllKeys /\ ix[order[n]] \in Statuses
    BY <1>2
  <2>2. es[n] = Entry(order[n], ix[order[n]])
    BY <1>2
  <2>3. QED
    BY <2>1, <2>2 DEF Entry, Entries
<1>5. es \in [1..size -> Entries]
  BY <1>2, <1>4
<1>6. es \in Seq(Entries) /\ DOMAIN es = 1..size /\ Len(es) = size
  <2>1. es \in Seq(Entries)
    BY <1>3, <1>5, SeqDef
  <2>2. DOMAIN es = 1..size
    BY <1>2
  <2>3. QED
    BY <1>3, <2>1, <2>2, LenProperties
<1>7. \A m, n \in 1..size : es[m].key = es[n].key => m = n
  BY <1>2, <1>4 DEF IsInjective
<1>8. LruType(es)
  BY <1>3, <1>6, <1>7 DEF LruType
<1>9. QED
  BY <1>4, <1>6, <1>8


-----------------------------------------------------------------------------
(* The cache invariant, by step *)

\* CacheTypeOK without what WellFormed says of the file.
MemoryType ==
  /\ stream \in {"closed", "good", "bad"}
  /\ LruType(lru)
  /\ index \in [AllKeys -> Statuses \cup {Absent}]
  /\ last \in [Keys -> Statuses \cup {Absent}]
  /\ session \subseteq Keys /\ durable \subseteq Keys
  /\ offered \subseteq [key : Keys, status : Statuses]
  /\ written \in 0..MaxWrites /\ tears \in 0..MaxTears

LEMMA FileTyped ==
  ASSUME NEW f, WellFormed(f)
  PROVE  \A n \in DOMAIN f :
           /\ f[n] # <<>>
           /\ \A m \in DOMAIN f[n] :
                /\ Entry(f[n][m].key, f[n][m].status) \in Entries
                /\ f[n][m].cut \in Cuts \cup {"none"}
                /\ f[n][m].cut = "none" => m = Len(f[n])
           /\ n < Len(f) => Last(f[n]).cut = "none"
<1> SUFFICES ASSUME NEW n \in DOMAIN f, NEW m \in DOMAIN f[n]
             PROVE  /\ Entry(f[n][m].key, f[n][m].status) \in Entries
                    /\ f[n][m].cut \in Cuts \cup {"none"}
  BY DEF WellFormed
<1>1. f[n] \in Seq(Frag) /\ f[n] # <<>>
  BY FileFacts
<1>2. f[n][m] \in Frag
  BY <1>1, LineFacts
<1>3. QED
  BY <1>2 DEF Frag, Entry, Entries

LEMMA TypeParts == CacheType <=> WellFormed(file) /\ MemoryType
<1>1. CacheType => WellFormed(file) /\ MemoryType
  BY DEF CacheType, CacheTypeOK, MemoryType, LruType
<1>2. WellFormed(file) /\ MemoryType => CacheType
  BY FileTyped DEF CacheType, CacheTypeOK, MemoryType, LruType
<1>3. QED
  BY <1>1, <1>2

LEMMA TypePartsNext == WellFormed(file') /\ MemoryType' => CacheType'
<1> SUFFICES ASSUME WellFormed(file'), MemoryType' PROVE CacheType'
  OBVIOUS
<1>1. \A n \in DOMAIN file' :
           /\ file'[n] # <<>>
           /\ \A m \in DOMAIN file'[n] :
                /\ Entry(file'[n][m].key, file'[n][m].status) \in Entries
                /\ file'[n][m].cut \in Cuts \cup {"none"}
                /\ file'[n][m].cut = "none" => m = Len(file'[n])
           /\ n < Len(file') => Last(file'[n]).cut = "none"
  BY FileTyped
<1>2. QED
  BY <1>1 DEF CacheType, CacheTypeOK, MemoryType, LruType

\* What the entries of the LRU and the rest of memory are, read off CacheInv.
LEMMA CacheFacts ==
  ASSUME CacheInv
  PROVE  /\ WellFormed(file) /\ MemoryType
         /\ lru \in Seq(Entries)
         /\ \A e \in ToSet(lru) : e \in Entries /\ e.status = index[e.key]
         /\ \A n \in DOMAIN lru : lru[n] \in Entries
         /\ IsFiniteSet(FirmlyLost) /\ Cardinality(FirmlyLost) \in Nat
<1>1. WellFormed(file) /\ MemoryType
  BY TypeParts DEF CacheInv
<1>2. lru \in Seq(Entries)
  BY <1>1 DEF MemoryType, LruType
<1>3. \A n \in DOMAIN lru : lru[n] \in Entries
  BY <1>2, LenProperties, ElementOfSeq
<1>4. \A e \in ToSet(lru) : e \in Entries /\ e.status = index[e.key]
  BY <1>3 DEF ToSet, CacheInv, HitIsLatest
<1>5. IsFiniteSet(FirmlyLost)
  BY <1>1, CacheAssumption, FS_Subset DEF FirmlyLost, MemoryType
<1>6. QED
  BY <1>1, <1>2, <1>3, <1>4, <1>5, FS_CardinalityType

LEMMA CountingNext ==
  ASSUME CacheInv, NEW S, NEW k,
         S \subseteq (IF Torn(file) THEN FirmlyLost \cup {k} ELSE FirmlyLost)
  PROVE  IsFiniteSet(S) /\ Cardinality(S) \in Nat /\ Cardinality(S) <= tears
<1>1. IsFiniteSet(FirmlyLost) /\ Cardinality(FirmlyLost) \in Nat /\ tears \in Nat
  BY CacheFacts, CacheAssumption DEF MemoryType
<1>2. Cardinality(FirmlyLost) + (IF Torn(file) THEN 1 ELSE 0) <= tears
  BY DEF CacheInv, LossCounted
<1>3. CASE Torn(file)
  <2>1. /\ IsFiniteSet(FirmlyLost \cup {k})
        /\ Cardinality(FirmlyLost \cup {k}) \in Nat
        /\ Cardinality(FirmlyLost \cup {k}) <= Cardinality(FirmlyLost) + 1
    BY <1>1, FS_AddElement, FS_CardinalityType
  <2>2. /\ IsFiniteSet(S) /\ Cardinality(S) \in Nat
        /\ Cardinality(S) <= Cardinality(FirmlyLost \cup {k})
    BY <1>3, <2>1, FS_Subset, FS_CardinalityType
  <2>3. QED
    BY <1>1, <1>2, <1>3, <2>1, <2>2
<1>4. CASE ~Torn(file)
  <2>1. /\ IsFiniteSet(S) /\ Cardinality(S) \in Nat
        /\ Cardinality(S) <= Cardinality(FirmlyLost)
    BY <1>1, <1>4, FS_Subset, FS_CardinalityType
  <2>2. QED
    BY <1>1, <1>2, <1>4, <2>1
<1>5. QED
  BY <1>3, <1>4

\* A tear adds a torn line and loses nothing yet.
LEMMA CountingTear ==
  ASSUME CacheInv, NEW S \in SUBSET FirmlyLost
  PROVE  Cardinality(S) + 1 <= tears + 1
<1>1. IsFiniteSet(FirmlyLost) /\ Cardinality(FirmlyLost) \in Nat /\ tears \in Nat
  BY CacheFacts, CacheAssumption DEF MemoryType
<1>2. Cardinality(FirmlyLost) + (IF Torn(file) THEN 1 ELSE 0) <= tears
  BY DEF CacheInv, LossCounted
<1>3. Cardinality(S) \in Nat /\ Cardinality(S) <= Cardinality(FirmlyLost)
  BY <1>1, FS_Subset, FS_CardinalityType
<1>4. CASE Torn(file)
  BY <1>1, <1>2, <1>3, <1>4
<1>5. CASE ~Torn(file)
  BY <1>1, <1>2, <1>3, <1>5
<1>6. QED
  BY <1>4, <1>5

\* Fragments that were offered stay offered, and the new ones are.
LEMMA FragmentsOffered ==
  ASSUME CacheInv, NEW new, Grows(file, file', new), offered \subseteq offered',
         \A e \in new : e.key \in Keys => e \in offered'
  PROVE  \A n \in DOMAIN file' : \A m \in DOMAIN file'[n] :
           file'[n][m].key \in Keys => Entry(file'[n][m].key, file'[n][m].status) \in offered'
<1> TAKE n \in DOMAIN file'
<1> TAKE m \in DOMAIN file'[n]
<1>1. CASE n \in DOMAIN file /\ m \in DOMAIN file[n] /\ file'[n][m] = file[n][m]
  BY <1>1 DEF CacheInv, OnlyOffered
<1>2. CASE Entry(file'[n][m].key, file'[n][m].status) \in new
  BY <1>2 DEF Entry
<1>3. QED
  BY <1>1, <1>2 DEF Grows

LEMMA CacheInitHolds == CacheInit => CacheInv
<1> SUFFICES ASSUME CacheInit PROVE CacheInv
  OBVIOUS
<1>1. WellFormed(<<>>) /\ ~Torn(<<>>)
  BY DEF WellFormed, Torn
<1>2. MemoryType
  <2>1. LruType(<<>>)
    BY CacheAssumption DEF LruType
  <2>2. QED
    BY <2>1, CacheAssumption DEF CacheInit, MemoryType
<1>3. CacheType
  BY <1>1, <1>2, TypeParts DEF CacheInit
<1>4. HitIsLatest /\ SessionAnswered /\ OnlyOffered /\ LossSettled
  <2>1. \A k \in Keys : index[k] = Absent
    BY DEF CacheInit, AllKeys
  <2>2. QED
    BY <2>1 DEF CacheInit, HitIsLatest, SessionAnswered, OnlyOffered, LossSettled
<1>5. LossCounted
  <2>1. FirmlyLost = {}
    BY DEF CacheInit, FirmlyLost
  <2>2. QED
    BY <1>1, <2>1, FS_EmptySet DEF CacheInit, LossCounted
<1>6. QED
  BY <1>3, <1>4, <1>5 DEF CacheInv


\* Recording a verdict, whatever becomes of its line: what memory says.
LEMMA RecordMemory ==
  ASSUME CacheInv, NEW k \in Keys, NEW s \in Statuses, Record(k, s)
  PROVE  /\ Entry(k, s) \in Entries /\ LruType(lru')
         /\ index' \in [AllKeys -> Statuses \cup {Absent}]
         /\ last' \in [Keys -> Statuses \cup {Absent}]
         /\ session' \subseteq Keys
         /\ offered' \subseteq [key : Keys, status : Statuses]
         /\ index'[k] = s /\ last'[k] = s
         /\ \A x \in AllKeys : x # k => index'[x] = index[x]
         /\ \A x \in Keys : x # k => last'[x] = last[x]
         /\ HitIsLatest'
         /\ \A x \in session' : last'[x] # Absent
         /\ offered \subseteq offered' /\ Entry(k, s) \in offered'
         /\ \A x \in Keys : index'[x] # Absent => Entry(x, index'[x]) \in offered'
<1>1. MemoryType /\ lru \in Seq(Entries)
  BY CacheFacts
<1>2. k \in AllKeys /\ Entry(k, s) \in Entries /\ s # Absent
  BY CacheAssumption DEF AllKeys, Entry, Entries
<1>3. /\ lru' = Remember(lru, Entry(k, s))
      /\ index' = [index EXCEPT ![k] = s]
      /\ last' = [last EXCEPT ![k] = s]
      /\ session' = session \cup {k}
      /\ offered' = offered \cup {Entry(k, s)}
  BY DEF Record
<1>4. LruType(lru') /\ \A n \in DOMAIN lru' :
         \/ lru'[n] = Entry(k, s)
         \/ lru'[n].key # k /\ \E m \in DOMAIN lru : lru'[n] = lru[m]
  BY <1>1, <1>2, <1>3, RememberFacts DEF MemoryType, Entry
<1>5. /\ index' \in [AllKeys -> Statuses \cup {Absent}]
      /\ last' \in [Keys -> Statuses \cup {Absent}]
      /\ index'[k] = s /\ last'[k] = s
      /\ \A x \in AllKeys : x # k => index'[x] = index[x]
      /\ \A x \in Keys : x # k => last'[x] = last[x]
  BY <1>1, <1>2, <1>3 DEF MemoryType
<1>6. /\ session' \subseteq Keys
      /\ offered' \subseteq [key : Keys, status : Statuses]
      /\ offered \subseteq offered' /\ Entry(k, s) \in offered'
  BY <1>1, <1>3 DEF MemoryType, Entry
<1>7. HitIsLatest'
  <2>1. \A x \in session' : index'[x] = last'[x]
    BY <1>1, <1>3, <1>5 DEF CacheInv, HitIsLatest, MemoryType, AllKeys
  <2>2. ASSUME NEW n \in DOMAIN lru' PROVE index'[lru'[n].key] = lru'[n].status
    <3>1. CASE lru'[n] = Entry(k, s)
      BY <1>5, <3>1 DEF Entry
    <3>2. CASE lru'[n].key # k /\ \E m \in DOMAIN lru : lru'[n] = lru[m]
      <4>1. PICK m \in DOMAIN lru : lru'[n] = lru[m]
        BY <3>2
      <4>2. lru[m].key \in AllKeys /\ index[lru[m].key] = lru[m].status
        BY CacheFacts, EntryOf DEF CacheInv, HitIsLatest
      <4>3. QED
        BY <1>5, <3>2, <4>1, <4>2
    <3>3. QED
      BY <1>4, <3>1, <3>2
  <2>3. QED
    BY <2>1, <2>2 DEF HitIsLatest
<1>8. \A x \in session' : last'[x] # Absent
  BY <1>1, <1>2, <1>3, <1>5 DEF CacheInv, SessionAnswered, MemoryType
<1>9. \A x \in Keys : index'[x] # Absent => Entry(x, index'[x]) \in offered'
  BY <1>5, <1>6 DEF CacheInv, OnlyOffered, AllKeys
<1>10. QED
  BY <1>2, <1>4, <1>5, <1>6, <1>7, <1>8, <1>9

LEMMA StepPut ==
  ASSUME CacheInv, NEW k \in Keys, NEW s \in Statuses, Put(k, s)
  PROVE  CacheInv'
<1>1. Record(k, s)
  BY DEF Put
<1>2. /\ file' = AppendTo(file, Whole(Entry(k, s)))
      /\ stream = "good" /\ stream' = "good" /\ written' = written + 1 /\ written < MaxWrites
      /\ tears' = tears /\ durable' = durable \cup {k}
  BY DEF Put
<1>3. WellFormed(file) /\ MemoryType
  BY CacheFacts
<1>4. Entry(k, s) \in Entries /\ Entry(k, s).key = k /\ Entry(k, s).status = s
  BY <1>1, RecordMemory DEF Entry
<1>5. /\ Grows(file, file', {Entry(k, s)}) /\ ~Torn(file')
      /\ ~Torn(file) => FirmLoad(file', k) = s
  BY <1>2, <1>3, <1>4, PutGrows
<1>6. /\ WellFormed(file')
      /\ \A x \in Keys : Load(file')[x] = FirmLoad(file', x)
      /\ \A x \in Keys : x # k => FirmLoad(file', x) = FirmLoad(file, x)
  BY <1>5 DEF Grows, Entry
<1>7. FirmLoad(file', k) = FirmLoad(file, k) \/ FirmLoad(file', k) = s
  BY <1>5 DEF Grows, Entry
<1>8. MemoryType'
  <2>1. written' \in 0..MaxWrites /\ tears' \in 0..MaxTears
    BY <1>2, <1>3, CacheAssumption DEF MemoryType
  <2>2. durable' \subseteq Keys /\ stream' \in {"closed", "good", "bad"}
    BY <1>2, <1>3 DEF MemoryType
  <2>3. QED
    BY <1>1, <2>1, <2>2, RecordMemory DEF MemoryType
<1>9. SessionAnswered'
  BY <1>1, <1>2, RecordMemory DEF SessionAnswered
<1>10. OnlyOffered'
  <2>1. \A e \in {Entry(k, s)} : e.key \in Keys => e \in offered'
    BY <1>1, RecordMemory
  <2>2. offered \subseteq offered'
    BY <1>1, RecordMemory
  <2>3. \A n \in DOMAIN file' : \A m \in DOMAIN file'[n] :
           file'[n][m].key \in Keys => Entry(file'[n][m].key, file'[n][m].status) \in offered'
    BY <1>5, <2>1, <2>2, FragmentsOffered
  <2>4. QED
    BY <1>1, <2>3, RecordMemory DEF OnlyOffered
<1>11. LossSettled'
  <2> SUFFICES ASSUME NEW x \in durable'
               PROVE  /\ Load(file')[x] \in {last'[x], FirmLoad(file', x)}
                      /\ index'[x] \in {last'[x], FirmLoad(file', x)}
    BY DEF LossSettled
  <2>1. x \in Keys
    BY <1>2, <1>3 DEF MemoryType
  <2>2. CASE x = k
    BY <1>1, <1>6, <2>1, <2>2, RecordMemory
  <2>3. CASE x # k
    <3>1. x \in durable /\ x \in AllKeys
      BY <1>2, <2>1, <2>3 DEF AllKeys
    <3>2. index'[x] = index[x] /\ last'[x] = last[x]
      BY <1>1, <2>1, <2>3, <3>1, RecordMemory
    <3>3. index[x] \in {last[x], FirmLoad(file, x)}
      BY <1>2, <3>1 DEF CacheInv, LossSettled
    <3>4. QED
      BY <1>6, <2>1, <2>3, <3>2, <3>3
  <2>4. QED
    BY <2>2, <2>3
<1>12. LossCounted'
  <2>1. FirmlyLost' \subseteq (IF Torn(file) THEN FirmlyLost \cup {k} ELSE FirmlyLost)
    <3> SUFFICES ASSUME NEW x \in durable', FirmLoad(file', x) # last'[x],
                        ~(Torn(file) /\ x = k)
                 PROVE  x \in FirmlyLost
      BY DEF FirmlyLost
    <3>1. x # k
      BY <1>1, <1>5, RecordMemory
    <3>2. x \in durable /\ x \in Keys
      BY <1>2, <1>3, <3>1 DEF MemoryType
    <3>3. last'[x] = last[x] /\ FirmLoad(file', x) = FirmLoad(file, x)
      BY <1>1, <1>6, <3>1, <3>2, RecordMemory
    <3>4. QED
      BY <3>2, <3>3 DEF FirmlyLost
  <2>2. Cardinality(FirmlyLost') \in Nat /\ Cardinality(FirmlyLost') <= tears
    BY <2>1, CountingNext
  <2>3. QED
    BY <1>2, <1>5, <2>2 DEF LossCounted
<1>13. QED
  BY <1>1, <1>6, <1>8, <1>9, <1>10, <1>11, <1>12, TypePartsNext, RecordMemory DEF CacheInv

\* put() whose line is lost, on a bad stream or by a tear: durable forgets k.
LEMMA StepPutUnwritten ==
  ASSUME CacheInv, NEW k \in Keys, NEW s \in Statuses, PutUnwritten(k, s)
  PROVE  CacheInv'
<1>1. Record(k, s)
  BY DEF PutUnwritten
<1>2. /\ file' = file /\ stream = "bad" /\ stream' = stream /\ written' = written
      /\ tears' = tears /\ durable' = durable \ {k}
  BY DEF PutUnwritten
<1>3. WellFormed(file) /\ MemoryType
  BY CacheFacts
<1>4. MemoryType'
  <2>1. written' \in 0..MaxWrites /\ tears' \in 0..MaxTears
        /\ durable' \subseteq Keys /\ stream' \in {"closed", "good", "bad"}
    BY <1>2, <1>3 DEF MemoryType
  <2>2. QED
    BY <1>1, <2>1, RecordMemory DEF MemoryType
<1>5. SessionAnswered'
  BY <1>1, <1>2, RecordMemory DEF SessionAnswered
<1>6. OnlyOffered'
  <2>1. offered \subseteq offered'
    BY <1>1, RecordMemory
  <2>2. \A n \in DOMAIN file' : \A m \in DOMAIN file'[n] :
           file'[n][m].key \in Keys => Entry(file'[n][m].key, file'[n][m].status) \in offered'
    BY <1>2, <2>1 DEF CacheInv, OnlyOffered
  <2>3. QED
    BY <1>1, <2>2, RecordMemory DEF OnlyOffered
<1>7. ASSUME NEW x \in durable'
      PROVE  x \in durable /\ x # k /\ index'[x] = index[x] /\ last'[x] = last[x]
  <2>1. x \in durable /\ x # k /\ x \in Keys /\ x \in AllKeys
    BY <1>2, <1>3 DEF MemoryType, AllKeys
  <2>2. QED
    BY <1>1, <2>1, RecordMemory
<1>8. LossSettled'
  BY <1>2, <1>7 DEF CacheInv, LossSettled
<1>9. LossCounted'
  <2>1. FirmlyLost' \subseteq FirmlyLost
    BY <1>2, <1>7 DEF FirmlyLost
  <2>2. CASE Torn(file)
    <3>1. Cardinality(FirmlyLost') + 1 <= tears + 1
      BY <2>1, CountingTear
    <3>2. Cardinality(FirmlyLost) + 1 <= tears
      BY <2>2 DEF CacheInv, LossCounted
    <3>3. /\ Cardinality(FirmlyLost') \in Nat
          /\ Cardinality(FirmlyLost') <= Cardinality(FirmlyLost)
          /\ Cardinality(FirmlyLost) \in Nat
      BY <2>1, CacheFacts, FS_Subset, FS_CardinalityType
    <3>4. tears \in Nat
      BY <1>3, CacheAssumption DEF MemoryType
    <3>5. QED
      BY <1>2, <2>2, <3>2, <3>3, <3>4 DEF LossCounted
  <2>3. CASE ~Torn(file)
    <3>1. Cardinality(FirmlyLost') \in Nat /\ Cardinality(FirmlyLost') <= tears
      BY <2>1, <2>3, CountingNext
    <3>2. QED
      BY <1>2, <2>3, <3>1 DEF LossCounted
  <2>4. QED
    BY <2>2, <2>3
<1>10. QED
  BY <1>1, <1>2, <1>3, <1>4, <1>5, <1>6, <1>8, <1>9, TypePartsNext, RecordMemory DEF CacheInv

LEMMA StepPutDiskFull ==
  ASSUME CacheInv, NEW k \in Keys, NEW s \in Statuses, PutDiskFull(k, s)
  PROVE  CacheInv'
<1>1. Record(k, s) /\ Tear(<<Entry(k, s)>>) /\ durable' = durable \ {k} /\ stream' = "bad"
  BY DEF PutDiskFull
<1>2. WellFormed(file) /\ MemoryType
  BY CacheFacts
<1>3. <<Entry(k, s)>> \in Seq(Entries) /\ ToSet(<<Entry(k, s)>>) = {Entry(k, s)}
  <2>1. Entry(k, s) \in Entries
    BY <1>1, RecordMemory
  <2>2. QED
    BY <2>1 DEF ToSet
<1>4. /\ Grows(file, file', {Entry(k, s)}) /\ Torn(file')
      /\ tears' = tears + 1 /\ tears' \in 0..MaxTears /\ written' \in 0..MaxWrites
      /\ stream = "good"
  <2>1. written \in 0..MaxWrites /\ tears \in 0..MaxTears
    BY <1>2 DEF MemoryType
  <2>2. QED
    BY <1>1, <1>2, <1>3, <2>1, TearGrows
<1>5. /\ WellFormed(file')
      /\ \A x \in Keys : x # k => Load(file')[x] = FirmLoad(file', x)
      /\ \A x \in Keys : x # k => FirmLoad(file', x) = FirmLoad(file, x)
  BY <1>4 DEF Grows, Entry
<1>6. MemoryType'
  <2>1. durable' \subseteq Keys /\ stream' \in {"closed", "good", "bad"}
    BY <1>1, <1>2 DEF MemoryType
  <2>2. QED
    BY <1>1, <1>4, <2>1, RecordMemory DEF MemoryType
<1>7. SessionAnswered'
  BY <1>1, RecordMemory DEF SessionAnswered
<1>8. OnlyOffered'
  <2>1. \A e \in {Entry(k, s)} : e.key \in Keys => e \in offered'
    BY <1>1, RecordMemory
  <2>2. offered \subseteq offered'
    BY <1>1, RecordMemory
  <2>3. \A n \in DOMAIN file' : \A m \in DOMAIN file'[n] :
           file'[n][m].key \in Keys => Entry(file'[n][m].key, file'[n][m].status) \in offered'
    BY <1>4, <2>1, <2>2, FragmentsOffered
  <2>4. QED
    BY <1>1, <2>3, RecordMemory DEF OnlyOffered
<1>9. ASSUME NEW x \in durable'
      PROVE  /\ x \in durable /\ index'[x] = index[x] /\ last'[x] = last[x]
             /\ Load(file')[x] = FirmLoad(file', x) /\ FirmLoad(file', x) = FirmLoad(file, x)
  <2>1. x \in durable /\ x # k /\ x \in Keys /\ x \in AllKeys
    BY <1>1, <1>2 DEF MemoryType, AllKeys
  <2>2. QED
    BY <1>1, <1>5, <2>1, RecordMemory
<1>10. LossSettled'
  <2>1. \A x \in durable : index[x] \in {last[x], FirmLoad(file, x)}
    BY <1>4 DEF CacheInv, LossSettled
  <2>2. QED
    BY <1>9, <2>1 DEF LossSettled
<1>11. LossCounted'
  <2>1. FirmlyLost' \subseteq FirmlyLost
    BY <1>9 DEF FirmlyLost
  <2>2. QED
    BY <1>4, <2>1, CountingTear DEF LossCounted
<1>12. QED
  BY <1>1, <1>5, <1>6, <1>7, <1>8, <1>10, <1>11, TypePartsNext, RecordMemory DEF CacheInv


\* A step that ends the process leaves nothing in memory to disagree.
LEMMA ForgetMemory ==
  ASSUME CacheInv, Forget, last' = last, durable' \subseteq durable,
         written' \in 0..MaxWrites, tears' \in 0..MaxTears,
         offered' \subseteq [key : Keys, status : Statuses]
  PROVE  /\ MemoryType' /\ HitIsLatest' /\ SessionAnswered'
         /\ \A x \in Keys : index'[x] = Absent
<1>1. MemoryType
  BY CacheFacts
<1>2. /\ stream' = "closed" /\ lru' = <<>> /\ session' = {}
      /\ index' = [k \in AllKeys |-> Absent]
  BY DEF Forget
<1>3. LruType(<<>>)
  BY CacheAssumption DEF LruType
<1>4. MemoryType'
  BY <1>1, <1>2, <1>3 DEF MemoryType
<1>5. HitIsLatest' /\ SessionAnswered'
  BY <1>2 DEF HitIsLatest, SessionAnswered
<1>6. \A x \in Keys : index'[x] = Absent
  BY <1>2 DEF AllKeys
<1>7. QED
  BY <1>4, <1>5, <1>6

LEMMA StepStop ==
  ASSUME CacheInv, Stop
  PROVE  CacheInv'
<1>1. /\ Forget /\ file' = file /\ last' = last /\ durable' = durable
      /\ offered' = offered /\ written' = written /\ tears' = tears
  BY DEF Stop
<1>2. WellFormed(file) /\ MemoryType
  BY CacheFacts
<1>3. MemoryType' /\ HitIsLatest' /\ SessionAnswered' /\ \A x \in Keys : index'[x] = Absent
  BY <1>1, <1>2, ForgetMemory DEF MemoryType
<1>4. OnlyOffered'
  BY <1>1, <1>3 DEF CacheInv, OnlyOffered
<1>5. LossSettled'
  BY <1>1 DEF CacheInv, LossSettled, Forget
<1>6. LossCounted'
  BY <1>1 DEF CacheInv, LossCounted, FirmlyLost
<1>7. QED
  BY <1>1, <1>2, <1>3, <1>4, <1>5, <1>6, TypePartsNext DEF CacheInv

LEMMA StepPutDies ==
  ASSUME CacheInv, NEW k \in Keys, NEW s \in Statuses, PutDies(k, s)
  PROVE  CacheInv'
<1>1. /\ Tear(<<Entry(k, s)>>) /\ Forget /\ durable' = durable \ {k}
      /\ offered' = offered \cup {Entry(k, s)} /\ last' = last
  BY DEF PutDies
<1>2. WellFormed(file) /\ MemoryType
  BY CacheFacts
<1>3. <<Entry(k, s)>> \in Seq(Entries) /\ ToSet(<<Entry(k, s)>>) = {Entry(k, s)}
  <2>1. Entry(k, s) \in Entries
    BY DEF Entry, Entries, AllKeys
  <2>2. QED
    BY <2>1 DEF ToSet
<1>4. /\ Grows(file, file', {Entry(k, s)}) /\ Torn(file')
      /\ tears' = tears + 1 /\ tears' \in 0..MaxTears /\ written' \in 0..MaxWrites
  <2>1. written \in 0..MaxWrites /\ tears \in 0..MaxTears
    BY <1>2 DEF MemoryType
  <2>2. QED
    BY <1>1, <1>2, <1>3, <2>1, TearGrows
<1>5. offered' \subseteq [key : Keys, status : Statuses]
  BY <1>1, <1>2 DEF MemoryType, Entry
<1>6. MemoryType' /\ HitIsLatest' /\ SessionAnswered' /\ \A x \in Keys : index'[x] = Absent
  BY <1>1, <1>4, <1>5, ForgetMemory
<1>7. OnlyOffered'
  <2>1. (\A e \in {Entry(k, s)} : e.key \in Keys => e \in offered') /\ offered \subseteq offered'
    BY <1>1
  <2>2. \A n \in DOMAIN file' : \A m \in DOMAIN file'[n] :
           file'[n][m].key \in Keys => Entry(file'[n][m].key, file'[n][m].status) \in offered'
    BY <1>4, <2>1, FragmentsOffered
  <2>3. QED
    BY <1>6, <2>2 DEF OnlyOffered
<1>8. ASSUME NEW x \in durable'
      PROVE  /\ x \in durable /\ last'[x] = last[x]
             /\ Load(file')[x] = FirmLoad(file', x) /\ FirmLoad(file', x) = FirmLoad(file, x)
  <2>1. x \in durable /\ x # k /\ x \in Keys
    BY <1>1, <1>2 DEF MemoryType
  <2>2. QED
    BY <1>1, <1>4, <2>1 DEF Grows, Entry
<1>9. LossSettled'
  BY <1>1, <1>8 DEF LossSettled, Forget
<1>10. LossCounted'
  <2>1. FirmlyLost' \subseteq FirmlyLost
    BY <1>8 DEF FirmlyLost
  <2>2. QED
    BY <1>4, <2>1, CountingTear DEF LossCounted
<1>11. WellFormed(file')
  BY <1>4 DEF Grows
<1>12. QED
  BY <1>6, <1>7, <1>9, <1>10, <1>11, TypePartsNext DEF CacheInv

\* What a flush() writes, or tears, under the key of a pair is what the index
\* says, which was offered.
LEMMA HeldOffered ==
  ASSUME CacheInv, NEW e \in ToSet(lru), e.key \in Keys
  PROVE  e \in offered /\ e = Entry(e.key, index[e.key])
<1>1. e \in Entries /\ e.status = index[e.key]
  BY CacheFacts
<1>2. e = Entry(e.key, index[e.key]) /\ index[e.key] # Absent
  BY <1>1, CacheAssumption, EntryOf
<1>3. QED
  BY <1>2 DEF CacheInv, OnlyOffered

LEMMA FlushFirm ==
  ASSUME CacheInv, stream # "closed", Grows(file, file', ToSet(lru)),
         NEW x \in durable
  PROVE  /\ FirmLoad(file', x) \in {FirmLoad(file, x), index[x]}
         /\ Load(file')[x] \in {FirmLoad(file', x), index[x]}
         /\ index[x] \in {last[x], FirmLoad(file, x)}
         /\ index[x] \in {last[x], FirmLoad(file', x)}
<1>1. x \in Keys
  BY CacheFacts DEF MemoryType
<1>2. FirmLoad(file', x) = FirmLoad(file, x) \/ Entry(x, FirmLoad(file', x)) \in ToSet(lru)
  BY <1>1 DEF Grows
<1>3. Load(file')[x] = FirmLoad(file', x) \/ Entry(x, Load(file')[x]) \in ToSet(lru)
  BY <1>1 DEF Grows
<1>4. \A s : Entry(x, s) \in ToSet(lru) => s = index[x]
  BY CacheFacts DEF Entry
<1>5. index[x] \in {last[x], FirmLoad(file, x)}
  BY DEF CacheInv, LossSettled
<1>6. FirmLoad(file', x) = FirmLoad(file, x) \/ FirmLoad(file', x) = index[x]
  BY <1>2, <1>4
<1>7. Load(file')[x] = FirmLoad(file', x) \/ Load(file')[x] = index[x]
  BY <1>3, <1>4
<1>8. QED
  BY <1>5, <1>6, <1>7

LEMMA FlushKeepsIndex ==
  ASSUME CacheInv, Flush
  PROVE  index' = index
<1>1. index \in [AllKeys -> Statuses \cup {Absent}]
  BY CacheFacts DEF MemoryType
<1>2. ASSUME NEW k \in AllKeys, k \in Held
      PROVE  (CHOOSE e \in ToSet(lru) : e.key = k).status = index[k]
  <2>1. \E e \in ToSet(lru) : e.key = k
    BY <1>2 DEF Held, ToSet
  <2> DEFINE e == CHOOSE e \in ToSet(lru) : e.key = k
  <2>2. e \in ToSet(lru) /\ e.key = k
    BY <2>1
  <2>3. QED
    BY <2>2, CacheFacts
<1>3. index' = [k \in AllKeys |-> IF k \in Held
                                  THEN (CHOOSE e \in ToSet(lru) : e.key = k).status
                                  ELSE index[k]]
  BY DEF Flush
<1>4. \A k \in AllKeys : index'[k] = index[k]
  BY <1>2, <1>3
<1>5. QED
  BY <1>1, <1>3, <1>4

LEMMA StepFlush ==
  ASSUME CacheInv, Flush
  PROVE  CacheInv'
<1>1. /\ stream = "good" /\ file' = AppendAll(file, lru)
      /\ written + Len(lru) <= MaxWrites /\ written' = written + Len(lru)
      /\ stream' = stream /\ lru' = lru /\ tears' = tears /\ last' = last
      /\ session' = session /\ durable' = durable /\ offered' = offered
  BY DEF Flush
<1>2. index' = index
  BY FlushKeepsIndex
<1>3. WellFormed(file) /\ MemoryType /\ lru \in Seq(Entries)
  BY CacheFacts
<1>4. MemoryType'
  <2>1. written' \in 0..MaxWrites
    BY <1>1, <1>3, CacheAssumption, LenProperties DEF MemoryType
  <2>2. QED
    BY <1>1, <1>2, <1>3, <2>1 DEF MemoryType
<1>5. HitIsLatest' /\ SessionAnswered'
  BY <1>1, <1>2 DEF CacheInv, HitIsLatest, SessionAnswered
<1>6. CASE lru = <<>>
  <2>1. file' = file
    BY <1>1, <1>6 DEF AppendAll
  <2>2. OnlyOffered' /\ LossSettled' /\ LossCounted'
    BY <1>1, <1>2, <2>1 DEF CacheInv, OnlyOffered, LossSettled, LossCounted, FirmlyLost
  <2>3. QED
    BY <1>3, <1>4, <1>5, <2>1, <2>2, TypePartsNext DEF CacheInv
<1>7. CASE lru # <<>>
  <2>1. Grows(file, file', ToSet(lru)) /\ ~Torn(file')
    BY <1>1, <1>3, <1>7, FlushGrows
  <2>2. WellFormed(file') /\ \A x \in Keys : Load(file')[x] = FirmLoad(file', x)
    BY <2>1 DEF Grows
  <2>3. OnlyOffered'
    <3>1. \A e \in ToSet(lru) : e.key \in Keys => e \in offered'
      BY <1>1, HeldOffered
    <3>2. offered \subseteq offered'
      BY <1>1
    <3>3. \A n \in DOMAIN file' : \A m \in DOMAIN file'[n] :
             file'[n][m].key \in Keys => Entry(file'[n][m].key, file'[n][m].status) \in offered'
      BY <2>1, <3>1, <3>2, FragmentsOffered
    <3>4. QED
      BY <1>1, <1>2, <3>3 DEF CacheInv, OnlyOffered
  <2>4. LossSettled'
    <3> SUFFICES ASSUME NEW x \in durable
                 PROVE  /\ Load(file')[x] \in {last[x], FirmLoad(file', x)}
                        /\ index[x] \in {last[x], FirmLoad(file', x)}
      BY <1>1, <1>2 DEF LossSettled
    <3>1. x \in Keys
      BY <1>3 DEF MemoryType
    <3>2. QED
      BY <1>1, <2>1, <2>2, <3>1, FlushFirm
  <2>5. LossCounted'
    <3>1. FirmlyLost' \subseteq FirmlyLost
      <4> SUFFICES ASSUME NEW x \in durable, FirmLoad(file', x) # last[x]
                   PROVE  FirmLoad(file, x) # last[x]
        BY <1>1 DEF FirmlyLost
      <4>1. /\ FirmLoad(file', x) \in {FirmLoad(file, x), index[x]}
            /\ index[x] \in {last[x], FirmLoad(file, x)}
        BY <1>1, <2>1, FlushFirm
      <4>2. QED
        BY <4>1
    <3>2. Cardinality(FirmlyLost') \in Nat /\ Cardinality(FirmlyLost') <= tears
      <4>1. FirmlyLost' \subseteq (IF Torn(file) THEN FirmlyLost \cup {Absent} ELSE FirmlyLost)
        BY <3>1
      <4>2. QED
        BY <4>1, CountingNext
    <3>3. QED
      BY <1>1, <2>1, <3>2 DEF LossCounted
  <2>6. QED
    BY <1>4, <1>5, <2>2, <2>3, <2>4, <2>5, TypePartsNext DEF CacheInv
<1>8. QED
  BY <1>6, <1>7

LEMMA StepFlushDies ==
  ASSUME CacheInv, FlushDies
  PROVE  CacheInv'
<1>1. /\ Tear(lru) /\ Forget /\ last' = last /\ durable' = durable /\ offered' = offered
  BY DEF FlushDies
<1>2. WellFormed(file) /\ MemoryType /\ lru \in Seq(Entries)
  BY CacheFacts
<1>3. /\ Grows(file, file', ToSet(lru)) /\ Torn(file') /\ stream = "good"
      /\ tears' = tears + 1 /\ tears' \in 0..MaxTears /\ written' \in 0..MaxWrites
  <2>1. written \in 0..MaxWrites /\ tears \in 0..MaxTears
    BY <1>2 DEF MemoryType
  <2>2. QED
    BY <1>1, <1>2, <2>1, TearGrows
<1>4. MemoryType' /\ HitIsLatest' /\ SessionAnswered' /\ \A x \in Keys : index'[x] = Absent
  <2>1. offered' \subseteq [key : Keys, status : Statuses]
    BY <1>1, <1>2 DEF MemoryType
  <2>2. QED
    BY <1>1, <1>3, <2>1, ForgetMemory
<1>5. OnlyOffered'
  <2>1. \A e \in ToSet(lru) : e.key \in Keys => e \in offered'
    BY <1>1, HeldOffered
  <2>2. offered \subseteq offered'
    BY <1>1
  <2>3. \A n \in DOMAIN file' : \A m \in DOMAIN file'[n] :
           file'[n][m].key \in Keys => Entry(file'[n][m].key, file'[n][m].status) \in offered'
    BY <1>3, <2>1, <2>2, FragmentsOffered
  <2>4. QED
    BY <1>4, <2>3 DEF OnlyOffered
<1>6. LossSettled'
  <2>1. \A x \in durable : Load(file')[x] \in {last[x], FirmLoad(file', x)}
    <3> TAKE x \in durable
    <3>1. /\ Load(file')[x] \in {FirmLoad(file', x), index[x]}
          /\ index[x] \in {last[x], FirmLoad(file', x)}
      BY <1>3, FlushFirm
    <3>2. QED
      BY <3>1
  <2>2. QED
    BY <1>1, <2>1 DEF LossSettled, Forget
<1>7. LossCounted'
  <2>1. FirmlyLost' \subseteq FirmlyLost
    <3> SUFFICES ASSUME NEW x \in durable, FirmLoad(file', x) # last[x]
                 PROVE  FirmLoad(file, x) # last[x]
      BY <1>1 DEF FirmlyLost
    <3>1. /\ FirmLoad(file', x) \in {FirmLoad(file, x), index[x]}
          /\ index[x] \in {last[x], FirmLoad(file, x)}
      BY <1>3, FlushFirm
    <3>2. QED
      BY <3>1
  <2>2. QED
    BY <1>3, <2>1, CountingTear DEF LossCounted
<1>8. WellFormed(file')
  BY <1>3 DEF Grows
<1>9. QED
  BY <1>4, <1>5, <1>6, <1>7, <1>8, TypePartsNext DEF CacheInv

LEMMA FileOffered ==
  ASSUME CacheInv, NEW k \in Keys, Load(file)[k] # Absent
  PROVE  Entry(k, Load(file)[k]) \in offered
<1>1. PICK n \in DOMAIN file :
        1 \in DOMAIN file[n] /\ file[n][1].key = k /\ Load(file)[k] = file[n][1].status
  BY CacheFacts, LoadFromLine
<1>2. Entry(file[n][1].key, file[n][1].status) \in offered
  BY <1>1 DEF CacheInv, OnlyOffered
<1>3. QED
  BY <1>1, <1>2

LEMMA StepOpen ==
  ASSUME CacheInv, Open
  PROVE  CacheInv'
<1>1. /\ stream' = "good" /\ index' = Load(file) /\ lru' \in Warm(Load(file))
      /\ session' = {} /\ file' = file /\ written' = written /\ tears' = tears
      /\ last' = last /\ durable' = durable /\ offered' = offered
  BY DEF Open
<1>2. WellFormed(file) /\ MemoryType
  BY CacheFacts
<1>3. Load(file) \in [AllKeys -> Statuses \cup {Absent}]
  BY <1>2, LoadType
<1>4. LruType(lru') /\ \A n \in DOMAIN lru' : index'[lru'[n].key] = lru'[n].status
  BY <1>1, <1>3, WarmFacts
<1>5. MemoryType'
  BY <1>1, <1>2, <1>3, <1>4 DEF MemoryType
<1>6. HitIsLatest' /\ SessionAnswered'
  BY <1>1, <1>4 DEF HitIsLatest, SessionAnswered
<1>7. OnlyOffered'
  BY <1>1, FileOffered DEF CacheInv, OnlyOffered
<1>8. LossSettled'
  BY <1>1 DEF CacheInv, LossSettled
<1>9. LossCounted'
  BY <1>1 DEF CacheInv, LossCounted, FirmlyLost
<1>10. QED
  BY <1>1, <1>2, <1>5, <1>6, <1>7, <1>8, <1>9, TypePartsNext DEF CacheInv

LEMMA StepLookup ==
  ASSUME CacheInv, NEW k \in Keys, Lookup(k)
  PROVE  CacheInv'
<1>1. /\ lru' = IF Hit(k) THEN Remember(lru, Entry(k, index[k])) ELSE lru
      /\ file' = file /\ stream' = stream /\ index' = index /\ written' = written
      /\ tears' = tears /\ last' = last /\ session' = session
      /\ durable' = durable /\ offered' = offered
  BY DEF Lookup
<1>2. WellFormed(file) /\ MemoryType
  BY CacheFacts
<1>3. LruType(lru') /\ \A n \in DOMAIN lru' : index[lru'[n].key] = lru'[n].status
  <2>1. CASE Hit(k)
    <3> DEFINE e == Entry(k, index[k])
    <3>1. e \in Entries /\ e.key = k /\ e.status = index[k]
      BY <1>2, <2>1 DEF MemoryType, Hit, Entry, Entries, AllKeys
    <3> HIDE DEF e
    <3>2. lru' = Remember(lru, e)
      BY <1>1, <2>1 DEF e
    <3>3. LruType(lru') /\ \A n \in DOMAIN lru' :
            lru'[n] = e \/ \E m \in DOMAIN lru : lru'[n] = lru[m]
      BY <1>2, <3>1, <3>2, RememberFacts DEF MemoryType
    <3>4. \A m \in DOMAIN lru : index[lru[m].key] = lru[m].status
      BY DEF CacheInv, HitIsLatest
    <3>5. QED
      BY <3>1, <3>3, <3>4
  <2>2. CASE ~Hit(k)
    BY <1>1, <1>2, <2>2 DEF MemoryType, CacheInv, HitIsLatest
  <2>3. QED
    BY <2>1, <2>2
<1>4. MemoryType'
  BY <1>1, <1>2, <1>3 DEF MemoryType
<1>5. HitIsLatest' /\ SessionAnswered' /\ OnlyOffered'
  BY <1>1, <1>3 DEF CacheInv, HitIsLatest, SessionAnswered, OnlyOffered
<1>6. LossSettled' /\ LossCounted'
  BY <1>1 DEF CacheInv, LossSettled, LossCounted, FirmlyLost
<1>7. QED
  BY <1>1, <1>2, <1>4, <1>5, <1>6, TypePartsNext DEF CacheInv


-----------------------------------------------------------------------------
(* The workers, and the theorems *)

WorkerType ==
  /\ asking \in [Workers -> Pairs \cup {Absent}]
  /\ verdict \in [Workers -> Statuses \cup {Absent}]
  /\ solving = {w \in Workers : asking[w] # Absent /\ verdict[w] = Absent}

LEMMA SolverAnswers ==
  ASSUME WorkerType, NEW w \in solving, NEW s \in Possible(asking[w])
  PROVE  w \in Workers /\ asking[w] \in Pairs /\ KeyOf[asking[w]] \in Keys
         /\ s \in Statuses /\ s # Absent
<1>1. w \in Workers /\ asking[w] \in Pairs
  BY DEF WorkerType
<1>2. QED
  BY <1>1, VerifierAssumption, CacheAssumption DEF Possible

LEMMA StepCache ==
  ASSUME CacheInv, WorkerType, [VerifierNext]_verifierVars
  PROVE  CacheInv'
<1>1. CASE UNCHANGED verifierVars
  <2>1. /\ file' = file /\ stream' = stream /\ lru' = lru /\ index' = index
        /\ written' = written /\ tears' = tears /\ last' = last /\ session' = session
        /\ durable' = durable /\ offered' = offered
    BY <1>1 DEF verifierVars, cacheVars
  <2>2. CacheType' /\ HitIsLatest' /\ SessionAnswered'
    <3>1. WellFormed(file') /\ MemoryType'
      BY <2>1, CacheFacts DEF MemoryType
    <3>2. QED
      BY <2>1, <3>1, TypePartsNext DEF CacheInv, HitIsLatest, SessionAnswered
  <2>3. OnlyOffered' /\ LossSettled' /\ LossCounted'
    BY <2>1 DEF CacheInv, OnlyOffered, LossSettled, LossCounted, FirmlyLost
  <2>4. QED
    BY <2>2, <2>3 DEF CacheInv
<1>2. CASE Restart
  BY <1>2, StepOpen DEF Restart
<1>3. CASE Die
  <2>1. CASE Stop
    BY <2>1, StepStop
  <2>2. CASE FlushDies
    BY <2>2, StepFlushDies
  <2>3. ASSUME NEW w \in solving, NEW s \in Possible(asking[w]), PutDies(KeyOf[asking[w]], s)
        PROVE  CacheInv'
    BY <2>3, SolverAnswers, StepPutDies
  <2>4. QED
    BY <1>3, <2>1, <2>2, <2>3 DEF Die
<1>4. CASE Checkpoint
  BY <1>4, StepFlush DEF Checkpoint
<1>5. ASSUME NEW w \in Workers, NEW p \in Pairs, AnswerFromCache(w, p) \/ AskSolver(w, p)
      PROVE  CacheInv'
  <2>1. Lookup(KeyOf[p]) /\ KeyOf[p] \in Keys
    BY <1>5, VerifierAssumption DEF AnswerFromCache, AskSolver
  <2>2. QED
    BY <2>1, StepLookup
<1>6. ASSUME NEW w \in Workers, NEW s \in Statuses, Answer(w, s)
      PROVE  CacheInv'
  <2>1. w \in solving /\ s \in Possible(asking[w]) /\ Store(w, s)
    BY <1>6 DEF Answer
  <2> DEFINE k == KeyOf[asking[w]]
  <2>2. k \in Keys
    BY <2>1, SolverAnswers
  <2>3. Put(k, s) \/ PutUnwritten(k, s) \/ PutDiskFull(k, s)
    BY <2>1 DEF Store
  <2> HIDE DEF k
  <2>4. QED
    BY <2>2, <2>3, StepPut, StepPutUnwritten, StepPutDiskFull
<1>7. QED
  BY <1>1, <1>2, <1>3, <1>4, <1>5, <1>6 DEF VerifierNext

LEMMA StepWorkers ==
  ASSUME CacheInv, WorkerType, [VerifierNext]_verifierVars
  PROVE  WorkerType'
<1>1. CASE UNCHANGED workerVars
  BY <1>1 DEF workerVars, WorkerType
<1>2. CASE AllGone
  BY <1>2 DEF AllGone, WorkerType
<1>3. ASSUME NEW w \in Workers, NEW p \in Pairs, AnswerFromCache(w, p)
      PROVE  WorkerType'
  <2>1. /\ asking' = [asking EXCEPT ![w] = p] /\ solving' = solving /\ w \notin solving
        /\ verdict' = [verdict EXCEPT ![w] = index[KeyOf[p]]] /\ Hit(KeyOf[p])
    BY <1>3 DEF AnswerFromCache, Idle
  <2>2. index[KeyOf[p]] \in Statuses
    <3>1. KeyOf[p] \in AllKeys
      BY VerifierAssumption DEF AllKeys
    <3>2. QED
      BY <2>1, <3>1, CacheFacts DEF MemoryType, Hit
  <2>3. QED
    BY <2>1, <2>2, CacheAssumption DEF WorkerType
<1>4. ASSUME NEW w \in Workers, NEW p \in Pairs, AskSolver(w, p)
      PROVE  WorkerType'
  <2>1. /\ asking' = [asking EXCEPT ![w] = p] /\ solving' = solving \cup {w}
        /\ verdict' = [verdict EXCEPT ![w] = Absent]
    BY <1>4 DEF AskSolver
  <2>2. QED
    BY <2>1, VerifierAssumption DEF WorkerType
<1>5. ASSUME NEW w \in Workers, NEW s \in Statuses, Answer(w, s)
      PROVE  WorkerType'
  <2>1. /\ w \in solving /\ s \in Possible(asking[w]) /\ solving' = solving \ {w}
        /\ verdict' = [verdict EXCEPT ![w] = s] /\ asking' = asking
    BY <1>5 DEF Answer
  <2>2. QED
    BY <2>1, CacheAssumption DEF WorkerType
<1>6. QED
  BY <1>1, <1>2, <1>3, <1>4, <1>5
     DEF VerifierNext, verifierVars, Restart, Die, Checkpoint

LEMMA VerifierInvariant == VerifierSpec => [](CacheInv /\ WorkerType)
<1>1. VerifierInit => CacheInv /\ WorkerType
  <2> SUFFICES ASSUME VerifierInit PROVE CacheInv /\ WorkerType
    OBVIOUS
  <2>1. CacheInv
    BY CacheInitHolds DEF VerifierInit
  <2>2. WorkerType
    BY DEF VerifierInit, WorkerType
  <2>3. QED
    BY <2>1, <2>2
<1>2. CacheInv /\ WorkerType /\ [VerifierNext]_verifierVars => (CacheInv /\ WorkerType)'
  BY StepCache, StepWorkers
<1>3. QED
  BY <1>1, <1>2, PTL DEF VerifierSpec

\* verify() and the cache keep their types: one LRU entry per key within the
\* capacity, only the last line torn, and a worker is with the solver exactly
\* while its pair has no answer.
THEOREM VerifierTypeCorrect == VerifierSpec => []VerifierTypeOK
<1>1. CacheInv /\ WorkerType => VerifierTypeOK
  BY DEF CacheInv, CacheType, WorkerType, VerifierTypeOK
<1>2. QED
  BY <1>1, VerifierInvariant, PTL

\* Within a process the tiers agree, and answer a pair with its last verdict,
\* through any evictions, full disks and flushes.
THEOREM VerifierHitIsLatest == VerifierSpec => []HitIsLatest
<1>1. CacheInv => HitIsLatest
  BY DEF CacheInv
<1>2. QED
  BY <1>1, VerifierInvariant, PTL

\* What the file answers for a pair somebody put there for it, and every
\* append cut short loses at most one durable verdict, however many follow.
THEOREM VerifierDamageContained == VerifierSpec => []DamageContained
<1>1. CacheInv => DamageContained
  <2> SUFFICES ASSUME CacheInv PROVE DamageContained
    OBVIOUS
  <2>1. \A k \in Keys : Load(file)[k] # Absent => Entry(k, Load(file)[k]) \in offered
    BY FileOffered
  <2>2. Lost \subseteq FirmlyLost
    BY DEF Lost, FirmlyLost, CacheInv, LossSettled
  <2>3. Cardinality(Lost) <= tears
    <3>1. Lost \subseteq (IF Torn(file) THEN FirmlyLost \cup {Absent} ELSE FirmlyLost)
      BY <2>2
    <3>2. QED
      BY <3>1, CountingNext
  <2>4. QED
    BY <2>1, <2>3 DEF DamageContained
<1>2. QED
  BY <1>1, VerifierInvariant, PTL

\* A pair answered in this process never goes to the solver again.
THEOREM VerifierNeverAsksAgain == VerifierSpec => NeverAskedAgain
<1>1. ASSUME CacheInv, WorkerType, [VerifierNext]_verifierVars
      PROVE  [\A w \in solving' \ solving : KeyOf[asking'[w]] \notin session]_verifierVars
  <2> SUFFICES ASSUME NEW v \in solving' \ solving PROVE KeyOf[asking'[v]] \notin session
    OBVIOUS
  <2>1. CASE solving' \subseteq solving
    BY <2>1
  <2>2. ASSUME NEW w \in Workers, NEW p \in Pairs, AskSolver(w, p)
        PROVE  KeyOf[asking'[v]] \notin session
    <3>1. /\ asking' = [asking EXCEPT ![w] = p] /\ solving' = solving \cup {w}
          /\ ~Hit(KeyOf[p])
      BY <2>2 DEF AskSolver
    <3>2. v = w /\ asking'[v] = p
      BY <1>1, <3>1 DEF WorkerType
    <3>3. ASSUME KeyOf[p] \in session PROVE FALSE
      BY <1>1, <3>1, <3>3 DEF Hit, CacheInv, HitIsLatest, SessionAnswered
    <3>4. QED
      BY <3>2, <3>3
  <2>3. QED
    BY <1>1, <2>1, <2>2 DEF VerifierNext, verifierVars, workerVars, Restart, Die, AllGone,
                      Checkpoint, AnswerFromCache, Answer
<1>2. QED
  BY <1>1, VerifierInvariant, PTL DEF VerifierSpec, NeverAskedAgain

-----------------------------------------------------------------------------
(* What the verdicts are worth *)

\* Every entry offered to the cache is an answer to a pair with its key.
OfferedSound ==
  \A e \in offered : \E p \in Pairs : KeyOf[p] = e.key /\ e.status \in Possible(p)

LEMMA StepOffered ==
  ASSUME CacheInv, WorkerType, OfferedSound, [VerifierNext]_verifierVars
  PROVE  OfferedSound'
<1>1. CASE offered' = offered
  BY <1>1 DEF OfferedSound
<1>2. ASSUME NEW w \in solving, NEW s \in Possible(asking[w]),
             offered' = offered \cup {Entry(KeyOf[asking[w]], s)}
      PROVE  OfferedSound'
  <2>1. asking[w] \in Pairs
    BY SolverAnswers
  <2>2. QED
    BY <1>2, <2>1 DEF OfferedSound, Entry
<1>3. CASE Die
  BY <1>1, <1>2, <1>3 DEF Die, Stop, FlushDies, PutDies
<1>4. ASSUME NEW w \in Workers, NEW s \in Statuses, Answer(w, s)
      PROVE  OfferedSound'
  <2>1. w \in solving /\ s \in Possible(asking[w])
    BY <1>4 DEF Answer
  <2>2. offered' = offered \cup {Entry(KeyOf[asking[w]], s)}
    BY <1>4 DEF Answer, Store, Put, PutUnwritten, PutDiskFull, Record
  <2>3. QED
    BY <1>2, <2>1, <2>2
<1>5. QED
  BY <1>1, <1>3, <1>4
     DEF VerifierNext, verifierVars, cacheVars, Restart, Open, Checkpoint, Flush,
         AnswerFromCache, AskSolver, Lookup

LEMMA StepVerdicts ==
  ASSUME CacheInv, WorkerType, OfferedSound, VerdictsSound,
         [VerifierNext]_verifierVars
  PROVE  VerdictsSound'
<1> SUFFICES ASSUME NEW v \in Workers, verdict'[v] \in {"Equivalent", "NotEquivalent"}
             PROVE  DecidedOfKey(verdict'[v], asking'[v])
  BY DEF VerdictsSound
<1>1. CASE verdict'[v] = verdict[v] /\ asking'[v] = asking[v]
  BY <1>1 DEF VerdictsSound
<1>2. CASE AllGone
  <2>1. verdict'[v] = Absent
    BY <1>2 DEF AllGone
  <2>2. QED
    BY <2>1, VerifierAssumption, CacheAssumption
<1>3. ASSUME NEW w \in Workers, NEW p \in Pairs, AnswerFromCache(w, p)
      PROVE  DecidedOfKey(verdict'[v], asking'[v])
  <2>1. /\ asking' = [asking EXCEPT ![w] = p] /\ Hit(KeyOf[p])
        /\ verdict' = [verdict EXCEPT ![w] = index[KeyOf[p]]]
    BY <1>3 DEF AnswerFromCache
  <2>2. CASE v = w
    <3>1. verdict'[v] = index[KeyOf[p]] /\ asking'[v] = p
      BY <2>1, <2>2 DEF WorkerType
    <3>2. Entry(KeyOf[p], index[KeyOf[p]]) \in offered
      BY <2>1, VerifierAssumption DEF Hit, CacheInv, OnlyOffered
    <3>3. PICK q \in Pairs : KeyOf[q] = KeyOf[p] /\ index[KeyOf[p]] \in Possible(q)
      BY <3>2 DEF OfferedSound, Entry
    <3>4. QED
      BY <3>1, <3>3 DEF Possible, DecidedOfKey
  <2>3. CASE v # w
    BY <1>1, <2>1, <2>3 DEF WorkerType
  <2>4. QED
    BY <2>2, <2>3
<1>4. ASSUME NEW w \in Workers, NEW p \in Pairs, AskSolver(w, p)
      PROVE  DecidedOfKey(verdict'[v], asking'[v])
  <2>1. /\ asking' = [asking EXCEPT ![w] = p] /\ verdict' = [verdict EXCEPT ![w] = Absent]
    BY <1>4 DEF AskSolver
  <2>2. Absent \notin {"Equivalent", "NotEquivalent"}
    BY VerifierAssumption, CacheAssumption
  <2>3. v # w
    BY <2>1, <2>2 DEF WorkerType
  <2>4. QED
    BY <1>1, <2>1, <2>3 DEF WorkerType
<1>5. ASSUME NEW w \in Workers, NEW s \in Statuses, Answer(w, s)
      PROVE  DecidedOfKey(verdict'[v], asking'[v])
  <2>1. /\ s \in {Truth[asking[w]], "Unknown"} /\ asking' = asking
        /\ verdict' = [verdict EXCEPT ![w] = s]
    BY <1>5 DEF Answer, Possible
  <2>2. CASE v = w
    <3>1. verdict'[v] = s /\ asking'[v] = asking[w] /\ s = Truth[asking[w]]
      BY <2>1, <2>2 DEF WorkerType
    <3>2. asking[w] \in Pairs
      BY <1>5, SolverAnswers DEF Answer
    <3>3. QED
      BY <3>1, <3>2 DEF DecidedOfKey
  <2>3. CASE v # w
    BY <1>1, <2>1, <2>3 DEF WorkerType
  <2>4. QED
    BY <2>2, <2>3
<1>6. QED
  BY <1>1, <1>2, <1>3, <1>4, <1>5
     DEF VerifierNext, verifierVars, workerVars, Restart, Die, Checkpoint

\* verify() returns only decisions the solver would make of a pair with the
\* key of the one asked about, whatever is evicted, torn, reloaded or answered
\* concurrently, and whichever pairs share a key: a collision can pass on the
\* answer to another pair, and nothing else can.
THEOREM VerifierVerdictsSound == VerifierSpec => []VerdictsSound
<1>1. VerifierInit => OfferedSound /\ VerdictsSound
  <2> SUFFICES ASSUME VerifierInit PROVE OfferedSound /\ VerdictsSound
    OBVIOUS
  <2>1. OfferedSound
    BY DEF VerifierInit, CacheInit, OfferedSound
  <2>2. Absent \notin {"Equivalent", "NotEquivalent"}
    BY VerifierAssumption, CacheAssumption
  <2>3. QED
    BY <2>1, <2>2 DEF VerifierInit, VerdictsSound
<1>2. CacheInv /\ WorkerType /\ OfferedSound /\ VerdictsSound /\ [VerifierNext]_verifierVars
        => (OfferedSound /\ VerdictsSound)'
  BY StepOffered, StepVerdicts
<1>3. QED
  BY <1>1, <1>2, VerifierInvariant, PTL DEF VerifierSpec


=============================================================================
