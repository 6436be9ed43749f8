---------------------------- MODULE RewriteCache ----------------------------
(***************************************************************************)
(* clunk::search::RewriteCache (include/clunk/Search/RewriteCache.h,       *)
(* src/Search/RewriteCache.cpp): verdicts of the SMT verifier, keyed by    *)
(* the hashes of the two functions it compared.                            *)
(*                                                                         *)
(* Two tiers: a bounded LRU, and an append-only text file, one entry per   *)
(* line, that is parsed into an index when a process opens the cache.      *)
(* Every public method holds the one mutex, so each is one step.  The file *)
(* outlives the process; everything else is lost with it.                  *)
(*                                                                         *)
(* An append may be cut short, by the death of the process or by a full    *)
(* disk.  The file then ends inside a line, and open_file() appends: what  *)
(* the next put() writes continues the torn line.  A line is therefore a   *)
(* sequence of fragments, and the position of a cut decides what           *)
(* parse_line() makes of the whole:                                        *)
(*   "none"     the entry and its newline were written                     *)
(*   "message"  all the numeric fields were, but not the newline: the line *)
(*              is read, whatever follows is taken for its message         *)
(*   "stamp"    the cut is inside the timestamp: read if nothing follows,  *)
(*              out of range and rejected if another line's digits do      *)
(*   "body"     the line is rejected                                       *)
(*   "lhs"      only the first digit of lhs_hash was written, and with     *)
(*              the digits that follow it still is a 64-bit number         *)
(***************************************************************************)
EXTENDS Naturals, Sequences, FiniteSets, SequencesExt

CONSTANTS Keys,        \* packed (lhs, rhs) keys of the pairs ever verified
          Mangled,     \* the key read when two lines' digits run together
          Statuses,    \* VerificationResult::Status
          Absent,      \* no entry
          Capacity,    \* capacity_ of the LRU
          Cuts,        \* where an append may be cut short
          MaxWrites,   \* bound: fragments ever appended to the file
          MaxTears     \* bound: appends cut short

AllKeys == Keys \cup {Mangled}

ASSUME CacheAssumption ==
  /\ IsFiniteSet(Keys) /\ Mangled \notin Keys
  /\ Absent \notin Statuses /\ Absent \notin AllKeys
  /\ Capacity \in Nat \ {0}
  /\ Cuts \subseteq {"message", "stamp", "body", "lhs"}
  /\ MaxWrites \in Nat /\ MaxTears \in Nat

VARIABLES
  file,       \* the lines of the cache file
  stream,     \* file_out_: "closed" (no process), "good" or "bad"
  lru,        \* lru_list_ and in_memory_: entries, most recent first
  index,      \* file_index_
  written,    \* fragments appended so far
  tears,      \* appends cut short so far
  last,       \* history: per key, the verdict of the last completed put()
  session,    \* history: keys put() by the running process
  durable,    \* history: keys whose last put() wrote its whole line
  offered     \* history: the entries any put() tried to write

cacheVars == <<file, stream, lru, index, written, tears,
               last, session, durable, offered>>

Entry(k, s) == [key |-> k, status |-> s]
Cut(e, c)   == [key |-> e.key, status |-> e.status, cut |-> c]
Whole(e)    == Cut(e, "none")

-----------------------------------------------------------------------------
(* The file *)

\* The file does not end with a newline.
Torn(f) == f # <<>> /\ Last(Last(f)).cut # "none"

AppendTo(f, frag) ==
  IF Torn(f) THEN Append(Front(f), Append(Last(f), frag))
             ELSE Append(f, <<frag>>)

\* Of several entries only the first can continue a torn line.
AppendAll(f, es) ==
  IF es = <<>> THEN f
  ELSE AppendTo(f, Whole(es[1]))
         \o [n \in 1..(Len(es) - 1) |-> <<Whole(es[n + 1])>>]

\* The entries before the i-th are written, the i-th is cut short.
AppendCut(f, es, i, c) ==
  AppendTo(AppendAll(f, SubSeq(es, 1, i - 1)), Cut(es[i], c))

NoEntry == Entry(Absent, Absent)

\* Mutant: a parser that takes the hashes from the end of the line.
Parse_FromEnd(line) ==
  Entry(Last(line).key, Head(line).status)

\* parse_line(): the first fragment supplies the numeric fields, unless it
\* ends inside lhs_hash and the second one does.
Parse(line) ==
  LET n  == IF line[1].cut = "lhs" THEN 2 ELSE 1
      ok == /\ n \in DOMAIN line
            /\ \/ line[n].cut \in {"none", "message"}
               \/ line[n].cut = "stamp" /\ n = Len(line)
  IN  IF ~ok THEN NoEntry
      ELSE Entry(IF n = 2 THEN Mangled ELSE line[1].key, line[n].status)

\* load_file_index(): last write wins.
Load(f) ==
  [k \in AllKeys |->
     LET at == {n \in DOMAIN f : Parse(f[n]).key = k}
     IN  IF at = {} THEN Absent ELSE Parse(f[Max(at)]).status]

-----------------------------------------------------------------------------
(* The in-process tier *)

\* The position of the key's node, or the one after the last.
Place(es, k) ==
  LET at == {n \in DOMAIN es : es[n].key = k}
  IN  IF at = {} THEN Len(es) + 1 ELSE CHOOSE n \in at : TRUE

\* e in front; what stood before the place moves back by one.
MoveToFront(es, e, size) ==
  [n \in 1..size |-> IF n = 1 THEN e
                    ELSE IF n <= Place(es, e.key) THEN es[n - 1] ELSE es[n]]

\* Mutant: the size is compared with the capacity before the insertion.
Remember_EvictLate(es, e) ==
  MoveToFront(es, e, Min({Capacity + 1, Max({Len(es), Place(es, e.key)})}))

\* Mutant: put() that replaces the map's copy of a present entry and leaves
\* the list node, which a later flush() or eviction goes by.
Remember_StaleNode(es, e) ==
  IF \E n \in DOMAIN es : es[n].key = e.key THEN es
  ELSE SubSeq(<<e>> \o es, 1, Min({Capacity, Len(es) + 1}))

\* The entry becomes the most recent one; the least recent one is evicted.
Remember(es, e) ==
  MoveToFront(es, e, Min({Capacity, Max({Len(es), Place(es, e.key)})}))

Held == {lru[n].key : n \in DOMAIN lru}

\* warmup() copies entries of the unordered index until the LRU is full.
Warm(ix) ==
  LET present == {k \in AllKeys : ix[k] # Absent}
      n       == Min({Capacity, Cardinality(present)})
  IN  {[i \in 1..n |-> Entry(order[i], ix[order[i]])] :
         order \in {o \in [1..n -> present] : IsInjective(o)}}

-----------------------------------------------------------------------------
(* One process *)

CacheInit ==
  /\ file = <<>> /\ stream = "closed"
  /\ lru = <<>> /\ index = [k \in AllKeys |-> Absent]
  /\ written = 0 /\ tears = 0
  /\ last = [k \in Keys |-> Absent]
  /\ session = {} /\ durable = {} /\ offered = {}

\* The Pipeline's constructor: open_file(), then warmup().
Open ==
  /\ stream = "closed"
  /\ stream' = "good"
  /\ index' = Load(file)
  /\ lru' \in Warm(Load(file))
  /\ session' = {}
  /\ UNCHANGED <<file, written, tears, last, durable, offered>>

Hit(k) == index[k] # Absent

\* lookup(): a hit becomes the most recent entry, from whichever tier.
Lookup(k) ==
  /\ stream # "closed"
  /\ lru' = IF Hit(k) THEN Remember(lru, Entry(k, index[k])) ELSE lru
  /\ UNCHANGED <<file, stream, index, written, tears, last, session,
                 durable, offered>>

\* What put() leaves in memory and promises its caller.
Record(k, s) ==
  /\ lru' = Remember(lru, Entry(k, s))
  /\ index' = [index EXCEPT ![k] = s]
  /\ last' = [last EXCEPT ![k] = s]
  /\ session' = session \cup {k}
  /\ offered' = offered \cup {Entry(k, s)}

\* put(), the line appended and flushed.
Put(k, s) ==
  /\ stream = "good" /\ written < MaxWrites
  /\ Record(k, s)
  /\ file' = AppendTo(file, Whole(Entry(k, s)))
  /\ written' = written + 1
  /\ durable' = durable \cup {k}
  /\ UNCHANGED <<stream, tears>>

\* put() after a failed append: the stream drops everything, unnoticed.
PutUnwritten(k, s) ==
  /\ stream = "bad"
  /\ Record(k, s)
  /\ durable' = durable \ {k}
  /\ UNCHANGED <<file, stream, written, tears>>

\* A write of the entries es is cut short at one of them.
Tear(es) ==
  /\ stream = "good" /\ tears < MaxTears
  /\ \E i \in DOMAIN es, c \in Cuts :
       /\ written + i <= MaxWrites
       /\ file' = AppendCut(file, es, i, c)
       /\ written' = written + i
       /\ tears' = tears + 1

\* The disk fills up during the append of put().
PutDiskFull(k, s) ==
  /\ Tear(<<Entry(k, s)>>)
  /\ Record(k, s)
  /\ durable' = durable \ {k}
  /\ stream' = "bad"

\* The process is gone: the destructor's close() writes nothing more.
Forget ==
  /\ stream' = "closed"
  /\ lru' = <<>>
  /\ index' = [k \in AllKeys |-> Absent]
  /\ session' = {}

\* The process dies between two calls, or exits.
Stop ==
  /\ stream # "closed"
  /\ Forget
  /\ UNCHANGED <<file, written, tears, last, durable, offered>>

\* The process dies inside the append of put(), which promised nothing yet.
PutDies(k, s) ==
  /\ Tear(<<Entry(k, s)>>)
  /\ Forget
  /\ durable' = durable \ {k}
  /\ offered' = offered \cup {Entry(k, s)}
  /\ UNCHANGED last

\* flush(): the whole LRU is written again; the index already agrees
\* with it.  On a bad stream nothing changes.
Flush ==
  /\ stream = "good" /\ written + Len(lru) <= MaxWrites
  /\ file' = AppendAll(file, lru)
  /\ written' = written + Len(lru)
  /\ index' = [k \in AllKeys |->
                 IF k \in Held
                 THEN (CHOOSE e \in ToSet(lru) : e.key = k).status
                 ELSE index[k]]
  /\ UNCHANGED <<stream, lru, tears, last, session, durable, offered>>

FlushDies ==
  /\ Tear(lru)
  /\ Forget
  /\ UNCHANGED <<last, durable, offered>>

-----------------------------------------------------------------------------
(* Properties *)

Entries == [key : AllKeys, status : Statuses]

\* The type invariant: the LRU never outgrows its capacity nor holds two
\* entries for one key, and only the last line of the file can be torn.
CacheTypeOK ==
  /\ \A n \in DOMAIN file :
       /\ file[n] # <<>>
       /\ \A m \in DOMAIN file[n] :
            /\ Entry(file[n][m].key, file[n][m].status) \in Entries
            /\ file[n][m].cut \in Cuts \cup {"none"}
            /\ file[n][m].cut = "none" => m = Len(file[n])
       /\ n < Len(file) => Last(file[n]).cut = "none"
  /\ stream \in {"closed", "good", "bad"}
  /\ lru \in Seq(Entries) /\ Len(lru) <= Capacity
  /\ \A m, n \in DOMAIN lru : lru[m].key = lru[n].key => m = n
  /\ index \in [AllKeys -> Statuses \cup {Absent}]
  /\ last \in [Keys -> Statuses \cup {Absent}]
  /\ session \subseteq Keys /\ durable \subseteq Keys
  /\ offered \subseteq [key : Keys, status : Statuses]
  /\ written \in 0..MaxWrites /\ tears \in 0..MaxTears

\* Within a process an answered pair is never missed and never answered with
\* anything but its last verdict: an eviction, a full disk or a flush() may
\* take an entry out of one tier but the tiers never disagree.
HitIsLatest ==
  /\ \A k \in session : index[k] = last[k]
  /\ \A n \in DOMAIN lru : index[lru[n].key] = lru[n].status

\* What the file has lost: verdicts whose put() wrote and flushed its whole
\* line, that a process opening the cache now would not find.
Lost == {k \in durable : Load(file)[k] # last[k]}

\* "All numeric fields must parse cleanly ... so a truncated/corrupt line is
\* rejected rather than silently producing a wrong cache entry"
\* (src/Search/RewriteCache.cpp:92-94): whatever a pair's key reads from the
\* file, somebody put there for that key, and a torn append costs at most one
\* completed put() of a later process.  (A line cut after the first digit of
\* lhs_hash and continued by another does make an entry nobody put, but under
\* the key Mangled, which belongs to no pair.)
DamageContained ==
  /\ \A k \in Keys : Load(file)[k] # Absent => Entry(k, Load(file)[k]) \in offered
  /\ Cardinality(Lost) <= tears

=============================================================================
