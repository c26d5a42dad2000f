--------------------------------- MODULE Rules ---------------------------------
(***************************************************************************)
(* The pure functions the program decides by: VarInts, server.properties,  *)
(* the Java runtime of a Minecraft version, the verdict on a server's heap, *)
(* what its log says of its players, and the restart schedule.  Each is    *)
(* compared with what it is for, on one input, the probe, at a time.       *)
(***************************************************************************)
EXTENDS Integers, Sequences, FiniteSets, SequencesExt, Functions

CONSTANTS
  Word,   \* the bits of a VarInt's word, 32 in the code
  Group,  \* the bits that a byte of a VarInt carries, 7 in the code
  GB,     \* the megabytes of a gigabyte, 1024 in the code
  Recent  \* how many disconnects are listed, 50 in the code

ASSUME RulesBounds == {Word, Group, GB, Recent} \subseteq Nat \ {0, 1} /\ Group < Word

VARIABLE probe

-----------------------------------------------------------------------------
(* mcproto: a byte is its payload and whether another follows.             *)

Unsigned(n) == n % 2^Word
Signed(u)   == IF u >= 2^(Word - 1) THEN u - 2^Word ELSE u
Bytes       == [low : 0..(2^Group - 1), more : BOOLEAN]
NoInt       == 2^Word
MaxBytes    == (Word + Group - 1) \div Group

WriteVarInt(value) ==
  LET write[u \in Nat] ==
        <<[low |-> u % 2^Group, more |-> u \div 2^Group # 0]>>
          \o (IF u \div 2^Group = 0 THEN <<>> ELSE write[u \div 2^Group])
  IN  write[Unsigned(value)]

\* Mutated form: the word is not taken for a signed one.
ReadVarIntUnsigned(bytes) ==
  LET sum[i \in 0..Len(bytes)] ==
        IF i = 0 THEN 0 ELSE sum[i - 1] + bytes[i].low * 2^(Group * (i - 1))
      n == CHOOSE i \in 1..Len(bytes) : ~bytes[i].more /\ \A j \in 1..(i - 1) : bytes[j].more
  IN  sum[n] % 2^Word

\* Reading stops at the first byte that nothing follows; bits that leave the word
\* are shifted out of it, and a byte too many is an error.
ReadVarInt(bytes) ==
  LET sum[i \in 0..Len(bytes)] ==
        IF i = 0 THEN 0 ELSE sum[i - 1] + bytes[i].low * 2^(Group * (i - 1))
      ends == {i \in 1..Len(bytes) : ~bytes[i].more /\ \A j \in 1..(i - 1) : bytes[j].more}
  IN  IF \E n \in ends : n <= MaxBytes
      THEN Signed(sum[CHOOSE n \in ends : TRUE] % 2^Word) ELSE NoInt

-----------------------------------------------------------------------------
(* properties.go: a line is <<key, value>>, a comment a line of the key "#". *)

Keys(lines) == {l[1] : l \in ToSet(lines)} \ {"#"}

\* The last line of a key counts.
ReadProperties(lines) ==
  [k \in Keys(lines) |->
     lines[CHOOSE i \in DOMAIN lines :
             lines[i][1] = k /\ \A j \in (i + 1)..Len(lines) : lines[j][1] # k][2]]

FirstWith(lines, k) ==
  CHOOSE i \in DOMAIN lines : lines[i][1] = k /\ \A j \in 1..(i - 1) : lines[j][1] # k

\* Mutated form: the new lines go to the beginning of the file.
UpdatePropertiesPrepended(lines, updates) ==
  SetToSeq({<<k, updates[k]>> : k \in DOMAIN updates}) \o lines

\* The first line of a key takes its new value; keys without a line get one.
UpdateProperties(lines, updates) ==
  LET replaced == [i \in DOMAIN lines |->
        LET k == lines[i][1]
        IN  IF k \in DOMAIN updates /\ i = FirstWith(lines, k) THEN <<k, updates[k]>> ELSE lines[i]]
  IN  replaced \o SetToSeq({<<k, updates[k]>> : k \in DOMAIN updates \ Keys(lines)})

-----------------------------------------------------------------------------
(* java.go: a release is <<major, minor, patch>>, a snapshot <<year>>.     *)

RequiredJavaMajor(v) ==
  CASE Len(v) = 1                                          -> IF v[1] >= 26 THEN 25 ELSE 21
    [] Len(v) = 3 /\ v[1] >= 26                            -> 25
    [] Len(v) = 3 /\ v[1] = 1 /\ v[2] < 17                 -> 8
    [] Len(v) = 3 /\ v[1] = 1 /\ v[2] \in 17..20 /\ ~(v[2] = 20 /\ v[3] >= 5) -> 17
    [] OTHER                                               -> 21

\* Mutated form: the newest runtime.
ResolveJavaNewest(required, installed) ==
  IF installed = {} THEN [major |-> 0, satisfied |-> TRUE]
  ELSE LET m == CHOOSE m \in installed : \A k \in installed : k <= m
       IN  [major |-> m, satisfied |-> m >= required]

\* The runtime of that very version, or the oldest that is newer, or the newest.
ResolveJava(required, installed) ==
  LET enough == {m \in installed : m >= required}
  IN  IF installed = {} THEN [major |-> 0, satisfied |-> TRUE]
      ELSE IF enough = {}
      THEN [major |-> CHOOSE m \in installed : \A k \in installed : k <= m, satisfied |-> FALSE]
      ELSE [major |-> CHOOSE m \in enough : \A k \in enough : m <= k, satisfied |-> TRUE]

-----------------------------------------------------------------------------
(* memory.go: a collection is [before, after, full], in megabytes.         *)

MaxOf(S) == CHOOSE m \in S : \A k \in S : k <= m

ReadMemoryReport(gcs, heap) ==
  [live |-> MaxOf({0} \cup {gcs[i].after : i \in DOMAIN gcs}),
   full |-> Cardinality({i \in DOMAIN gcs : gcs[i].full}), heap |-> heap]

RoundUpToGB(mb) == IF mb < GB THEN GB ELSE IF mb % GB = 0 THEN mb ELSE (mb \div GB + 1) * GB

\* Mutated form: what the world needs, and no room to spare.
SummariseTight(report) ==
  LET used == (report.live * 100) \div report.heap
  IN  IF used >= 65 \/ report.full > 0 THEN RoundUpToGB(report.live) ELSE 0

\* The heap it recommends, 0 when there is enough.
Summarise(report) ==
  LET used == (report.live * 100) \div report.heap
  IN  IF used >= 65 \/ report.full > 0 THEN RoundUpToGB(report.live * 2) ELSE 0

-----------------------------------------------------------------------------
(* diagnostics.go: a line is a login or a disconnect of a player, lag, a    *)
(* start, or anything else.                                                *)

Count(counts, k) == IF k \in DOMAIN counts THEN [counts EXCEPT ![k] = @ + 1] ELSE counts @@ (k :> 1)

\* Mutated form: a player's first login is not counted.
AddLineLate(diag, l) ==
  CASE l.kind = "login" ->
         [diag EXCEPT !.logins = IF l.player \in DOMAIN @ THEN Count(@, l.player) ELSE @ @@ (l.player :> 0)]
    [] l.kind = "disconnect" ->
         [diag EXCEPT !.reasons = Count(@, l.reason), !.drops = Count(@, l.player),
                      !.events  = Append(@, l)]
    [] OTHER -> diag

\* What a line adds to the summary of those before it.
AddLine(diag, l) ==
  CASE l.kind = "login"      -> [diag EXCEPT !.logins = Count(@, l.player)]
    [] l.kind = "disconnect" ->
         [diag EXCEPT !.reasons = Count(@, l.reason), !.drops = Count(@, l.player),
                      !.events  = Append(@, l)]
    [] OTHER                 -> diag

\* The events are cut to the last ones at the end.
AnalyseLogs(lines) ==
  LET none == <<>>
      diag == FoldLeft(AddLine, [logins |-> none, drops |-> none, reasons |-> none, events |-> <<>>],
                       lines)
      n    == Len(diag.events)
  IN  [diag EXCEPT !.events = SubSeq(@, IF n > Recent THEN n - Recent + 1 ELSE 1, n)]

-----------------------------------------------------------------------------
(* scheduler.go: a schedule is a time of day, or an interval of hours.      *)

\* Mutated form: an interval restarts in every minute of its hour.
ShouldRestartAllHour(schedule, hour, minute) ==
  CASE schedule.kind = "daily"    -> hour = schedule.hour /\ minute = schedule.minute
    [] schedule.kind = "interval" -> hour % schedule.hours = 0

ShouldRestart(schedule, hour, minute) ==
  CASE schedule.kind = "daily"    -> hour = schedule.hour /\ minute = schedule.minute
    [] schedule.kind = "interval" -> minute = 0 /\ hour % schedule.hours = 0

-----------------------------------------------------------------------------
(* The questions, and what the answers have to be.                         *)

Releases  == (Nat \ {0}) \X Nat \X Nat
Snapshots == [1..1 -> Nat]

Older(v, w) ==
  \E i \in DOMAIN v : v[i] < w[i] /\ \A j \in 1..(i - 1) : v[j] = w[j]

\* What is asked about properties, versions, runtimes, heaps and schedules.  A key
\* to be updated is not a comment.
WellAsked(q) ==
  /\ q.kind = "properties" =>
       /\ q.lines \in Seq(STRING \X Nat)
       /\ q.updates \in [DOMAIN q.updates -> Nat] /\ IsFiniteSet(DOMAIN q.updates)
       /\ DOMAIN q.updates \subseteq STRING \ {"#"}
  /\ q.kind = "versions" =>
       /\ {q.older, q.newer} \subseteq Releases \/ {q.older, q.newer} \subseteq Snapshots
       /\ Older(q.older, q.newer)
  /\ q.kind = "java" => q.required \in Nat /\ q.installed \subseteq Nat
  /\ q.kind = "heap" =>
       /\ q.heap \in Nat \ {0}
       /\ q.gcs \in Seq([before : Nat, after : Nat, full : BOOLEAN])
  /\ q.kind = "schedule" =>
       q.schedule \in [kind : {"daily"}, hour : 0..23, minute : 0..59]
                        \cup [kind : {"interval"}, hours : Nat \ {0}]

Asked(kind) == probe # <<>> /\ probe.kind = kind

\* A VarInt that is written is read back, -1 and the extremes included, from
\* no more bytes than a word has groups; whatever bytes come in instead, reading
\* them ends in an integer of the word or an error (mcproto/protocol.go).
VarIntRoundTrip ==
  /\ Asked("varint") =>
       LET bytes == WriteVarInt(probe.value)
       IN  Len(bytes) <= MaxBytes /\ ReadVarInt(bytes) = probe.value
  /\ Asked("bytes") =>
       ReadVarInt(probe.bytes) \in (-(2^(Word - 1)))..(2^(Word - 1) - 1) \cup {NoInt}

\* After an update the file says what it was told for every key that was not in it
\* twice; comments and other keys' lines stand on the lines where they stood, with
\* no new ones among them, and a second update changes nothing ("leaving every
\* other line intact", properties.go: UpdateProperties).
UpdateIsRead ==
  Asked("properties") =>
    LET lines     == probe.lines
        new       == UpdateProperties(lines, probe.updates)
        others(s) == {<<i, s[i]>> : i \in {j \in DOMAIN s : s[j][1] \notin DOMAIN probe.updates}}
        Once(k)   == Cardinality({i \in DOMAIN lines : lines[i][1] = k}) <= 1
    IN  /\ \A k \in DOMAIN probe.updates : Once(k) => ReadProperties(new)[k] = probe.updates[k]
        /\ others(new) = others(lines)
        /\ UpdateProperties(new, probe.updates) = new

\* A newer Minecraft never asks for an older Java; and the runtime that is chosen
\* for it is reported too old exactly when all are, and is otherwise the oldest
\* that will do (java.go: RequiredJavaMajor, ResolveJava).
JavaSuits ==
  /\ Asked("versions") =>
       RequiredJavaMajor(probe.older) <= RequiredJavaMajor(probe.newer)
  /\ Asked("java") =>
       LET java == ResolveJava(probe.required, probe.installed)
       IN  /\ java.satisfied <=> probe.installed = {} \/ \E m \in probe.installed : m >= probe.required
           /\ java.satisfied =>
                \A m \in probe.installed : m >= probe.required => java.major \in probe.required..m

\* With the heap it is told to have, a server would have had room to spare after
\* every collection of its log; and unless a full collection alone brought the
\* advice up, the advised heap is larger than the one it has (memory.go).
HeapAdviceHelps ==
  Asked("heap") =>
    LET advice == Summarise(ReadMemoryReport(probe.gcs, probe.heap))
        afters == {probe.gcs[i].after : i \in DOMAIN probe.gcs}
    IN  IF advice = 0
        THEN \A a \in afters : a * 100 < 65 * probe.heap
        ELSE /\ \A a \in afters : (a * 100) \div advice < 65
             /\ (\E a \in afters : a * 100 >= 65 * probe.heap) => advice > probe.heap

\* The counts by player and by reason are those of one and the same disconnects,
\* of which the last are listed, and of the logins (diagnostics.go: AnalyseLogs).
CountsAddUp ==
  Asked("log") =>
    LET diag       == AnalyseLogs(probe.lines)
        of(kind)   == SelectSeq(probe.lines, LAMBDA l : l.kind = kind)
        total(f)   == FoldFunction(+, 0, f)
    IN  /\ total(diag.drops) = Len(of("disconnect")) /\ total(diag.reasons) = Len(of("disconnect"))
        /\ total(diag.logins) = Len(of("login"))
        /\ IsSuffix(diag.events, of("disconnect"))
        /\ Len(diag.events) = MaxOf({n \in 0..Recent : n <= Len(of("disconnect"))})

\* A daily restart comes once a day.  An interval's comes when its hours are over,
\* or at midnight, if that is sooner (scheduler.go: shouldRestart).
RestartsRecur ==
  Asked("schedule") =>
    LET times == {t \in 0..(24 * 60 - 1) : ShouldRestart(probe.schedule, t \div 60, t % 60)}
        next(t) == t + 60 * probe.schedule.hours
    IN  IF probe.schedule.kind = "daily" THEN Cardinality(times) = 1
        ELSE /\ 0 \in times
             /\ \A t \in times : next(t) \in times \/ next(t) >= 24 * 60
             /\ \A t \in times : \A u \in times : t < u => next(t) <= u
=============================================================================
