------------------------ MODULE BenchmarkGroups_proofs ------------------------
(***************************************************************************)
(* Proofs about BenchmarkGroups, for every set of programs: whatever chain *)
(* of builder calls a closure makes, a case runs with what its chain asked *)
(* for, and every case of the list runs once; and whatever is measured and *)
(* compared, the summary does not contradict itself.                       *)
(***************************************************************************)
EXTENDS BenchmarkGroups, Comparison_proofs

-------------------------------------------------------------------------------
(* Least and greatest numbers *)

\* A set of numbers has a least one.
LEMMA LeastNumber ==
    ASSUME NEW I, I \subseteq Nat, I # {}
    PROVE  \E i \in I : \A j \in I : i <= j
BY LeastIndex

\* Of some of the first n numbers there is a greatest one.
LEMMA GreatestPosition ==
    ASSUME NEW n \in Nat, NEW S, S \subseteq 1..n, S # {}
    PROVE  Max(S) \in S /\ \A i \in S : Max(S) >= i
<1> DEFINE Bounds == {k \in Nat : \A i \in S : i <= k}
<1>1. n \in Bounds /\ Bounds \subseteq Nat
  OBVIOUS
<1>2. PICK k \in Bounds : \A j \in Bounds : k <= j
  BY <1>1, LeastNumber
<1>3. k \in S
  <2> SUFFICES ASSUME k \notin S PROVE FALSE
    OBVIOUS
  <2>1. PICK i \in S : TRUE
    OBVIOUS
  <2>2. k - 1 \in Nat /\ \A j \in S : j <= k - 1
    BY <2>1
  <2>3. QED
    BY <1>2, <2>2
<1>4. \E m \in S : \A i \in S : m >= i
  BY <1>3
<1>5. QED
  BY <1>4 DEF Max

\* A number that bounds a set and is in it is the greatest.
LEMMA GreatestIs ==
    ASSUME NEW n \in Nat, NEW S, S \subseteq 1..n, NEW m \in S, \A i \in S : m >= i
    PROVE  Max(S) = m
<1>1. Max(S) \in S /\ Max(S) >= m
  BY GreatestPosition
<1>2. ASSUME NEW x \in S, x >= m PROVE x = m
  <2>1. x \in Nat /\ m \in Nat /\ m >= x
    OBVIOUS
  <2>2. QED
    BY <1>2, <2>1
<1>3. QED
  BY <1>1, <1>2

-------------------------------------------------------------------------------
(* Chains of calls *)

\* Calls, cases and results are sequences of whatever they are.
IsSequence(calls) == \E T : calls \in Seq(T)

\* A call that gives an option its value is the last one to do so, and leaves
\* what was given of the others.
LEMMA CallGives ==
    ASSUME NEW calls, IsSequence(calls), NEW option, NEW value, NEW default
    PROVE  /\ IsSequence(Append(calls, <<option, value>>))
           /\ LastGiven(Append(calls, <<option, value>>), option, default) = value
           /\ \A other : other # option =>
                 LastGiven(Append(calls, <<option, value>>), other, default)
                   = LastGiven(calls, other, default)
<1> DEFINE longer == Append(calls, <<option, value>>)
           At(chain, o) == {i \in DOMAIN chain : chain[i][1] = o}
<1> DEFINE n == Len(calls)
<1>1. PICK T : calls \in Seq(T) /\ n \in Nat /\ DOMAIN calls = 1..n
  BY DEF IsSequence
<1>2. /\ DOMAIN longer = 1..(n + 1) /\ n \in Nat /\ n + 1 \in Nat
      /\ longer[n + 1] = <<option, value>>
      /\ \A i \in 1..n : longer[i] = calls[i]
  BY <1>1
<1>3. IsSequence(longer)
  <2>1. calls \in Seq(T \cup {<<option, value>>})
    BY <1>1
  <2>2. QED
    BY <2>1 DEF IsSequence
<1> HIDE DEF longer, n
<1>4. LastGiven(longer, option, default) = value
  <2>1. n + 1 \in At(longer, option) /\ \A i \in At(longer, option) : n + 1 >= i
    BY <1>2
  <2>2. Max(At(longer, option)) = n + 1
    <3>1. At(longer, option) \subseteq 1..(n + 1)
      BY <1>2
    <3> HIDE DEF At
    <3>2. QED
      BY <1>2, <2>1, <3>1, GreatestIs
  <2>3. QED
    BY <1>2, <2>1, <2>2 DEF LastGiven
<1>5. ASSUME NEW other, other # option
      PROVE  LastGiven(longer, other, default) = LastGiven(calls, other, default)
  <2>1. At(longer, other) = At(calls, other) /\ At(calls, other) \subseteq 1..n
    BY <1>1, <1>2, <1>5
  <2>2. At(calls, other) # {} => Max(At(calls, other)) \in 1..n
    <3> HIDE DEF At
    <3>1. QED
      BY <1>2, <2>1, GreatestPosition
  <2>3. QED
    BY <1>2, <2>1, <2>2 DEF LastGiven
<1>6. QED
  BY <1>3, <1>4, <1>5 DEF longer

\* Metadata that is given is inserted into what was given before.
LEMMA CallGivesMetadata ==
    ASSUME NEW calls, IsSequence(calls), NEW value
    PROVE  GivenMetadata(Append(calls, <<"metadata", value>>))
             = Inserted(GivenMetadata(calls), value)
<1> DEFINE longer == Append(calls, <<"metadata", value>>)
           Keys(chain) == UNION {DOMAIN chain[i][2] : i \in MetadataCalls(chain)}
<1> DEFINE n == Len(calls)
<1>1. PICK T : calls \in Seq(T) /\ n \in Nat /\ DOMAIN calls = 1..n
  BY DEF IsSequence
<1>2. /\ DOMAIN longer = 1..(n + 1) /\ n \in Nat /\ n + 1 \in Nat
      /\ longer[n + 1] = <<"metadata", value>>
      /\ longer[n + 1][1] = "metadata" /\ longer[n + 1][2] = value
      /\ \A i \in 1..n : longer[i] = calls[i]
  BY <1>1
<1> HIDE DEF longer, n
<1>3. MetadataCalls(longer) = MetadataCalls(calls) \cup {n + 1}
  BY <1>1, <1>2 DEF MetadataCalls
<1>4. MetadataCalls(calls) \subseteq 1..n
  BY <1>1 DEF MetadataCalls
<1>5. Keys(longer) = Keys(calls) \cup DOMAIN value
  BY <1>2, <1>3, <1>4
<1>6. ASSUME NEW key \in DOMAIN value
      PROVE  longer[Max(KeyCalls(longer, key))][2][key] = value[key]
  <2>1. /\ KeyCalls(longer, key) \subseteq 1..(n + 1) /\ n + 1 \in KeyCalls(longer, key)
        /\ \A i \in KeyCalls(longer, key) : n + 1 >= i
    BY <1>2, <1>3, <1>4 DEF KeyCalls
  <2>2. Max(KeyCalls(longer, key)) = n + 1
    BY <1>2, <2>1, GreatestIs
  <2>3. QED
    BY <1>2, <2>2
<1>7. ASSUME NEW key \in Keys(calls), key \notin DOMAIN value
      PROVE  longer[Max(KeyCalls(longer, key))][2][key] = calls[Max(KeyCalls(calls, key))][2][key]
  <2>1. KeyCalls(longer, key) = KeyCalls(calls, key)
    BY <1>2, <1>3, <1>4, <1>7 DEF KeyCalls
  <2>2. KeyCalls(calls, key) \subseteq 1..n /\ KeyCalls(calls, key) # {}
    BY <1>4 DEF KeyCalls
  <2>3. Max(KeyCalls(calls, key)) \in 1..n
    BY <1>2, <2>2, GreatestPosition
  <2>4. QED
    BY <1>2, <2>1, <2>3
<1>8. GivenMetadata(longer) =
        [key \in Keys(longer) |-> longer[Max(KeyCalls(longer, key))][2][key]]
  BY DEF GivenMetadata
<1>9. /\ DOMAIN GivenMetadata(calls) = Keys(calls)
      /\ \A key \in Keys(calls) :
            GivenMetadata(calls)[key] = calls[Max(KeyCalls(calls, key))][2][key]
  BY DEF GivenMetadata
<1> HIDE DEF Keys
<1>10. GivenMetadata(longer) =
         [key \in Keys(calls) \cup DOMAIN value |->
            IF key \in DOMAIN value THEN value[key] ELSE GivenMetadata(calls)[key]]
  BY <1>5, <1>6, <1>7, <1>8, <1>9
<1>11. QED
  BY <1>9, <1>10 DEF Inserted, longer

\* Any other call gives none.
LEMMA OtherCallsGiveNone ==
    ASSUME NEW calls, IsSequence(calls), NEW option, option # "metadata", NEW value
    PROVE  GivenMetadata(Append(calls, <<option, value>>)) = GivenMetadata(calls)
<1> DEFINE longer == Append(calls, <<option, value>>)
<1> DEFINE n == Len(calls)
<1>1. PICK T : calls \in Seq(T) /\ n \in Nat /\ DOMAIN calls = 1..n
  BY DEF IsSequence
<1>2. /\ DOMAIN longer = 1..(n + 1) /\ n \in Nat /\ n + 1 \in Nat
      /\ longer[n + 1][1] = option
      /\ \A i \in 1..n : longer[i] = calls[i]
  BY <1>1
<1> HIDE DEF longer, n
<1>3. MetadataCalls(longer) = MetadataCalls(calls) /\ MetadataCalls(calls) \subseteq 1..n
  BY <1>1, <1>2 DEF MetadataCalls
<1>4. \A key : /\ KeyCalls(longer, key) = KeyCalls(calls, key)
               /\ KeyCalls(calls, key) \subseteq 1..n
  BY <1>2, <1>3 DEF KeyCalls
<1> DEFINE Keys(chain) == UNION {DOMAIN chain[i][2] : i \in MetadataCalls(chain)}
<1>5. Keys(longer) = Keys(calls)
  BY <1>2, <1>3
<1>6. ASSUME NEW key \in Keys(calls)
      PROVE  longer[Max(KeyCalls(longer, key))][2][key] = calls[Max(KeyCalls(calls, key))][2][key]
  <2>1. KeyCalls(calls, key) # {}
    BY <1>3 DEF KeyCalls
  <2>2. Max(KeyCalls(calls, key)) \in 1..n
    BY <1>2, <1>4, <2>1, GreatestPosition
  <2>3. QED
    BY <1>2, <1>4, <2>2
<1>7. /\ GivenMetadata(longer)
           = [key \in Keys(longer) |-> longer[Max(KeyCalls(longer, key))][2][key]]
      /\ GivenMetadata(calls)
           = [key \in Keys(calls) |-> calls[Max(KeyCalls(calls, key))][2][key]]
  BY DEF GivenMetadata
<1> HIDE DEF Keys
<1>8. QED
  BY <1>5, <1>6, <1>7 DEF longer

\* A handle that is new has had no call.
LEMMA NothingGiven ==
    /\ IsSequence(<<>>)
    /\ \A option, default : LastGiven(<<>>, option, default) = default
    /\ GivenMetadata(<<>>) = <<>>
<1>1. IsSequence(<<>>)
  BY DEF IsSequence
<1>2. \A option, default : LastGiven(<<>>, option, default) = default
  BY DEF LastGiven
<1>3. GivenMetadata(<<>>) = <<>>
  BY DEF GivenMetadata, MetadataCalls
<1>4. QED
  BY <1>1, <1>2, <1>3

-------------------------------------------------------------------------------
(* The order of the cases *)

\* A list of the same length with the same names
SameNames(s, list) == s \in Seq(STRING) /\ Len(s) = Len(list) /\ Range(s) = Range(list)

\* The lists of a shuffle, from a position on
Shuffles(f, list, draws, least) ==
    f = [i \in Nat |-> IF i > Len(list) \/ i < least THEN list
                       ELSE Swap(f[i + 1], i, draws[i])]

\* Swapping two positions keeps the names.
LEMMA SwapKeepsNames ==
    ASSUME NEW list \in Seq(STRING), NEW s, SameNames(s, list),
           NEW i \in 1..Len(list), NEW j \in 1..Len(list)
    PROVE  SameNames(Swap(s, i, j), list)
<1>1. s \in Seq(STRING) /\ Len(s) = Len(list) /\ DOMAIN s = 1..Len(list)
  BY DEF SameNames
<1>2. /\ DOMAIN Swap(s, i, j) = 1..Len(list) /\ Swap(s, i, j) \in Seq(STRING)
      /\ Len(Swap(s, i, j)) = Len(list)
  BY <1>1 DEF Swap
<1>3. Range(Swap(s, i, j)) = Range(s)
  <2> DEFINE t == Swap(s, i, j)
  <2>1. /\ DOMAIN t = DOMAIN s /\ t[j] = s[i] /\ t[i] = s[j]
        /\ \A k \in DOMAIN s \ {i, j} : t[k] = s[k]
    BY <1>1, <1>2 DEF Swap
  <2>2. i \in DOMAIN s /\ j \in DOMAIN s
    BY <1>1
  <2> HIDE DEF t
  <2>3. ASSUME NEW k \in DOMAIN s
        PROVE  (\E l \in DOMAIN t : t[l] = s[k]) /\ (\E l \in DOMAIN s : s[l] = t[k])
    BY <2>1, <2>2
  <2>4. Range(t) = Range(s)
    BY <2>1, <2>3 DEF Range
  <2>5. QED
    BY <2>4 DEF t
<1>4. QED
  BY <1>2, <1>3 DEF SameNames

\* The recursion of a shuffle has a solution.
LEMMA ShuffleExists ==
    ASSUME NEW list \in Seq(STRING), NEW draws
    PROVE  \E f : Shuffles(f, list, draws, 0)
<1> DEFINE n == Len(list)
           Solved == {k \in Nat : \E f : Shuffles(f, list, draws, k)}
<1>1. n \in Nat
  OBVIOUS
<1>2. n + 1 \in Solved
  <2> DEFINE f == [i \in Nat |-> list]
  <2>1. Shuffles(f, list, draws, n + 1)
    <3>1. \A i \in Nat : i > n \/ i < n + 1
      BY <1>1
    <3>2. f = [i \in Nat |-> IF i > n \/ i < n + 1 THEN list ELSE Swap(f[i + 1], i, draws[i])]
      BY <3>1
    <3>3. QED
      BY <3>2 DEF Shuffles
  <2>2. QED
    BY <1>1, <2>1
<1>3. PICK k \in Solved : \A l \in Solved : k <= l
  BY <1>2, LeastNumber
<1>4. k \in Nat /\ k <= n + 1
  BY <1>2, <1>3
<1>5. PICK f : Shuffles(f, list, draws, k)
  OBVIOUS
<1>6. ASSUME k # 0 PROVE FALSE
  <2> DEFINE p == k - 1
             g == [i \in Nat |-> IF i = p THEN Swap(f[k], p, draws[p]) ELSE f[i]]
  <2>1. p \in Nat /\ p + 1 = k /\ p <= n
    BY <1>1, <1>4, <1>6
  <2>2. ASSUME NEW i \in Nat
        PROVE  g[i] = IF i > n \/ i < p THEN list ELSE Swap(g[i + 1], i, draws[i])
    <3>1. f[i] = IF i > n \/ i < k THEN list ELSE Swap(f[i + 1], i, draws[i])
      BY <1>5 DEF Shuffles
    <3>2. CASE i = p
      <4>1. ~(i > n) /\ ~(i < p) /\ i + 1 = k /\ k # p /\ k \in Nat
        BY <1>1, <2>1, <3>2
      <4>2. g[i] = Swap(f[k], p, draws[p]) /\ g[k] = f[k]
        BY <3>2, <4>1
      <4>3. QED
        BY <3>2, <4>1, <4>2
    <3>3. CASE i < p
      <4>1. i # p /\ i < k
        BY <2>1, <3>3
      <4>2. QED
        BY <3>1, <3>3, <4>1
    <3>4. CASE i > p
      <4>1. i # p /\ ~(i < k) /\ ~(i < p) /\ i + 1 # p /\ i + 1 \in Nat
        BY <2>1, <3>4
      <4>2. g[i + 1] = f[i + 1] /\ g[i] = f[i]
        BY <4>1
      <4>3. QED
        BY <3>1, <4>1, <4>2
    <3>5. QED
      BY <2>1, <3>2, <3>3, <3>4
  <2>3. g = [i \in Nat |-> g[i]]
    OBVIOUS
  <2> HIDE DEF g
  <2>4. g = [i \in Nat |-> IF i > n \/ i < p THEN list ELSE Swap(g[i + 1], i, draws[i])]
    BY <2>2, <2>3
  <2>5. Shuffles(g, list, draws, p)
    BY <2>4 DEF Shuffles
  <2>6. p \in Solved
    BY <2>1, <2>5
  <2>7. QED
    BY <1>3, <1>4, <2>1, <2>6
<1>7. QED
  BY <1>5, <1>6

\* BenchmarkCaseOrder::indices keeps the names, whatever is drawn.
LEMMA IndicesKeepNames ==
    ASSUME NEW list \in Seq(STRING), NEW draws \in Draws(Len(list))
    PROVE  SameNames(indices(list, draws), list)
<1> DEFINE n == Len(list)
           downTo == CHOOSE f : f = [i \in Nat |-> IF i > Len(list) THEN list
                                                   ELSE Swap(f[i + 1], i, draws[i])]
<1>1. n \in Nat
  OBVIOUS
<1>2. indices(list, draws) = downTo[2]
  BY DEF indices
<1>3. downTo = [i \in Nat |-> IF i > n THEN list ELSE Swap(downTo[i + 1], i, draws[i])]
  <2>1. PICK f : Shuffles(f, list, draws, 0)
    BY ShuffleExists
  <2>2. f = [i \in Nat |-> IF i > n THEN list ELSE Swap(f[i + 1], i, draws[i])]
    <3>1. f = [i \in Nat |-> IF i > n \/ i < 0 THEN list ELSE Swap(f[i + 1], i, draws[i])]
      BY <2>1 DEF Shuffles
    <3>2. \A i \in Nat : ~(i < 0)
      OBVIOUS
    <3>3. QED
      BY <3>1, <3>2
  <2>3. QED
    BY <2>2
<1> HIDE DEF downTo
<1>4. SameNames(list, list)
  BY DEF SameNames
<1> DEFINE Good == {k \in Nat : k >= 2 /\ SameNames(downTo[k], list)}
<1>5. n + 2 \in Good
  BY <1>1, <1>3, <1>4
<1>6. PICK k \in Good : \A l \in Good : k <= l
  BY <1>5, LeastNumber
<1>7. ASSUME k # 2 PROVE FALSE
  <2> DEFINE p == k - 1
  <2>1. p \in Nat /\ p >= 2 /\ p + 1 = k
    BY <1>6, <1>7
  <2>2. SameNames(downTo[p], list)
    <3>1. CASE p > n
      BY <1>3, <1>4, <2>1, <3>1
    <3>2. CASE p <= n
      <4>1. downTo[p] = Swap(downTo[k], p, draws[p])
        BY <1>1, <1>3, <2>1, <3>2
      <4>2. p \in 2..n /\ draws[p] \in 1..n
        BY <1>1, <2>1, <3>2 DEF Draws
      <4>3. QED
        BY <1>1, <1>6, <4>1, <4>2, SwapKeepsNames
    <3>3. QED
      BY <1>1, <2>1, <3>1, <3>2
  <2>3. QED
    BY <1>6, <2>1, <2>2
<1>8. QED
  BY <1>2, <1>6, <1>7

-------------------------------------------------------------------------------
(* The inductive invariant of the cases *)

Kinds == {"group", "with_factory", "with_chunk_factory", "concurrent", "with_duration",
          "concurrent_factory"}

\* The options are those that a chain of calls gave last.
Followed(options, calls) ==
    /\ IsSequence(calls) /\ DOMAIN options = DOMAIN Defaults
    /\ \A option \in DOMAIN Defaults \ {"metadata", "sample_duration"} :
          options[option] = LastGiven(calls, option, Defaults[option])
    /\ options.metadata = GivenMetadata(calls)

\* The duration that a chain gave, or the default
GivenDuration(calls) == LastGiven(calls, "sample_duration", DefaultSampleDuration)

\* A handle's options follow its calls, and its group is part of itself.  No call
\* of a concurrent group gives a duration before the group becomes a handle of
\* another type.
HandleSound(handle) ==
    /\ DOMAIN handle = {"kind", "group", "options", "calls"}
    /\ handle.kind \in Kinds /\ HasPart(handle.group, handle.group)
    /\ Followed(handle.options, handle.calls)
    /\ Concurrent(handle.kind) =>
          handle.options.sample_duration = GivenDuration(handle.calls)
    /\ handle.kind = "concurrent" => GivenDuration(handle.calls) = DefaultSampleDuration

HandleInv == \A handle \in handles : HandleSound(handle)

\* The options of a case follow the calls of its handle.
AskingSound(asking) ==
    /\ Followed(asking.options, asking.calls)
    /\ asking.kind = "concurrent" =>
          asking.options.sample_duration = GivenDuration(asking.calls)

AskedInv == IsSequence(asked) /\ \A j \in DOMAIN asked : AskingSound(asked[j])

\* Nothing runs before the launch; then the cases that were asked for and those
\* still to come are those of the list.
NamesInv ==
    /\ program \in Programs /\ pending \in Seq(STRING)
    /\ stage = "launch" => asked = <<>> /\ session = <<>> /\ handles = {}
    /\ stage # "launch" =>
          /\ Len(asked) + Len(pending) = Len(program.cases)
          /\ {asked[j].name : j \in DOMAIN asked} \cup Range(pending) = Range(program.cases)
    /\ stage = "done" => pending = <<>>

\* Every result belongs to a case that was asked for and let through.
ResultSound(i) ==
    /\ session[i].execution_index = i - 1
    /\ \E j \in DOMAIN asked : /\ Through(asked[j]) /\ LetThrough(j) = i
                               /\ AsAsked(session[i], asked[j])

SessionInv == IsSequence(session) /\ \A i \in DOMAIN session : ResultSound(i)

\* The session has as many results as cases were let through, but for the one
\* that is being measured.
CountInv ==
    /\ stage \in {"launch", "register"} => Len(session) = LetThrough(Len(asked))
    /\ stage = "case" =>
          /\ asked # <<>> /\ case = asked[Len(asked)] /\ Through(case)
          /\ Len(session) + 1 = LetThrough(Len(asked))

\* A result has a backend that none before it had.
Managed == "managed workers"
BackendInv ==
    /\ backends \in Nat
    /\ \A i \in DOMAIN session :
          session[i].scope # Managed =>
             /\ session[i].backend \in Nat /\ session[i].backend <= backends
             /\ stage = "case" /\ Scope(case.kind, case.options) # Managed =>
                   session[i].backend < backends
    /\ \A i, j \in DOMAIN session :
          session[i].scope # Managed /\ session[j].scope # Managed =>
             (session[i].backend = session[j].backend => i = j)

GroupsInv == HandleInv /\ AskedInv /\ NamesInv /\ SessionInv /\ CountInv /\ BackendInv

-------------------------------------------------------------------------------
(* Handles *)

\* A call of a builder method gives an option its value.
LEMMA CalledIsSound ==
    ASSUME NEW handle, HandleSound(handle), NEW kind \in Kinds,
           NEW option \in DOMAIN Defaults, NEW value,
           kind = "concurrent" => handle.kind = "concurrent" /\ option # "sample_duration",
           Concurrent(kind) => Concurrent(handle.kind) \/ option = "sample_duration"
    PROVE  HandleSound(Called(handle, kind, option, value))
<1> DEFINE made == Called(handle, kind, option, value)
           calls == Append(handle.calls, <<option, value>>)
           options == WithOption(handle.options, option, value)
<1>1. /\ DOMAIN made = {"kind", "group", "options", "calls"}
      /\ made.kind = kind /\ made.group = handle.group
      /\ made.calls = calls /\ made.options = options
  BY DEF Called, HandleSound
<1>2. /\ IsSequence(handle.calls) /\ DOMAIN handle.options = DOMAIN Defaults
      /\ \A o \in DOMAIN Defaults \ {"metadata", "sample_duration"} :
            handle.options[o] = LastGiven(handle.calls, o, Defaults[o])
      /\ handle.options.metadata = GivenMetadata(handle.calls)
  BY DEF HandleSound, Followed
<1>3. /\ IsSequence(calls)
      /\ \A d : LastGiven(calls, option, d) = value
      /\ \A o, d : o # option => LastGiven(calls, o, d) = LastGiven(handle.calls, o, d)
  BY <1>2, CallGives
<1>4. /\ DOMAIN options = DOMAIN Defaults
      /\ option # "metadata" => options[option] = value
      /\ \A o \in DOMAIN Defaults \ {option} : options[o] = handle.options[o]
      /\ option = "metadata" => options.metadata = Inserted(handle.options.metadata, value)
  BY <1>2 DEF WithOption
<1>5. options.metadata = GivenMetadata(calls)
  <2>1. CASE option = "metadata"
    BY <1>2, <1>4, <2>1, CallGivesMetadata
  <2>2. CASE option # "metadata"
    <3>1. "metadata" \in DOMAIN Defaults
      BY DEF Defaults
    <3>2. QED
      BY <1>2, <1>4, <2>2, <3>1, OtherCallsGiveNone
  <2>3. QED
    BY <2>1, <2>2
<1> HIDE DEF made, calls, options
<1>6. Followed(options, calls)
  <2>1. ASSUME NEW o \in DOMAIN Defaults \ {"metadata", "sample_duration"}
        PROVE  options[o] = LastGiven(calls, o, Defaults[o])
    BY <1>2, <1>3, <1>4
  <2>2. QED
    BY <1>3, <1>4, <1>5, <2>1 DEF Followed
<1>7. Concurrent(kind) => options.sample_duration = GivenDuration(calls)
  <2>1. CASE option = "sample_duration"
    BY <1>3, <1>4, <2>1 DEF GivenDuration
  <2>2. CASE option # "sample_duration"
    <3>1. "sample_duration" \in DOMAIN Defaults
      BY DEF Defaults
    <3>2. QED
      BY <1>3, <1>4, <2>2, <3>1 DEF GivenDuration, HandleSound
  <2>3. QED
    BY <2>1, <2>2
<1>8. kind = "concurrent" => GivenDuration(calls) = DefaultSampleDuration
  BY <1>3 DEF GivenDuration, HandleSound
<1>9. QED
  BY <1>1, <1>6, <1>7, <1>8 DEF HandleSound, made

\* A factory is one more option that the chain gives.
LEMMA FactoryIsCall ==
    ASSUME NEW handle, HandleSound(handle), NEW kind, NEW made_by
    PROVE  WithFactory(handle, kind, made_by) = Called(handle, kind, "factory", made_by)
BY DEF WithFactory, Called, WithOption

\* A handle that is derived with a factory, or with a duration, is sound.
LEMMA ConvertedIsSound ==
    ASSUME NEW handle, HandleSound(handle), NEW made \in Converted(handle)
    PROVE  HandleSound(made)
<1>1. "factory" \in DOMAIN Defaults /\ "sample_duration" \in DOMAIN Defaults
  BY DEF Defaults
<1>2. CASE handle.kind = "group"
  <2>1. made \in {WithFactory(handle, "with_factory", "context"),
                  WithFactory(handle, "with_chunk_factory", "chunk")}
    BY <1>2 DEF Converted, factory, factory_for_chunk
  <2>2. made \in {Called(handle, "with_factory", "factory", "context"),
                  Called(handle, "with_chunk_factory", "factory", "chunk")}
    BY <2>1, FactoryIsCall
  <2>3. QED
    BY <1>1, <2>2, CalledIsSound DEF Kinds, Concurrent
<1>3. CASE handle.kind = "with_duration"
  <2>1. made = Called(handle, "concurrent_factory", "factory", "threads")
    BY <1>3, FactoryIsCall DEF Converted, with_duration_factory
  <2>2. QED
    BY <1>1, <1>3, <2>1, CalledIsSound DEF Kinds, Concurrent
<1>4. CASE handle.kind = "concurrent" /\ made = concurrent_factory(handle)
  <2> DEFINE called == Called(handle, "with_factory", "factory", "threads")
  <2>1. HandleSound(called) /\ DOMAIN called.options = DOMAIN Defaults
    <3>1. HandleSound(called)
      BY <1>1, CalledIsSound DEF Kinds, Concurrent
    <3> HIDE DEF called
    <3>2. QED
      BY <3>1 DEF HandleSound, Followed
  <2>2. made = [called EXCEPT !.kind = "concurrent_factory",
                              !.options = [@ EXCEPT !.sample_duration = DefaultSampleDuration]]
    <3>1. made = [WithFactory(handle, "concurrent_factory", "threads")
                    EXCEPT !.options.sample_duration = DefaultSampleDuration]
      BY <1>4 DEF concurrent_factory
    <3>2. WithFactory(handle, "concurrent_factory", "threads")
            = [called EXCEPT !.kind = "concurrent_factory"]
      BY DEF WithFactory, Called, WithOption, HandleSound
    <3> HIDE DEF called
    <3>3. "kind" \in DOMAIN called /\ "options" \in DOMAIN called
      BY <2>1 DEF HandleSound
    <3>4. QED
      BY <3>1, <3>2, <3>3
  <2>3. called.calls = Append(handle.calls, <<"factory", "threads">>)
    BY DEF Called, HandleSound
  <2> HIDE DEF called
  <2>4. /\ DOMAIN made = {"kind", "group", "options", "calls"}
        /\ made.kind = "concurrent_factory" /\ made.group = called.group
        /\ made.calls = called.calls
        /\ made.options = [called.options EXCEPT !.sample_duration = DefaultSampleDuration]
    BY <2>1, <2>2 DEF HandleSound
  <2>5. Followed(made.options, made.calls)
    <3>1. Followed(called.options, called.calls)
      BY <2>1 DEF HandleSound
    <3>2. /\ DOMAIN made.options = DOMAIN Defaults
          /\ \A o \in DOMAIN Defaults \ {"sample_duration"} :
                made.options[o] = called.options[o]
      BY <2>1, <2>4
    <3>3. "metadata" \in DOMAIN Defaults
      BY DEF Defaults
    <3>4. QED
      BY <2>4, <3>1, <3>2, <3>3 DEF Followed
  <2>6. made.options.sample_duration = GivenDuration(made.calls)
    <3>1. GivenDuration(handle.calls) = DefaultSampleDuration /\ IsSequence(handle.calls)
      BY <1>4 DEF HandleSound, Followed
    <3>2. GivenDuration(called.calls) = DefaultSampleDuration
      BY <2>3, <3>1, CallGives DEF GivenDuration
    <3>3. QED
      BY <1>1, <2>1, <2>4, <3>2
  <2>7. QED
    BY <2>1, <2>4, <2>5, <2>6 DEF HandleSound, Kinds
<1>5. CASE handle.kind = "concurrent" /\ made # concurrent_factory(handle)
  <2>1. PICK d : made = Called(handle, "with_duration", "sample_duration", d)
    BY <1>5 DEF Converted, sample_duration
  <2>2. QED
    BY <1>1, <2>1, CalledIsSound DEF Kinds
<1>6. QED
  BY <1>2, <1>3, <1>4, <1>5 DEF Converted

\* A new handle of a group, with the defaults, is sound.
LEMMA OpenedIsSound ==
    ASSUME NEW kind \in {"group", "concurrent"}, NEW group, HasPart(group, group)
    PROVE  HandleSound([kind |-> kind, group |-> group, options |-> Defaults, calls |-> <<>>])
<1>1. Defaults.metadata = <<>>
  BY DEF Defaults
<1>2. Followed(Defaults, <<>>)
  BY <1>1, NothingGiven DEF Followed
<1>3. QED
  BY <1>2, NothingGiven DEF HandleSound, Kinds, Concurrent, GivenDuration

\* The cases that are run without a group have a chain of one call.
LEMMA DirectIsSound ==
    ASSUME HasPart("direct", "direct"), NEW kind \in {"group", "with_duration"},
           NEW option \in {"factory", "sample_duration"}, NEW value,
           kind = "with_duration" => option = "sample_duration"
    PROVE  HandleSound([kind |-> kind, group |-> "direct", calls |-> <<<<option, value>>>>,
                        options |-> [Defaults EXCEPT ![option] = value]])
<1> DEFINE direct == [kind |-> "group", group |-> "direct", options |-> Defaults,
                      calls |-> <<>>]
<1>1. HandleSound(direct)
  BY OpenedIsSound
<1>2. option \in DOMAIN Defaults
  BY DEF Defaults
<1>3. HandleSound(Called(direct, kind, option, value))
  BY <1>1, <1>2, CalledIsSound DEF Kinds, Concurrent
<1>4. Called(direct, kind, option, value)
        = [kind |-> kind, group |-> "direct", calls |-> <<<<option, value>>>>,
           options |-> [Defaults EXCEPT ![option] = value]]
  <2>1. Append(<<>>, <<option, value>>) = <<<<option, value>>>>
    OBVIOUS
  <2>2. WithOption(Defaults, option, value) = [Defaults EXCEPT ![option] = value]
    BY DEF WithOption
  <2>3. Called(direct, kind, option, value)
          = [direct EXCEPT !.kind = kind, !.options = WithOption(Defaults, option, value),
                           !.calls = Append(<<>>, <<option, value>>)]
    BY DEF Called
  <2> QED
    BY <2>1, <2>2, <2>3, Zenon
<1>5. QED
  BY <1>3, <1>4

-------------------------------------------------------------------------------
(* Cases *)

\* What a sequence is made of, and what it is made of with one element more
LEMMA SequenceGrows ==
    ASSUME NEW s, IsSequence(s), NEW e
    PROVE  /\ Len(s) \in Nat /\ DOMAIN s = 1..Len(s) /\ (s # <<>> => Len(s) > 0)
           /\ IsSequence(Append(s, e)) /\ Append(s, e) # <<>>
           /\ Len(Append(s, e)) = Len(s) + 1 /\ DOMAIN Append(s, e) = 1..(Len(s) + 1)
           /\ Append(s, e)[Len(s) + 1] = e
           /\ \A i \in DOMAIN s : Append(s, e)[i] = s[i]
<1>1. PICK T : s \in Seq(T)
  BY DEF IsSequence
<1>2. s \in Seq(T \cup {e})
  BY <1>1
<1>3. Append(s, e) \in Seq(T \cup {e})
  BY <1>2
<1>4. IsSequence(Append(s, e))
  BY <1>3 DEF IsSequence
<1>5. Len(s) \in Nat /\ DOMAIN s = 1..Len(s) /\ (s # <<>> => Len(s) > 0)
  BY <1>1
<1>6. /\ Len(Append(s, e)) = Len(s) + 1 /\ DOMAIN Append(s, e) = 1..(Len(s) + 1)
      /\ Append(s, e)[Len(s) + 1] = e
      /\ \A i \in DOMAIN s : Append(s, e)[i] = s[i]
  BY <1>2, <1>3
<1>7. Append(s, e) # <<>>
  BY <1>3, <1>5, <1>6
<1>8. QED
  BY <1>4, <1>5, <1>6, <1>7

\* should_run agrees with the property about names and groups.
LEMMA ShouldRunLetsThrough ==
    ASSUME NEW asking, HasPart(asking.group, asking.group)
    PROVE  should_run(asking.name, asking.group) <=> Through(asking)
BY DEF should_run, Through

\* While the filter and the cases asked for stay, so does what was let through.
LEMMA ThroughStays ==
    ASSUME asked' = asked, filter' = filter
    PROVE  /\ \A j \in DOMAIN asked : Through(asked[j])' = Through(asked[j])
           /\ \A j : LetThrough(j)' = LetThrough(j)
BY DEF Through, LetThrough

\* One more case that is asked for adds one if the filter lets it through.
LEMMA ThroughGrows ==
    ASSUME IsSequence(asked), NEW asking, asked' = Append(asked, asking), filter' = filter,
           NEW n, n = Len(asked)
    PROVE  /\ \A j \in DOMAIN asked : Through(asked[j])' = Through(asked[j])
           /\ \A j \in DOMAIN asked : LetThrough(j)' = LetThrough(j)
           /\ LetThrough(n + 1)' = LetThrough(n) + IF Through(asking) THEN 1 ELSE 0
           /\ LetThrough(n) \in Nat
<1> DEFINE S == {k \in 1..n : Through(asked[k])}
<1>1. /\ n \in Nat /\ DOMAIN asked = 1..n
      /\ asked'[n + 1] = asking /\ \A i \in 1..n : asked'[i] = asked[i]
  BY SequenceGrows
<1>2. \A j \in 1..n : Through(asked[j])' = Through(asked[j])
  BY <1>1 DEF Through
<1>3. ASSUME NEW j \in 1..n PROVE LetThrough(j)' = LetThrough(j)
  <2>1. \A k \in 1..j : k \in 1..n
    BY <1>1
  <2>2. {k \in 1..j : Through(asked[k])'} = {k \in 1..j : Through(asked[k])}
    BY <1>2, <2>1
  <2>3. QED
    BY <2>2 DEF LetThrough
<1>4. IsFiniteSet(S) /\ Cardinality(S) \in Nat
  <2>1. IsFiniteSet(1..n) /\ S \subseteq 1..n
    BY <1>1, FS_Interval
  <2> HIDE DEF S
  <2>2. IsFiniteSet(S)
    BY <2>1, FS_Subset
  <2>3. QED
    BY <2>2, FS_CardinalityType
<1>5. Through(asked[n + 1])' = Through(asking)
  BY <1>1 DEF Through
<1>6. {k \in 1..(n + 1) : Through(asked[k])'}
        = IF Through(asking) THEN S \cup {n + 1} ELSE S
  <2>1. \A k : k \in 1..(n + 1) <=> k \in 1..n \/ k = n + 1
    BY <1>1
  <2>2. QED
    BY <1>2, <1>5, <2>1
<1>7. n + 1 \notin S
  BY <1>1
<1> HIDE DEF S
<1>8. Cardinality(S \cup {n + 1}) = Cardinality(S) + 1
  BY <1>4, <1>7, FS_AddElement
<1>9. LetThrough(n) = Cardinality(S)
  BY DEF LetThrough, S
<1>10. LetThrough(n + 1)' = Cardinality({k \in 1..(n + 1) : Through(asked[k])'})
  BY DEF LetThrough
<1>11. LetThrough(n + 1)' = LetThrough(n) + IF Through(asking) THEN 1 ELSE 0
  <2>1. CASE Through(asking)
    BY <1>6, <1>8, <1>9, <1>10, <2>1
  <2>2. CASE ~Through(asking)
    <3>1. LetThrough(n + 1)' = Cardinality(S)
      BY <1>6, <1>10, <2>2
    <3>2. QED
      BY <1>4, <1>9, <2>2, <3>1
  <2>3. QED
    BY <2>1, <2>2
<1>12. QED
  BY <1>1, <1>2, <1>3, <1>4, <1>9, <1>11

\* The results that there are stay sound when a case is asked for, or when
\* nothing is.
LEMMA ResultsStaySound ==
    ASSUME AskedInv, SessionInv, session' = session, filter' = filter,
           asked' = asked \/ \E asking : asked' = Append(asked, asking)
    PROVE  SessionInv'
<1>1. ASSUME NEW i \in DOMAIN session PROVE ResultSound(i)'
  <2>1. PICK j \in DOMAIN asked : /\ Through(asked[j]) /\ LetThrough(j) = i
                                  /\ AsAsked(session[i], asked[j])
    BY DEF SessionInv, ResultSound
  <2>2. /\ j \in DOMAIN asked' /\ asked'[j] = asked[j]
        /\ Through(asked[j])' = Through(asked[j]) /\ LetThrough(j)' = LetThrough(j)
    <3>1. CASE asked' = asked
      BY <3>1, ThroughStays
    <3>2. ASSUME NEW asking, asked' = Append(asked, asking)
          PROVE  /\ j \in DOMAIN asked' /\ asked'[j] = asked[j]
                 /\ Through(asked[j])' = Through(asked[j]) /\ LetThrough(j)' = LetThrough(j)
      <4>1. IsSequence(asked)
        BY DEF AskedInv
      <4>2. j \in DOMAIN asked' /\ asked'[j] = asked[j]
        BY <3>2, <4>1, SequenceGrows
      <4>3. QED
        BY <3>2, <4>1, <4>2, ThroughGrows
    <3>3. QED
      BY <3>1, <3>2
  <2>3. AsAsked(session[i], asked[j])' = AsAsked(session[i], asked[j])
    BY <2>2 DEF AsAsked
  <2>4. session[i].execution_index = i - 1
    BY DEF SessionInv, ResultSound
  <2>5. QED
    BY <2>1, <2>2, <2>3, <2>4 DEF ResultSound
<1>2. QED
  BY <1>1 DEF SessionInv

\* What a bench call asks for
Asking(handle) ==
    [name |-> Head(pending), group |-> handle.group,
     kind |-> IF Concurrent(handle.kind) THEN "concurrent" ELSE "standard",
     options |-> handle.options, calls |-> handle.calls]

\* A bench call, whether or not its case runs: the next name of the list is asked
\* for with the options of the handle.
LEMMA AskKeepsInv ==
    ASSUME GroupsInv, stage = "register", pending # <<>>, NEW handle, HandleSound(handle),
           Ask(handle), UNCHANGED <<runnerVars, handles, session>>,
           stage' \in {"register", "case", "panicked"}
    PROVE  /\ HandleInv' /\ AskedInv' /\ NamesInv' /\ SessionInv'
           /\ case' = Asking(handle) /\ asked' # <<>> /\ case' = asked'[Len(asked')]
           /\ Through(case)' = should_run(Head(pending), handle.group)
           /\ LetThrough(Len(asked))'
                = Len(session) + IF should_run(Head(pending), handle.group) THEN 1 ELSE 0
<1> DEFINE asking == Asking(handle)
<1>1. /\ asked' = Append(asked, asking) /\ case' = asking /\ pending' = Tail(pending)
      /\ program' = program /\ filter' = filter /\ handles' = handles /\ session' = session
  BY DEF Ask, Asking, runnerVars
<1>2. IsSequence(asked) /\ \A j \in DOMAIN asked : AskingSound(asked[j])
  BY DEF GroupsInv, AskedInv
<1>3. /\ Len(asked) \in Nat /\ DOMAIN asked = 1..Len(asked)
      /\ IsSequence(asked') /\ asked' # <<>>
      /\ Len(asked') = Len(asked) + 1 /\ DOMAIN asked' = 1..(Len(asked) + 1)
      /\ asked'[Len(asked) + 1] = asking
      /\ \A i \in DOMAIN asked : asked'[i] = asked[i]
  BY <1>1, <1>2, SequenceGrows
<1>4. HandleInv'
  BY <1>1 DEF GroupsInv, HandleInv
<1>5. AskedInv'
  <2>1. AskingSound(asking)
    BY DEF Asking, AskingSound, HandleSound
  <2> HIDE DEF asking
  <2>2. \A j \in DOMAIN asked' : AskingSound(asked'[j])
    BY <1>2, <1>3, <2>1
  <2>3. QED
    BY <1>3, <2>2 DEF AskedInv
<1>6. NamesInv'
  <2>1. /\ pending \in Seq(STRING) /\ program \in Programs
        /\ Len(asked) + Len(pending) = Len(program.cases)
        /\ {asked[j].name : j \in DOMAIN asked} \cup Range(pending) = Range(program.cases)
    BY DEF GroupsInv, NamesInv
  <2>2. /\ Tail(pending) \in Seq(STRING) /\ Len(Tail(pending)) = Len(pending) - 1
        /\ Len(pending) \in Nat
    BY <2>1
  <2>3. Range(pending) = {Head(pending)} \cup Range(Tail(pending))
    <3>1. /\ Len(pending) \in Nat /\ Len(pending) >= 1 /\ DOMAIN pending = 1..Len(pending)
          /\ DOMAIN Tail(pending) = 1..(Len(pending) - 1)
          /\ \A i \in 1..(Len(pending) - 1) : Tail(pending)[i] = pending[i + 1]
          /\ Head(pending) = pending[1]
      BY <2>1
    <3>2. \A i \in 1..Len(pending) : i = 1 \/ (i - 1 \in 1..(Len(pending) - 1) /\ (i - 1) + 1 = i)
      BY <3>1
    <3>3. \A i \in 1..(Len(pending) - 1) : i + 1 \in 1..Len(pending)
      BY <3>1
    <3>4. 1 \in 1..Len(pending)
      BY <3>1
    <3>5. ASSUME NEW x \in Range(pending) PROVE x \in {Head(pending)} \cup Range(Tail(pending))
      <4>1. PICK i \in 1..Len(pending) : x = pending[i]
        BY <3>1 DEF Range
      <4>2. CASE i = 1
        BY <3>1, <4>1, <4>2
      <4>3. CASE i - 1 \in 1..(Len(pending) - 1) /\ (i - 1) + 1 = i
        <5>1. x = Tail(pending)[i - 1] /\ i - 1 \in DOMAIN Tail(pending)
          BY <3>1, <4>1, <4>3
        <5>2. QED
          BY <5>1 DEF Range
      <4>4. QED
        BY <3>2, <4>2, <4>3
    <3>6. ASSUME NEW x \in {Head(pending)} \cup Range(Tail(pending)) PROVE x \in Range(pending)
      BY <3>1, <3>3, <3>4 DEF Range
    <3>7. QED
      BY <3>5, <3>6
  <2>4. {asked'[j].name : j \in DOMAIN asked'}
          = {asked[j].name : j \in DOMAIN asked} \cup {Head(pending)}
    <3>1. asking.name = Head(pending)
      BY DEF Asking
    <3> HIDE DEF asking
    <3>2. \A j : j \in DOMAIN asked' <=> j \in DOMAIN asked \/ j = Len(asked) + 1
      BY <1>3
    <3>3. QED
      BY <1>3, <3>1, <3>2
  <2>5. Len(asked') + Len(pending') = Len(program.cases)
    <3>1. Len(asked') = Len(asked) + 1 /\ Len(pending') = Len(pending) - 1
      BY <1>1, <1>3, <2>2
    <3> HIDE DEF asking
    <3>2. Len(asked) \in Nat /\ Len(pending) \in Nat
      BY <1>3, <2>2
    <3>3. QED
      BY <2>1, <3>1, <3>2
  <2>6. {asked'[j].name : j \in DOMAIN asked'} \cup Range(pending') = Range(program.cases)
    BY <1>1, <2>1, <2>3, <2>4
  <2>7. QED
    BY <1>1, <2>1, <2>2, <2>5, <2>6 DEF NamesInv
<1>7. SessionInv'
  BY <1>1, ResultsStaySound DEF GroupsInv
<1>8. Through(asking) = should_run(Head(pending), handle.group)
  <2>1. /\ HasPart(asking.group, asking.group) /\ asking.name = Head(pending)
        /\ asking.group = handle.group
    BY DEF HandleSound, Asking
  <2>2. (Through(asking) <=> should_run(asking.name, asking.group))
    BY <2>1, ShouldRunLetsThrough
  <2>3. Through(asking) \in BOOLEAN /\ should_run(asking.name, asking.group) \in BOOLEAN
    BY DEF Through, should_run, HasPart
  <2>4. QED
    BY <2>1, <2>2, <2>3
<1>9. Len(session) = LetThrough(Len(asked))
  BY DEF GroupsInv, CountInv
<1>10. PICK m \in Nat : m = Len(asked)
  BY <1>3
<1> HIDE DEF asking
<1>11. Through(case)' = Through(asking)
  BY <1>1 DEF Through
<1>12. LetThrough(Len(asked))'
         = Len(session) + IF should_run(Head(pending), handle.group) THEN 1 ELSE 0
  <2>1. LetThrough(m + 1)' = LetThrough(m) + IF Through(asking) THEN 1 ELSE 0
    BY <1>1, <1>2, <1>10, ThroughGrows
  <2>2. LetThrough(Len(asked))' = LetThrough(m + 1)'
    BY <1>3, <1>10 DEF LetThrough
  <2>3. LetThrough(m) = Len(session)
    BY <1>9, <1>10
  <2>4. QED
    BY <1>8, <2>1, <2>2, <2>3
<1>13. QED
  BY <1>1, <1>3, <1>4, <1>5, <1>6, <1>7, <1>8, <1>11, <1>12 DEF asking

-------------------------------------------------------------------------------
(* Every step preserves the invariant. *)

\* A step that leaves the cases and the results alone, and at most opens handles
\* or ends the program.
LEMMA FrameKeepsInv ==
    ASSUME GroupsInv, HandleInv', UNCHANGED <<program, filter, pending, asked, case,
                                              backends, session>>,
           stage = "launch" => stage' = stage /\ handles' = handles,
           \/ stage' = stage
           \/ stage' = "panicked"
           \/ stage = "register" /\ stage' = "done" /\ pending = <<>>
    PROVE  GroupsInv'
<1>1. AskedInv'
  BY DEF GroupsInv, AskedInv
<1>2. NamesInv'
  BY DEF GroupsInv, NamesInv
<1>3. SessionInv'
  BY ResultsStaySound DEF GroupsInv
<1>4. CountInv'
  <2>1. LetThrough(Len(asked))' = LetThrough(Len(asked)) /\ Through(case)' = Through(case)
    BY DEF LetThrough, Through
  <2>2. QED
    BY <2>1 DEF GroupsInv, CountInv
<1>5. BackendInv'
  BY DEF GroupsInv, BackendInv
<1>6. QED
  BY <1>1, <1>2, <1>3, <1>4, <1>5 DEF GroupsInv

\* A bench call: the case is passed over, refused, or begun, and a case that
\* begins has a backend of its own or is left to the managed workers.
LEMMA BenchKeepsInv ==
    ASSUME GroupsInv, stage = "register", pending # <<>>, NEW handle, HandleSound(handle),
           Ask(handle), UNCHANGED <<runnerVars, handles, session>>,
           \/ /\ ~should_run(Head(pending), handle.group) /\ stage' = "register"
              /\ backends' \in {backends, backends + 1}
           \/ stage' = "panicked" /\ backends' = backends
           \/ /\ should_run(Head(pending), handle.group) /\ stage' = "case"
              /\ \/ backends' = backends + 1
                 \/ /\ backends' = backends
                    /\ Scope(Asking(handle).kind, Asking(handle).options) = Managed
    PROVE  GroupsInv'
<1> DEFINE run == should_run(Head(pending), handle.group)
<1>1. /\ HandleInv' /\ AskedInv' /\ NamesInv' /\ SessionInv'
      /\ case' = Asking(handle) /\ asked' # <<>> /\ case' = asked'[Len(asked')]
      /\ Through(case)' = run
      /\ LetThrough(Len(asked))' = Len(session) + IF run THEN 1 ELSE 0
  BY AskKeepsInv
<1>2. session' = session /\ Len(session) \in Nat
  BY SequenceGrows DEF GroupsInv, SessionInv
<1> HIDE DEF run
<1>3. /\ stage' = "register" => ~run
      /\ stage' = "case" => run
      /\ stage' \in {"register", "case", "panicked"}
  BY DEF run
<1>4. CountInv'
  BY <1>1, <1>2, <1>3 DEF CountInv
<1>5. BackendInv'
  <2>1. /\ backends \in Nat /\ backends' \in {backends, backends + 1}
        /\ \/ stage' # "case" \/ backends' = backends + 1
           \/ Scope(case'.kind, case'.options) = Managed
    BY <1>1 DEF GroupsInv, BackendInv
  <2>2. ASSUME NEW i \in DOMAIN session, session[i].scope # Managed
        PROVE  /\ session[i].backend \in Nat /\ session[i].backend <= backends'
               /\ stage' = "case" /\ Scope(case'.kind, case'.options) # Managed =>
                     session[i].backend < backends'
    BY <2>1, <2>2 DEF GroupsInv, BackendInv
  <2>3. \A i, j \in DOMAIN session :
           session[i].scope # Managed /\ session[j].scope # Managed =>
              (session[i].backend = session[j].backend => i = j)
    BY DEF GroupsInv, BackendInv
  <2>4. backends' \in Nat
    BY <2>1
  <2>5. QED
    BY <1>2, <2>2, <2>3, <2>4 DEF BackendInv
<1>6. QED
  BY <1>1, <1>4, <1>5 DEF GroupsInv

\* bench and bench_sample of a standard group, and run
LEMMA StandardKeepsInv ==
    ASSUME GroupsInv, NEW handle, HandleSound(handle), BenchStandard(handle)
    PROVE  GroupsInv'
<1>1. /\ stage = "register" /\ pending # <<>> /\ Ask(handle)
      /\ backends' = backends + 1 /\ UNCHANGED <<runnerVars, handles, session>>
      /\ IF should_run(Head(pending), handle.group) THEN stage' = "case" ELSE stage' = stage
  BY DEF BenchStandard, BeginCase
<1>2. QED
  BY <1>1, BenchKeepsInv

\* bench of a concurrent handle, and run_concurrent
LEMMA ConcurrentKeepsInv ==
    ASSUME GroupsInv, NEW handle, HandleSound(handle), NEW threads,
           BenchConcurrent(handle, threads)
    PROVE  GroupsInv'
<1>1. /\ stage = "register" /\ pending # <<>> /\ Ask(handle) /\ Concurrent(handle.kind)
      /\ UNCHANGED <<runnerVars, handles, session>>
      /\ StartConcurrent(Head(pending), handle.group, handle.options, threads)
  BY DEF BenchConcurrent
<1>2. /\ Asking(handle).kind = "concurrent" /\ Asking(handle).options = handle.options
  BY <1>1 DEF Asking
<1>3. handle.options.backend = "none" => Scope(Asking(handle).kind, Asking(handle).options) = Managed
  BY <1>2 DEF Scope, Managed
<1>4. CASE ~should_run(Head(pending), handle.group)
  <2>1. stage' = "register" /\ backends' = backends
    BY <1>1, <1>4 DEF StartConcurrent
  <2>2. QED
    BY <1>1, <1>4, <2>1, BenchKeepsInv
<1>5. CASE should_run(Head(pending), handle.group)
  <2>1. \/ stage' = "panicked" /\ backends' = backends
        \/ /\ stage' = "case"
           /\ \/ handle.options.backend = "none" /\ backends' = backends + 0
              \/ backends' = backends + 1
    BY <1>1, <1>5 DEF StartConcurrent, BeginCase
  <2>2. backends + 0 = backends
    BY DEF GroupsInv, BackendInv
  <2>3. QED
    BY <1>1, <1>3, <1>5, <2>1, <2>2, BenchKeepsInv
<1>6. QED
  BY <1>4, <1>5

\* A text that names a group is part of itself.
LEMMA GroupsArePartsOfThemselves ==
    ASSUME GroupsInv
    PROVE  /\ \A group \in program.groups :
                 group[1] \in {"group", "concurrent"} /\ HasPart(group[2], group[2])
           /\ HasPart("direct", "direct")
BY GroupsAssumption DEF GroupsInv, NamesInv, HasPart

\* Handles are opened and configured, or an assertion ends the program.
LEMMA HandlesKeepInv ==
    ASSUME GroupsInv, OpenGroup \/ Configure \/ Misconfigure
    PROVE  GroupsInv'
<1>1. /\ stage = "register"
      /\ UNCHANGED <<program, filter, pending, asked, case, backends, session>>
      /\ stage' \in {stage, "panicked"}
  BY DEF OpenGroup, Configure, Misconfigure, Hold, runnerVars, closureVars
<1>2. \A made : HandleSound(made) /\ handles' = handles \cup {made} => HandleInv'
  BY DEF GroupsInv, HandleInv
<1>3. CASE OpenGroup
  <2>1. PICK group \in program.groups :
           handles' = handles \cup {[kind |-> group[1], group |-> group[2],
                                     options |-> Defaults, calls |-> <<>>]}
    BY <1>3 DEF OpenGroup, Hold
  <2>2. HandleInv'
    BY <1>2, <2>1, GroupsArePartsOfThemselves, OpenedIsSound
  <2>3. QED
    BY <1>1, <2>2, FrameKeepsInv
<1>4. CASE Configure
  <2>1. PICK handle \in handles :
           \/ \E made \in Converted(handle) : handles' = handles \cup {made}
           \/ \E option \in OptionsOf(handle.kind) : \E value :
                 handles' = handles \cup {Called(handle, handle.kind, option, value)}
    BY <1>4 DEF Configure, Hold
  <2>2. HandleSound(handle)
    BY DEF GroupsInv, HandleInv
  <2>3. handle.kind \in Kinds
    BY <2>2 DEF HandleSound
  <2>4. /\ OptionsOf(handle.kind) \subseteq DOMAIN Defaults
        /\ handle.kind = "concurrent" => "sample_duration" \notin OptionsOf(handle.kind)
    BY <2>3 DEF Kinds, OptionsOf, Defaults, BenchmarkGroupOptions,
                BenchmarkGroupWithFactoryOptions, BenchmarkGroupWithChunkFactoryOptions,
                ConcurrentBenchmarkGroupOptions, ConcurrentBenchmarkGroupWithDurationOptions,
                ConcurrentBenchmarkGroupWithFactoryOptions
  <2>5. ASSUME NEW option \in OptionsOf(handle.kind), NEW value
        PROVE  HandleSound(Called(handle, handle.kind, option, value))
    BY <2>2, <2>3, <2>4, CalledIsSound
  <2>6. HandleInv'
    BY <1>2, <2>1, <2>2, <2>5, ConvertedIsSound
  <2>7. QED
    BY <1>1, <2>6, FrameKeepsInv
<1>5. CASE Misconfigure
  <2>1. handles' = handles
    BY <1>5 DEF Misconfigure, closureVars
  <2>2. HandleInv'
    BY <2>1 DEF GroupsInv, HandleInv
  <2>3. QED
    BY <1>1, <2>2, FrameKeepsInv
<1>6. QED
  BY <1>3, <1>4, <1>5

\* A case is asked for.
LEMMA CasesKeepInv ==
    ASSUME GroupsInv, Bench \/ RunStandard \/ RunConcurrent
    PROVE  GroupsInv'
<1>1. HasPart("direct", "direct")
  BY GroupsArePartsOfThemselves
<1>2. CASE Bench
  <2>1. PICK handle \in handles : \/ BenchStandard(handle)
                                  \/ \E threads \in {0, 2} : BenchConcurrent(handle, threads)
    BY <1>2 DEF Bench
  <2>2. HandleSound(handle)
    BY DEF GroupsInv, HandleInv
  <2>3. QED
    BY <2>1, <2>2, StandardKeepsInv, ConcurrentKeepsInv
<1>3. CASE RunStandard
  <2>1. PICK made_by \in {"prepare", "context"} :
           BenchStandard([kind |-> "group", group |-> "direct",
                          calls |-> <<<<"factory", made_by>>>>,
                          options |-> [Defaults EXCEPT !.factory = made_by]])
    BY <1>3 DEF RunStandard
  <2>2. HandleSound([kind |-> "group", group |-> "direct",
                     calls |-> <<<<"factory", made_by>>>>,
                     options |-> [Defaults EXCEPT !["factory"] = made_by]])
    BY <1>1, DirectIsSound
  <2>3. QED
    BY <2>1, <2>2, StandardKeepsInv
<1>4. CASE RunConcurrent
  <2>1. PICK duration, threads :
           BenchConcurrent([kind |-> "with_duration", group |-> "direct",
                            calls |-> <<<<"sample_duration", duration>>>>,
                            options |-> [Defaults EXCEPT !.sample_duration = duration]], threads)
    BY <1>4 DEF RunConcurrent
  <2>2. HandleSound([kind |-> "with_duration", group |-> "direct",
                     calls |-> <<<<"sample_duration", duration>>>>,
                     options |-> [Defaults EXCEPT !["sample_duration"] = duration]])
    BY <1>1, DirectIsSound
  <2>3. QED
    BY <2>1, <2>2, ConcurrentKeepsInv
<1>5. QED
  BY <1>2, <1>3, <1>4

\* The launch reads the filter and orders the list.
LEMMA LaunchKeepsInv ==
    ASSUME GroupsInv, Launch
    PROVE  GroupsInv'
<1>1. /\ stage = "launch" /\ stage' \in {"register", "panicked"}
      /\ UNCHANGED <<program, handles, asked, case, backends, session>>
      /\ asked = <<>> /\ session = <<>> /\ handles = {}
  BY DEF Launch, GroupsInv, NamesInv
<1>2. program \in Programs /\ program.cases \in Seq(STRING)
  BY GroupsAssumption DEF GroupsInv, NamesInv
<1>3. SameNames(pending', program.cases)
  <2>1. \/ pending' = program.cases
        \/ \E draws \in Draws(Len(program.cases)) : pending' = indices(program.cases, draws)
    BY DEF Launch
  <2>2. SameNames(program.cases, program.cases)
    BY <1>2 DEF SameNames
  <2>3. QED
    BY <1>2, <2>1, <2>2, IndicesKeepNames
<1>4. HandleInv' /\ AskedInv' /\ SessionInv'
  BY <1>1 DEF GroupsInv, HandleInv, AskedInv, SessionInv
<1>5. NamesInv'
  <2>1. /\ pending' \in Seq(STRING) /\ Len(pending') = Len(program.cases)
        /\ Range(pending') = Range(program.cases) /\ Len(program.cases) \in Nat
    BY <1>2, <1>3 DEF SameNames
  <2>2. Len(asked') = 0 /\ {asked'[j].name : j \in DOMAIN asked'} = {}
    BY <1>1
  <2>3. QED
    BY <1>1, <1>2, <2>1, <2>2 DEF NamesInv
<1>6. CountInv'
  <2>1. LetThrough(Len(asked))' = 0
    <3>1. Len(asked') = 0
      BY <1>1
    <3>2. {k \in 1..0 : Through(asked[k])'} = {}
      OBVIOUS
    <3>3. LetThrough(Len(asked))' = Cardinality({k \in 1..0 : Through(asked[k])'})
      BY <3>1 DEF LetThrough
    <3>4. QED
      BY <3>2, <3>3, FS_EmptySet
  <2>2. Len(session') = 0
    BY <1>1
  <2>3. QED
    BY <1>1, <2>1, <2>2 DEF CountInv
<1>7. BackendInv'
  BY <1>1 DEF GroupsInv, BackendInv
<1>8. QED
  BY <1>4, <1>5, <1>6, <1>7 DEF GroupsInv

\* What is computed of the samples keeps the case's throughput unit.
LEMMA StatsKeepThroughput ==
    ASSUME NEW throughput
    PROVE  benchmark_stats_from_samples(throughput).throughput = throughput
BY DEF benchmark_stats_from_samples

\* What Report adds to the session, field by field.
LEMMA ReportAdds ==
    ASSUME Report
    PROVE  \E result :
             /\ session' = Append(session, result)
             /\ result.name = case.name /\ result.group = case.group /\ result.kind = case.kind
             /\ result.execution_index = Len(session)
             /\ result.metadata = case.options.metadata
             /\ result.domain = case.options.measurement_domain
             /\ result.scope = Scope(case.kind, case.options)
             /\ result.stats.throughput = case.options.throughput
             /\ result.options = case.options /\ result.backend = backends
<1> DEFINE bare == [name |-> case.name, group |-> case.group, kind |-> case.kind,
                    execution_index |-> Len(session),
                    metadata |-> case.options.metadata,
                    domain   |-> case.options.measurement_domain,
                    scope    |-> Scope(case.kind, case.options),
                    emits_cpu_diagnostics |-> Scope(case.kind, case.options) # "device",
                    stats    |-> stats',
                    options  |-> case.options,
                    backend  |-> backends,
                    diagnosis |-> {}]
           found  == diagnose_stats(stats', SuppressesCpuNotes(bare))
           result == [bare EXCEPT !.diagnosis = found]
<1>1. session' = Append(session, result)
  BY DEF Report
<1>2. stats'.throughput = case.options.throughput
  BY StatsKeepThroughput DEF Report
<1> HIDE DEF found
<1>3. /\ result.name = case.name /\ result.group = case.group /\ result.kind = case.kind
      /\ result.execution_index = Len(session)
      /\ result.metadata = case.options.metadata
      /\ result.domain = case.options.measurement_domain
      /\ result.scope = Scope(case.kind, case.options)
      /\ result.stats = stats'
      /\ result.options = case.options /\ result.backend = backends
  OBVIOUS
<1> HIDE DEF result
<1>4. QED
  BY <1>1, <1>2, <1>3

\* A case that was measured enters the session with what its chain asked for.
LEMMA ReportKeepsInv ==
    ASSUME GroupsInv, Report
    PROVE  GroupsInv'
<1>1. /\ stage = "case" /\ stage' = "register"
      /\ UNCHANGED <<program, filter, pending, handles, asked, case, backends>>
      /\ stats' = benchmark_stats_from_samples(case.options.throughput)
  BY DEF Report, runnerVars, closureVars
<1>2. PICK result :
         /\ session' = Append(session, result)
         /\ result.name = case.name /\ result.group = case.group /\ result.kind = case.kind
         /\ result.execution_index = Len(session)
         /\ result.metadata = case.options.metadata
         /\ result.domain = case.options.measurement_domain
         /\ result.scope = Scope(case.kind, case.options)
         /\ result.stats.throughput = case.options.throughput
         /\ result.options = case.options /\ result.backend = backends
  BY ReportAdds
<1>3. /\ IsSequence(asked) /\ asked # <<>> /\ case = asked[Len(asked)] /\ Through(case)
      /\ Len(session) + 1 = LetThrough(Len(asked))
      /\ IsSequence(session)
  BY <1>1 DEF GroupsInv, AskedInv, CountInv, SessionInv
<1>4. Len(asked) \in DOMAIN asked
  BY <1>3, SequenceGrows
<1>5. /\ Len(session) \in Nat /\ DOMAIN session = 1..Len(session)
      /\ IsSequence(session') /\ Len(session') = Len(session) + 1
      /\ DOMAIN session' = 1..(Len(session) + 1)
      /\ session'[Len(session) + 1] = result
      /\ \A i \in DOMAIN session : session'[i] = session[i]
  BY <1>2, <1>3, SequenceGrows
<1>6. AskingSound(case)
  BY <1>3, <1>4 DEF GroupsInv, AskedInv
<1>7. AsAsked(result, case)
  <2>1. \A option \in {"throughput", "measurement_domain", "backend", "lifecycle",
                       "diagnostic_pass", "diagnostic_samples", "factory"} :
           case.options[option] = LastGiven(case.calls, option, Defaults[option])
    BY <1>6 DEF AskingSound, Followed, Defaults
  <2>2. case.options.metadata = GivenMetadata(case.calls)
    BY <1>6 DEF AskingSound, Followed
  <2>3. case.kind = "concurrent" =>
           case.options.sample_duration
             = LastGiven(case.calls, "sample_duration", DefaultSampleDuration)
    BY <1>6 DEF AskingSound, GivenDuration
  <2>4. case.options.backend # "none" =>
           Scope(case.kind, case.options) = case.options.backend
    BY DEF Scope
  <2>5. QED
    BY <1>2, <2>1, <2>2, <2>3, <2>4 DEF AsAsked
<1>8. HandleInv' /\ AskedInv' /\ NamesInv'
  BY <1>1 DEF GroupsInv, HandleInv, AskedInv, NamesInv
<1>9. /\ \A j \in DOMAIN asked : Through(asked[j])' = Through(asked[j])
      /\ \A j : LetThrough(j)' = LetThrough(j)
      /\ LetThrough(Len(asked))' = LetThrough(Len(asked))
  BY <1>1 DEF Through, LetThrough
<1>10. SessionInv'
  <2>1. ASSUME NEW i \in DOMAIN session PROVE ResultSound(i)'
    <3>1. PICK j \in DOMAIN asked : /\ Through(asked[j]) /\ LetThrough(j) = i
                                    /\ AsAsked(session[i], asked[j])
      BY DEF GroupsInv, SessionInv, ResultSound
    <3>2. /\ session'[i] = session[i] /\ asked' = asked
          /\ session[i].execution_index = i - 1
      BY <1>1, <1>5 DEF GroupsInv, SessionInv, ResultSound
    <3>3. AsAsked(session[i], asked[j])' = AsAsked(session[i], asked[j])
      BY <3>2 DEF AsAsked
    <3>4. QED
      BY <1>9, <3>1, <3>2, <3>3 DEF ResultSound
  <2>2. ASSUME NEW i, i = Len(session) + 1 PROVE ResultSound(i)'
    <3>1. PICK j \in DOMAIN asked : j = Len(asked)
      BY <1>4
    <3>2. AsAsked(session[i], asked[j])' = AsAsked(result, case)
      BY <1>1, <1>3, <1>5, <2>2, <3>1 DEF AsAsked
    <3>3. session'[i].execution_index = i - 1
      BY <1>2, <1>5, <2>2
    <3>4. Through(asked[j])' /\ LetThrough(j)' = i
      BY <1>3, <1>9, <2>2, <3>1
    <3>5. QED
      BY <1>1, <1>7, <3>2, <3>3, <3>4 DEF ResultSound
  <2>3. \A i \in DOMAIN session' : i \in DOMAIN session \/ i = Len(session) + 1
    BY <1>5
  <2>4. QED
    BY <1>5, <2>1, <2>2, <2>3 DEF SessionInv
<1>11. CountInv'
  BY <1>1, <1>3, <1>5, <1>9 DEF CountInv
<1>12. BackendInv'
  <2>1. /\ backends \in Nat
        /\ \A i \in DOMAIN session :
              session[i].scope # Managed =>
                 /\ session[i].backend \in Nat /\ session[i].backend <= backends
                 /\ result.scope # Managed => session[i].backend < backends
    BY <1>1, <1>2 DEF GroupsInv, BackendInv
  <2>2. \A i, j \in DOMAIN session :
           session[i].scope # Managed /\ session[j].scope # Managed =>
              (session[i].backend = session[j].backend => i = j)
    BY DEF GroupsInv, BackendInv
  <2>3. \A i \in DOMAIN session' :
           \/ i \in DOMAIN session /\ session'[i] = session[i]
           \/ i = Len(session) + 1 /\ session'[i] = result
    BY <1>5
  <2>4. \A i \in DOMAIN session' :
           session'[i].scope # Managed =>
              session'[i].backend \in Nat /\ session'[i].backend <= backends
    BY <1>2, <2>1, <2>3
  <2>5. ASSUME NEW i \in DOMAIN session', NEW j \in DOMAIN session',
               session'[i].scope # Managed, session'[j].scope # Managed,
               session'[i].backend = session'[j].backend
        PROVE  i = j
    <3>1. CASE i \in DOMAIN session /\ j \in DOMAIN session
      BY <1>5, <2>2, <2>5, <3>1
    <3>2. CASE i \in DOMAIN session /\ j = Len(session) + 1
      <4>1. session[i].backend < backends /\ session[i].backend \in Nat
        BY <1>5, <2>1, <2>5, <3>2
      <4>2. session[i].backend = backends
        BY <1>2, <1>5, <2>5, <3>2
      <4>3. QED
        BY <4>1, <4>2
    <3>3. CASE i = Len(session) + 1 /\ j \in DOMAIN session
      <4>1. session[j].backend < backends /\ session[j].backend \in Nat
        BY <1>5, <2>1, <2>5, <3>3
      <4>2. session[j].backend = backends
        BY <1>2, <1>5, <2>5, <3>3
      <4>3. QED
        BY <4>1, <4>2
    <3>4. QED
      BY <2>3, <3>1, <3>2, <3>3
  <2>6. \A i, j \in DOMAIN session' :
           session'[i].scope # Managed /\ session'[j].scope # Managed =>
              (session'[i].backend = session'[j].backend => i = j)
    BY <2>5
  <2>7. backends' \in Nat /\ stage' # "case"
    BY <1>1, <2>1
  <2>8. \A i \in DOMAIN session' :
           session'[i].scope # Managed =>
              session'[i].backend \in Nat /\ session'[i].backend <= backends'
    BY <1>1, <2>4
  <2>9. QED
    BY <2>6, <2>7, <2>8 DEF BackendInv
<1>13. QED
  BY <1>8, <1>10, <1>11, <1>12 DEF GroupsInv

\* Every step of a program keeps the invariant.
LEMMA StepKeepsGroups ==
    ASSUME GroupsInv, [Next]_vars
    PROVE  GroupsInv'
<1>1. CASE Measure \/ RunDiagnosticPass
  <2>1. UNCHANGED <<program, filter, pending, handles, asked, case, backends, session, stage>>
    BY <1>1 DEF Measure, RunDiagnosticPass, runnerVars, closureVars
  <2>2. HandleInv'
    BY <2>1 DEF GroupsInv, HandleInv
  <2>3. QED
    BY <2>1, <2>2, FrameKeepsInv
<1>2. CASE PrintSummary
  <2>1. /\ UNCHANGED <<program, filter, pending, handles, asked, case, backends, session>>
        /\ stage = "register" /\ pending = <<>> /\ stage' = "done"
    BY <1>2 DEF PrintSummary, runnerVars, closureVars
  <2>2. HandleInv'
    BY <2>1 DEF GroupsInv, HandleInv
  <2>3. QED
    BY <2>1, <2>2, FrameKeepsInv
<1>3. CASE UNCHANGED vars
  <2>1. UNCHANGED <<program, filter, pending, handles, asked, case, backends, session, stage>>
    BY <1>3 DEF vars, runnerVars, closureVars
  <2>2. HandleInv'
    BY <2>1 DEF GroupsInv, HandleInv
  <2>3. QED
    BY <2>1, <2>2, FrameKeepsInv
<1>4. QED
  BY <1>1, <1>2, <1>3, LaunchKeepsInv, HandlesKeepInv, CasesKeepInv, ReportKeepsInv
     DEF Next, Terminating

-------------------------------------------------------------------------------
(* Changes and the cells that show them *)

IsFraction(f) == f.over \in Nat /\ f.under \in Nat /\ f.under > 0

\* Two cells of the same row, in a summary and in the one of the exchanged reports
Opposed(here, there) == here \in {"better", "worse"} => here # there

\* A whole number is a fraction.
LEMMA WholeIsFraction ==
    ASSUME NEW value \in Nat
    PROVE  IsFraction(Whole(value)) /\ Whole(value).over = value /\ Whole(value).under = 1
BY DEF IsFraction, Whole, Fraction

\* What safe_percent_change gives of two fractions
LEMMA ChangeIs ==
    ASSUME NEW a, NEW b, IsFraction(a), IsFraction(b)
    PROVE  \/ b.over = 0 /\ Change(a, b) = None
           \/ /\ b.over > 0 /\ Change(a, b) # None
              /\ Change(a, b)[1].over = a.over * b.under - b.over * a.under
              /\ Change(a, b)[1].under = b.over * a.under
              /\ a.over * b.under \in Nat /\ b.over * a.under \in Nat
              /\ b.over * a.under > 0
<1>1. /\ a.over \in Nat /\ a.under \in Nat /\ a.under > 0
      /\ b.over \in Nat /\ b.under \in Nat /\ b.under > 0
  BY DEF IsFraction
<1>2. CASE b.over = 0
  BY <1>2 DEF Change
<1>3. CASE b.over # 0
  <2>1. b.over > 0
    BY <1>1, <1>3
  <2>2. \A m, n \in Nat : m * n \in Nat /\ (m > 0 /\ n > 0 => m * n > 0)
    OBVIOUS
  <2>3. a.over * b.under \in Nat /\ b.over * a.under \in Nat /\ b.over * a.under > 0
    BY <1>1, <2>1, <2>2
  <2>4. Change(a, b) = <<Fraction(a.over * b.under - b.over * a.under, b.over * a.under)>>
    BY <1>3 DEF Change, Some
  <2>5. QED
    BY <2>1, <2>3, <2>4 DEF Fraction, None
<1>4. QED
  BY <1>2, <1>3

\* format_improvement calls nothing better, or worse, in both directions.
LEMMA ShownIsOpposed ==
    ASSUME NEW a, NEW b, IsFraction(a), IsFraction(b), NEW lower \in BOOLEAN
    PROVE  Opposed(Shown(Change(a, b), lower), Shown(Change(b, a), lower))
<1> DEFINE here == Shown(Change(a, b), lower)
           there == Shown(Change(b, a), lower)
<1>1. CASE a.over = 0 \/ b.over = 0
  <2>1. Change(a, b) = None \/ Change(b, a) = None
    BY <1>1, ChangeIs DEF IsFraction
  <2>2. here = "n/a" \/ there = "n/a"
    BY <2>1 DEF Shown
  <2>3. QED
    BY <2>2 DEF Opposed
<1>2. CASE a.over # 0 /\ b.over # 0
  <2> DEFINE x == a.over * b.under
             y == b.over * a.under
  <2>1. /\ Change(a, b) # None /\ Change(a, b)[1].over = x - y /\ Change(a, b)[1].under = y
        /\ Change(b, a) # None /\ Change(b, a)[1].over = y - x /\ Change(b, a)[1].under = x
        /\ x \in Nat /\ x > 0 /\ y \in Nat /\ y > 0
    BY <1>2, ChangeIs
  <2> HIDE DEF x, y
  <2>2. here = IF 100 * Magnitude(x - y) < y THEN "~0%"
               ELSE IF (x - y > 0) # lower THEN "better" ELSE "worse"
    BY <2>1 DEF Shown
  <2>3. there = IF 100 * Magnitude(y - x) < x THEN "~0%"
                ELSE IF (y - x > 0) # lower THEN "better" ELSE "worse"
    BY <2>1 DEF Shown
  <2>4. ASSUME here # "~0%", there # "~0%"
        PROVE  (x - y > 0) <=> ~(y - x > 0)
    <3>1. ~(100 * Magnitude(x - y) < y)
      BY <2>2, <2>4
    <3>2. x # y
      BY <2>1, <3>1 DEF Magnitude, Distance
    <3>3. QED
      BY <2>1, <3>2
  <2> HIDE DEF here, there
  <2>5. CASE here = "~0%" \/ there = "~0%"
    BY <2>5 DEF Opposed, here, there
  <2>6. CASE here # "~0%" /\ there # "~0%"
    <3>1. /\ here = IF (x - y > 0) # lower THEN "better" ELSE "worse"
          /\ there = IF (y - x > 0) # lower THEN "better" ELSE "worse"
      BY <2>2, <2>3, <2>6
    <3>2. (x - y > 0) \in BOOLEAN /\ (y - x > 0) \in BOOLEAN
      BY <2>1
    <3>3. (x - y > 0) <=> ~(y - x > 0)
      BY <2>4, <2>6
    <3>4. QED
      BY <3>1, <3>2, <3>3 DEF Opposed, here, there
  <2>7. QED
    BY <2>5, <2>6 DEF here, there
<1>3. QED
  BY <1>1, <1>2

\* Neither does the comparison of two coefficients of variation.
LEMMA VariationIsOpposed ==
    ASSUME NEW result, NEW other,
           IsFraction(SquaredVariation(result)), IsFraction(SquaredVariation(other))
    PROVE  Opposed(ShownVariation(result, other), ShownVariation(other, result))
<1> DEFINE a == SquaredVariation(result)
           b == SquaredVariation(other)
           here == ShownVariation(result, other)
           there == ShownVariation(other, result)
<1>1. IsFraction(a) /\ IsFraction(b)
  OBVIOUS
<1>2. /\ here = LET change == Change(a, b)
                IN  IF change = None THEN "n/a"
                    ELSE IF 10000 * change[1].over <= -199 * change[1].under THEN "better"
                    ELSE IF 10000 * change[1].over >= 201 * change[1].under THEN "worse"
                    ELSE "~0%"
      /\ there = LET change == Change(b, a)
                 IN  IF change = None THEN "n/a"
                     ELSE IF 10000 * change[1].over <= -199 * change[1].under THEN "better"
                     ELSE IF 10000 * change[1].over >= 201 * change[1].under THEN "worse"
                     ELSE "~0%"
  BY DEF ShownVariation
<1> HIDE DEF a, b, here, there
<1>3. CASE a.over = 0 \/ b.over = 0
  <2>1. Change(a, b) = None \/ Change(b, a) = None
    BY <1>1, <1>3, ChangeIs DEF IsFraction
  <2>2. here = "n/a" \/ there = "n/a"
    BY <1>2, <2>1
  <2>3. QED
    BY <2>2 DEF Opposed, here, there
<1>4. CASE a.over # 0 /\ b.over # 0
  <2> DEFINE x == a.over * b.under
             y == b.over * a.under
  <2>1. /\ Change(a, b) # None /\ Change(a, b)[1].over = x - y /\ Change(a, b)[1].under = y
        /\ Change(b, a) # None /\ Change(b, a)[1].over = y - x /\ Change(b, a)[1].under = x
        /\ x \in Nat /\ x > 0 /\ y \in Nat /\ y > 0
    BY <1>1, <1>4, ChangeIs
  <2> HIDE DEF x, y
  <2>2. /\ here = IF 10000 * (x - y) <= -199 * y THEN "better"
                  ELSE IF 10000 * (x - y) >= 201 * y THEN "worse" ELSE "~0%"
        /\ there = IF 10000 * (y - x) <= -199 * x THEN "better"
                   ELSE IF 10000 * (y - x) >= 201 * x THEN "worse" ELSE "~0%"
    BY <1>2, <2>1
  <2>3. ~(10000 * (x - y) <= -199 * y /\ 10000 * (y - x) <= -199 * x)
    BY <2>1
  <2>4. ~(10000 * (x - y) >= 201 * y /\ 10000 * (y - x) >= 201 * x)
    BY <2>1
  <2>5. QED
    BY <2>2, <2>3, <2>4 DEF Opposed, here, there
<1>5. QED
  BY <1>3, <1>4

\* What is recomputed of the numbers of a case is not negative.
LEMMA StatsAreCompared ==
    ASSUME NEW result, IsStats(result.stats)
    PROVE  /\ IsFraction(MeanThroughput(result)) /\ IsFraction(SquaredVariation(result))
           /\ MedianLatency(result) \in Nat /\ P95Latency(result) \in Nat
           /\ MadLatency(result) \in Nat
<1> DEFINE measured == result.stats
           rates == measured.sample_throughput_per_sec
           latency == measured.sample_latency_ns_per_op
<1>1. /\ measured.throughput_per_sec \in Nat /\ rates \in Seq(Nat) /\ latency \in Seq(Nat)
      /\ measured.median_ns_per_op \in Nat /\ measured.p95_ns_per_op \in Nat
      /\ measured.mad_ns_per_op \in Nat
      /\ measured.variation.over \in Nat /\ measured.variation.under \in Nat
  BY DEF IsStats
<1>2. IsFraction(MeanThroughput(result))
  <2>1. CASE rates = <<>>
    BY <1>1, <2>1, WholeIsFraction DEF MeanThroughput
  <2>2. CASE rates # <<>>
    <3>1. Len(rates) \in Nat /\ Len(rates) > 0 /\ Total(rates) \in Nat
      <4>1. rates \in Seq(Nat) /\ Total(rates) \in Nat
        BY <1>1, TotalIsNatural
      <4> HIDE DEF rates
      <4>2. QED
        BY <2>2, <4>1
    <3>2. MeanThroughput(result) = Fraction(Total(rates), Len(rates))
      BY <2>2 DEF MeanThroughput
    <3>3. QED
      BY <3>1, <3>2 DEF IsFraction, Fraction
  <2>3. QED
    BY <2>1, <2>2
<1>3. IsFraction(SquaredVariation(result))
  <2>1. CASE measured.variation.under = 0
    BY <2>1, WholeIsFraction DEF SquaredVariation
  <2>2. CASE measured.variation.under # 0
    <3>1. SquaredVariation(result)
            = Fraction(measured.variation.over, measured.variation.under)
      BY <2>2 DEF SquaredVariation
    <3>2. QED
      BY <1>1, <2>2, <3>1 DEF IsFraction, Fraction
  <2>3. QED
    BY <2>1, <2>2
<1>4. MedianLatency(result) \in Nat
  BY <1>1, QuantilesAreNatural DEF MedianLatency
<1>5. P95Latency(result) \in Nat
  BY <1>1, QuantilesAreNatural DEF P95Latency
<1>6. MadLatency(result) \in Nat
  BY <1>1, <1>4, QuantilesAreNatural DEF MadLatency
<1>7. QED
  BY <1>2, <1>3, <1>4, <1>5, <1>6

\* No cell of the per-stat table says the same in both directions.
LEMMA PerStatIsOpposed ==
    ASSUME NEW result, NEW other, IsStats(result.stats), IsStats(other.stats)
    PROVE  \A cell \in DOMAIN PerStat(result, other) :
              Opposed(PerStat(result, other)[cell], PerStat(other, result)[cell])
<1> DEFINE here == PerStat(result, other)
           there == PerStat(other, result)
           Cell(a, b) == Shown(Change(Whole(a), Whole(b)), TRUE)
<1>1. \A a, b \in Nat : Opposed(Cell(a, b), Cell(b, a))
  BY WholeIsFraction, ShownIsOpposed
<1>2. /\ DOMAIN here = {"throughput", "median", "p95", "mad", "cv"}
      /\ here.throughput = Shown(Change(MeanThroughput(result), MeanThroughput(other)), FALSE)
      /\ here.median = Cell(MedianLatency(result), MedianLatency(other))
      /\ here.p95 = Cell(P95Latency(result), P95Latency(other))
      /\ here.mad = Cell(MadLatency(result), MadLatency(other))
      /\ here.cv = ShownVariation(result, other)
  BY DEF PerStat
<1>3. /\ there.throughput = Shown(Change(MeanThroughput(other), MeanThroughput(result)), FALSE)
      /\ there.median = Cell(MedianLatency(other), MedianLatency(result))
      /\ there.p95 = Cell(P95Latency(other), P95Latency(result))
      /\ there.mad = Cell(MadLatency(other), MadLatency(result))
      /\ there.cv = ShownVariation(other, result)
  BY DEF PerStat
<1> HIDE DEF here, there, Cell
<1>4. Opposed(here.throughput, there.throughput)
  BY <1>2, <1>3, StatsAreCompared, ShownIsOpposed
<1>5. /\ Opposed(here.median, there.median) /\ Opposed(here.p95, there.p95)
      /\ Opposed(here.mad, there.mad)
  BY <1>1, <1>2, <1>3, StatsAreCompared
<1>6. Opposed(here.cv, there.cv)
  BY <1>2, <1>3, StatsAreCompared, VariationIsOpposed
<1>7. \A cell \in DOMAIN here : Opposed(here[cell], there[cell])
  BY <1>2, <1>4, <1>5, <1>6
<1>8. QED
  BY <1>7 DEF here, there

-------------------------------------------------------------------------------
(* The metrics of the PMU table *)

\* A metric of the table is a number or missing.
LEMMA PmuMetrics ==
    ASSUME NEW measured, IsStats(measured)
    PROVE  \A metric \in {pmu_ipc(measured), pmu_branch_miss_metric(measured),
                          pmu_cache_metric(measured), pmu_frontend_stall_metric(measured),
                          pmu_backend_stall_metric(measured)} :
              metric = None \/ metric[1] \in Nat
<1>1. /\ measured.ipc \in Nat /\ measured.branch_miss_rate \in Nat
      /\ measured.cache_miss_percent \in Nat /\ measured.frontend_stall_percent \in Nat
      /\ measured.backend_stall_percent \in Nat
      /\ measured.per_op["cache_misses"] \in Nat
  BY DEF IsStats, Counters
<1>2. \A counters : \A value \in Nat :
         Collected(measured, counters, value) = None
           \/ Collected(measured, counters, value)[1] \in Nat
  BY DEF Collected, Some, None
<1>3. pmu_ipc(measured) = None \/ pmu_ipc(measured)[1] \in Nat
  BY <1>1, <1>2 DEF pmu_ipc
<1>4. pmu_branch_miss_metric(measured) = None \/ pmu_branch_miss_metric(measured)[1] \in Nat
  BY <1>1, <1>2 DEF pmu_branch_miss_metric
<1>5. pmu_cache_metric(measured) = None \/ pmu_cache_metric(measured)[1] \in Nat
  BY <1>1, <1>2 DEF pmu_cache_metric, Some
<1>6. pmu_frontend_stall_metric(measured) = None
        \/ pmu_frontend_stall_metric(measured)[1] \in Nat
  BY <1>1, <1>2 DEF pmu_frontend_stall_metric
<1>7. pmu_backend_stall_metric(measured) = None
        \/ pmu_backend_stall_metric(measured)[1] \in Nat
  BY <1>1, <1>2 DEF pmu_backend_stall_metric
<1>8. QED
  BY <1>3, <1>4, <1>5, <1>6, <1>7

\* No cell of the PMU table says the same in both directions.
LEMMA PmuIsOpposed ==
    ASSUME NEW result, NEW other, IsStats(result.stats), IsStats(other.stats)
    PROVE  \A cell \in DOMAIN PmuComparison(result, other) :
              Opposed(PmuComparison(result, other)[cell], PmuComparison(other, result)[cell])
<1> DEFINE here == PmuComparison(result, other)
           there == PmuComparison(other, result)
           Cell(m, p, lower) ==
              IF m = None \/ p = None THEN "n/a"
              ELSE Shown(Change(Whole(m[1]), Whole(p[1])), lower)
<1>1. ASSUME NEW m, NEW p, m = None \/ m[1] \in Nat, p = None \/ p[1] \in Nat,
             NEW lower \in BOOLEAN
      PROVE  Opposed(Cell(m, p, lower), Cell(p, m, lower))
  <2>1. CASE m = None \/ p = None
    BY <2>1 DEF Opposed
  <2>2. CASE m # None /\ p # None
    <3>1. IsFraction(Whole(m[1])) /\ IsFraction(Whole(p[1]))
      BY <1>1, <2>2, WholeIsFraction
    <3>2. QED
      BY <2>2, <3>1, ShownIsOpposed
  <2>3. QED
    BY <2>1, <2>2
<1>2. /\ DOMAIN here = {"ipc", "branch", "cache", "frontend", "backend"}
      /\ here.ipc = Cell(pmu_ipc(result.stats), pmu_ipc(other.stats), FALSE)
      /\ here.branch = Cell(pmu_branch_miss_metric(result.stats),
                            pmu_branch_miss_metric(other.stats), TRUE)
      /\ here.cache = Cell(pmu_cache_metric(result.stats), pmu_cache_metric(other.stats), TRUE)
      /\ here.frontend = Cell(pmu_frontend_stall_metric(result.stats),
                              pmu_frontend_stall_metric(other.stats), TRUE)
      /\ here.backend = Cell(pmu_backend_stall_metric(result.stats),
                             pmu_backend_stall_metric(other.stats), TRUE)
  BY DEF PmuComparison
<1>3. /\ there.ipc = Cell(pmu_ipc(other.stats), pmu_ipc(result.stats), FALSE)
      /\ there.branch = Cell(pmu_branch_miss_metric(other.stats),
                             pmu_branch_miss_metric(result.stats), TRUE)
      /\ there.cache = Cell(pmu_cache_metric(other.stats), pmu_cache_metric(result.stats), TRUE)
      /\ there.frontend = Cell(pmu_frontend_stall_metric(other.stats),
                               pmu_frontend_stall_metric(result.stats), TRUE)
      /\ there.backend = Cell(pmu_backend_stall_metric(other.stats),
                              pmu_backend_stall_metric(result.stats), TRUE)
  BY DEF PmuComparison
<1> HIDE DEF here, there, Cell
<1>4. Opposed(here.ipc, there.ipc) /\ Opposed(here.branch, there.branch)
  BY <1>1, <1>2, <1>3, PmuMetrics
<1>5. /\ Opposed(here.cache, there.cache) /\ Opposed(here.frontend, there.frontend)
      /\ Opposed(here.backend, there.backend)
  BY <1>1, <1>2, <1>3, PmuMetrics
<1>6. \A cell \in DOMAIN here : Opposed(here[cell], there[cell])
  BY <1>2, <1>4, <1>5
<1>7. QED
  BY <1>6 DEF here, there

\* A bottleneck is found only where the table has the metrics that it names.
LEMMA DiagnosisHasMetrics ==
    ASSUME NEW measured, NEW suppressed
    PROVE  LET found == diagnose_stats(measured, suppressed)
           IN  /\ "memory" \in found => /\ pmu_backend_stall_metric(measured) # None
                                        /\ pmu_cache_metric(measured) # None
               /\ "branch" \in found => /\ pmu_frontend_stall_metric(measured) # None
                                        /\ pmu_branch_miss_metric(measured) # None
               /\ "icache" \in found => pmu_frontend_stall_metric(measured) # None
               /\ "low_ipc" \in found => pmu_ipc(measured) # None
<1> DEFINE found == diagnose_stats(measured, suppressed)
           Has(counters) == counters \subseteq measured.has
<1>1. "memory" \in found => Has({"cycles", "stalled_cycles_backend"}) /\ Has({"cache_misses"})
  BY DEF diagnose_stats
<1>2. "branch" \in found =>
         Has({"cycles", "stalled_cycles_frontend"}) /\ Has({"branches", "branch_misses"})
  BY DEF diagnose_stats
<1>3. "icache" \in found => Has({"cycles", "stalled_cycles_frontend"})
  BY ZenonT(60) DEF diagnose_stats
<1>4. "low_ipc" \in found => Has({"cycles", "instructions"}) /\ measured.ipc > 0
  BY DEF diagnose_stats
<1> HIDE DEF found
<1>5. \A value : Some(value) # None
  BY DEF Some, None
<1>6. /\ Has({"cycles", "stalled_cycles_backend"}) => pmu_backend_stall_metric(measured) # None
      /\ Has({"cycles", "stalled_cycles_frontend"}) => pmu_frontend_stall_metric(measured) # None
      /\ Has({"branches", "branch_misses"}) => pmu_branch_miss_metric(measured) # None
  BY <1>5 DEF pmu_backend_stall_metric, pmu_frontend_stall_metric, pmu_branch_miss_metric,
              Collected
<1>7. Has({"cache_misses"}) => pmu_cache_metric(measured) # None
  BY <1>5 DEF pmu_cache_metric, Collected
<1>8. Has({"cycles", "instructions"}) /\ measured.ipc > 0 => pmu_ipc(measured) # None
  BY <1>5 DEF pmu_ipc, Collected
<1>9. QED
  BY <1>1, <1>2, <1>3, <1>4, <1>6, <1>7, <1>8 DEF found

-------------------------------------------------------------------------------
(* The rate of a case *)

\* A rate that fell rises when the reports are exchanged, unless it fell to zero;
\* one that rose does not; and a note goes the way in which the rate moved.
LEMMA RatesMove ==
    ASSUME NEW result, NEW other,
           result.stats.throughput_per_sec \in Nat, other.stats.throughput_per_sec \in Nat
    PROVE  LET change == ThroughputChange(result, other)
               back   == ThroughputChange(other, result)
           IN  /\ Fell(change, 1) /\ result.stats.throughput_per_sec > 0 => Rose(back, 1)
               /\ Rose(change, 1) => ~Rose(back, 1)
               /\ \A note \in comparative_diagnosis(result, other) :
                     note[1] # "stability" =>
                        IF note[2] = "worse" THEN Fell(change, 1) ELSE Rose(change, 1)
<1> DEFINE x == result.stats.throughput_per_sec
           y == other.stats.throughput_per_sec
           change == ThroughputChange(result, other)
           back == ThroughputChange(other, result)
           alike == result.stats.throughput.unit = other.stats.throughput.unit
<1>1. x \in Nat /\ y \in Nat
  OBVIOUS
<1>2. change = None \/ (alike /\ y > 0 /\ change # None
                          /\ change[1].over = x - y /\ change[1].under = y)
  <2>1. CASE ~alike
    BY <2>1 DEF ThroughputChange
  <2>2. CASE alike
    <3>1. change = Change(Whole(x), Whole(y))
      BY <2>2 DEF ThroughputChange
    <3>2. /\ Whole(x).over = x /\ Whole(x).under = 1 /\ Whole(y).over = y /\ Whole(y).under = 1
          /\ IsFraction(Whole(x)) /\ IsFraction(Whole(y))
      BY WholeIsFraction
    <3>3. x * 1 - y * 1 = x - y /\ y * 1 = y
      BY <1>1
    <3>4. QED
      BY <2>2, <3>1, <3>2, <3>3, ChangeIs
  <2>3. QED
    BY <2>1, <2>2
<1>3. \/ back = None /\ (~alike \/ x = 0)
      \/ x > 0 /\ back # None /\ back[1].over = y - x /\ back[1].under = x
  <2>1. CASE ~alike
    BY <2>1 DEF ThroughputChange
  <2>2. CASE alike
    <3>1. back = Change(Whole(y), Whole(x))
      BY <2>2 DEF ThroughputChange
    <3>2. /\ Whole(x).over = x /\ Whole(x).under = 1 /\ Whole(y).over = y /\ Whole(y).under = 1
          /\ IsFraction(Whole(x)) /\ IsFraction(Whole(y))
      BY WholeIsFraction
    <3>3. y * 1 - x * 1 = y - x /\ x * 1 = x
      BY <1>1
    <3>4. QED
      BY <2>2, <3>1, <3>2, <3>3, ChangeIs
  <2>3. QED
    BY <2>1, <2>2
<1> DEFINE Falls(percent) == 100 * (x - y) < -percent * y
           Rises(percent) == 100 * (x - y) > percent * y
<1>4. \A percent \in {0, 1} :
         Fell(change, percent) <=> change # None /\ Falls(percent)
  BY <1>2 DEF Fell
<1>5. \A percent \in {0, 1} :
         Rose(change, percent) <=> change # None /\ Rises(percent)
  BY <1>2 DEF Rose
<1>6. Rose(back, 1) <=> back # None /\ 100 * (y - x) > 1 * x
  BY <1>3 DEF Rose
<1>7. Moved(change, 2) => change # None /\ (100 * (x - y) >= 2 * y \/ 100 * (y - x) >= 2 * y)
  BY <1>1, <1>2 DEF Moved, Magnitude, Distance
<1> HIDE DEF x, y, change, back, alike
<1>8. Fell(change, 1) /\ x > 0 => Rose(back, 1)
  BY <1>1, <1>2, <1>3, <1>4, <1>6
<1>9. Rose(change, 1) => ~Rose(back, 1)
  BY <1>1, <1>5, <1>6
<1>10. ASSUME NEW note \in comparative_diagnosis(result, other), note[1] # "stability"
       PROVE  IF note[2] = "worse" THEN Fell(change, 1) ELSE Rose(change, 1)
  <2> DEFINE direction == IF change = None \/ ~Moved(change, 2) THEN "none"
                          ELSE IF Fell(change, 0) THEN "worse" ELSE "better"
             said == IF direction = "none" \/ SuppressesCpuNotes(result) THEN {}
                     ELSE CpuNotes(result, other)
             variation == Change(SquaredVariation(result), SquaredVariation(other))
  <2>1. comparative_diagnosis(result, other)
          = {<<suggested, direction>> : suggested \in said}
             \cup (IF variation # None /\ 25 * variation[1].over >= 11 * variation[1].under
                   THEN {<<"stability", "worse">>} ELSE {})
             \cup (IF variation # None /\ 25 * variation[1].over <= -9 * variation[1].under
                   THEN {<<"stability", "better">>} ELSE {})
    BY DEF comparative_diagnosis, change
  <2> HIDE DEF direction, said, variation
  <2>2. PICK suggested \in said : note = <<suggested, direction>>
    BY <1>10, <2>1
  <2>3. direction # "none" /\ note[2] = direction
    BY <2>2 DEF said
  <2>4. change # None /\ Moved(change, 2)
    BY <2>3 DEF direction
  <2>5. direction = IF Fell(change, 0) THEN "worse" ELSE "better"
    BY <2>4 DEF direction
  <2>6. y > 0
    BY <1>2, <2>4
  <2>7. CASE Fell(change, 0)
    <3>1. Falls(1)
      BY <1>1, <1>4, <1>7, <2>4, <2>6, <2>7
    <3>2. QED
      BY <1>4, <2>3, <2>4, <2>5, <2>7, <3>1
  <2>8. CASE ~Fell(change, 0)
    <3>1. Rises(1)
      BY <1>1, <1>4, <1>7, <2>4, <2>6, <2>8
    <3>2. QED
      BY <1>5, <2>3, <2>4, <2>5, <2>8, <3>1
  <2>9. QED
    BY <2>7, <2>8
<1>11. QED
  BY <1>8, <1>9, <1>10 DEF x, change, back

-------------------------------------------------------------------------------
(* The fastest and the slowest of a group *)

\* Of the natural numbers at some positions one is the greatest.
LEMMA GreatestValue ==
    ASSUME NEW n \in Nat, NEW f \in [1..n -> Nat], NEW S, S \subseteq 1..n, S # {}
    PROVE  \E m \in S : \A i \in S : f[i] <= f[m]
<1> DEFINE Good == {k \in 0..n : \E b \in Nat : \A i \in 1..k : f[i] <= b}
<1>1. 0 \in Good
  <2>1. \A i \in 1..0 : f[i] <= 0
    OBVIOUS
  <2>2. QED
    BY <2>1
<1>2. ASSUME NEW k \in 1..n, k - 1 \in Good PROVE k \in Good
  <2>1. PICK b \in Nat : \A i \in 1..(k - 1) : f[i] <= b
    BY <1>2
  <2>2. b + f[k] \in Nat /\ \A i \in 1..k : f[i] <= b + f[k]
    <3>1. f[k] \in Nat
      OBVIOUS
    <3>2. ASSUME NEW i \in 1..k PROVE f[i] <= b + f[k]
      <4>1. f[i] \in Nat /\ (i # k => i \in 1..(k - 1))
        OBVIOUS
      <4>2. QED
        BY <2>1, <3>1, <4>1
    <3>3. QED
      BY <3>1, <3>2
  <2>3. k \in 0..n
    OBVIOUS
  <2>4. QED
    BY <2>2, <2>3
<1> HIDE DEF Good
<1>3. \A k \in 0..n : k \in Good
  BY <1>1, <1>2, UpTo
<1>4. PICK b \in Nat : \A i \in 1..n : f[i] <= b
  <2>1. n \in Good
    BY <1>3
  <2>2. QED
    BY <2>1 DEF Good
<1> DEFINE Bounds == {c \in Nat : \A i \in S : f[i] <= c}
<1>5. b \in Bounds /\ Bounds \subseteq Nat
  BY <1>4
<1>6. PICK c \in Bounds : \A d \in Bounds : c <= d
  BY <1>5, LeastNumber
<1>7. ASSUME \A m \in S : f[m] # c PROVE FALSE
  <2>1. \A m \in S : f[m] \in Nat /\ f[m] < c
    BY <1>6, <1>7
  <2>2. PICK m \in S : TRUE
    OBVIOUS
  <2>3. c - 1 \in Nat /\ \A i \in S : f[i] <= c - 1
    BY <2>1, <2>2
  <2>4. QED
    BY <1>6, <2>3
<1>8. QED
  BY <1>6, <1>7

\* ... and one the least.
LEMMA LeastValue ==
    ASSUME NEW n \in Nat, NEW f \in [1..n -> Nat], NEW S, S \subseteq 1..n, S # {}
    PROVE  \E m \in S : \A i \in S : f[m] <= f[i]
<1> DEFINE values == {f[i] : i \in S}
<1>1. values \subseteq Nat /\ values # {}
  OBVIOUS
<1>2. PICK v \in values : \A w \in values : v <= w
  BY <1>1, LeastNumber
<1>3. QED
  BY <1>2

\* group_throughput_insights names two results of the group, which bound the rates
\* of all the others.
LEMMA InsightsBound ==
    ASSUME NEW results, IsSequence(results),
           \A i \in DOMAIN results : Rate(results, i) \in Nat,
           NEW g \in DOMAIN group_throughput_insights(results)
    PROVE  LET insight == group_throughput_insights(results)[g]
           IN  /\ insight.fastest # insight.slowest
               /\ \A i \in {insight.fastest, insight.slowest} :
                     i \in DOMAIN results /\ results[i].group = g
               /\ \A i \in DOMAIN results : results[i].group = g =>
                     /\ Rate(results, insight.slowest) <= Rate(results, i)
                     /\ Rate(results, i) <= Rate(results, insight.fastest)
<1> DEFINE n == Len(results)
           f == [i \in 1..n |-> Rate(results, i)]
           Of == {i \in DOMAIN results : results[i].group = g}
           top == {i \in Of : \A j \in Of : Rate(results, i) >= Rate(results, j)}
           bottom == {i \in Of : \A j \in Of : Rate(results, i) <= Rate(results, j)}
           insight == group_throughput_insights(results)[g]
<1>1. n \in Nat /\ DOMAIN results = 1..n
  BY DEF IsSequence
<1>2. Cardinality(Of) > 1 /\ insight = [fastest |-> Max(top), slowest |-> Min(bottom)]
  BY DEF group_throughput_insights
<1> HIDE DEF insight
<1>3. Of \subseteq 1..n /\ top \subseteq Of /\ bottom \subseteq Of
  BY <1>1
<1>4. Of # {}
  BY <1>2, FS_EmptySet
<1>5. f \in [1..n -> Nat] /\ \A i \in Of : f[i] = Rate(results, i) /\ f[i] \in Nat
  BY <1>1
<1> HIDE DEF f, n
<1>6. top # {}
  <2>1. PICK m \in Of : \A i \in Of : f[i] <= f[m]
    BY <1>1, <1>3, <1>4, <1>5, GreatestValue
  <2>2. m \in top
    BY <1>5, <2>1
  <2>3. QED
    BY <2>2
<1>7. bottom # {}
  <2>1. PICK m \in Of : \A i \in Of : f[m] <= f[i]
    BY <1>1, <1>3, <1>4, <1>5, LeastValue
  <2>2. m \in bottom
    BY <1>5, <2>1
  <2>3. QED
    BY <2>2
<1>8. Max(top) \in top /\ \A i \in top : Max(top) >= i
  BY <1>1, <1>3, <1>6, GreatestPosition
<1>9. Min(bottom) \in bottom /\ \A i \in bottom : Min(bottom) <= i
  <2>1. bottom \subseteq Nat
    BY <1>3
  <2>2. QED
    BY <1>7, <2>1, LeastIndex
<1>10. insight.fastest = Max(top) /\ insight.slowest = Min(bottom)
  BY <1>2
<1>11. ASSUME Max(top) = Min(bottom) PROVE FALSE
  <2> DEFINE m == Max(top)
  <2>1. m \in top /\ m \in bottom /\ m \in Of
    BY <1>3, <1>8, <1>9, <1>11
  <2>2. ASSUME NEW i \in Of PROVE i = m
    <3>1. f[i] = f[m]
      BY <1>5, <2>1
    <3>2. i \in top /\ i \in bottom
      BY <1>5, <2>1, <3>1
    <3>3. m >= i /\ m <= i
      BY <1>8, <1>9, <1>11, <3>2
    <3>4. QED
      BY <1>3, <2>1, <3>3
  <2> HIDE DEF m
  <2>3. Of = {m}
    BY <2>1, <2>2
  <2>4. Cardinality(Of) = 1
    BY <2>3, FS_Singleton
  <2>5. QED
    BY <1>2, <2>4
<1>12. \A i \in Of : /\ Rate(results, Min(bottom)) <= Rate(results, i)
                    /\ Rate(results, i) <= Rate(results, Max(top))
  BY <1>5, <1>8, <1>9
<1>13. Max(top) \in Of /\ Min(bottom) \in Of
  BY <1>3, <1>8, <1>9
<1>14. QED
  BY <1>10, <1>11, <1>12, <1>13 DEF insight

-------------------------------------------------------------------------------
(* A summary, pair by pair *)

\* The identities of a list of results are a list.
LEMMA IdentitiesAreListed ==
    ASSUME NEW results, IsSequence(results)
    PROVE  /\ \E K : ResultIdentities(results) \in Seq(K)
           /\ DOMAIN ResultIdentities(results) = DOMAIN results
<1> DEFINE n == Len(results)
           K == {ResultIdentity(results[i]) : i \in 1..n}
<1>1. n \in Nat /\ DOMAIN results = 1..n
  BY DEF IsSequence
<1>2. ResultIdentities(results) = [i \in 1..n |-> ResultIdentity(results[i])]
  BY <1>1 DEF ResultIdentities
<1> HIDE DEF n
<1>3. ResultIdentities(results) \in [1..n -> K]
  BY <1>2
<1> HIDE DEF K
<1>4. ResultIdentities(results) \in Seq(K)
  BY <1>1, <1>3
<1>5. QED
  BY <1>1, <1>2, <1>4

\* What the summary says of a result that has a counterpart
LEMMA SummaryOfPair ==
    ASSUME NEW results, IsSequence(results), NEW earlier, IsSequence(earlier),
           NEW i, NEW j,
           <<i, j>> \in Range(pair_results_one_to_one(results, earlier))
    PROVE  LET said   == print_summary_with_baseline(results, earlier)
               change == ThroughputChange(results[i], earlier[j])
           IN  /\ i \in DOMAIN results /\ j \in DOMAIN earlier
               /\ said.per_stat[i] = PerStat(results[i], earlier[j])
               /\ said.pmu[i] = PmuComparison(results[i], earlier[j])
               /\ said.notes[i] = comparative_diagnosis(results[i], earlier[j])
               /\ i \in said.improved <=> Rose(change, 1)
               /\ i \in said.regressed <=> Fell(change, 1)
<1> DEFINE keys == ResultIdentities(results)
           others == ResultIdentities(earlier)
           pairs == OneToOne(keys, others)
           paired == {pairs[n][1] : n \in DOMAIN pairs}
           Before(k) == earlier[pairs[CHOOSE n \in DOMAIN pairs : pairs[n][1] = k][2]]
<1>1. /\ \E K : keys \in Seq(K)
      /\ \E O : others \in Seq(O)
      /\ DOMAIN keys = DOMAIN results /\ DOMAIN others = DOMAIN earlier
  BY IdentitiesAreListed
<1>2. pairs = pair_results_one_to_one(results, earlier)
  BY DEF pair_results_one_to_one
<1> HIDE DEF keys, others
<1>3. pairs \in Seq(Nat \X Nat) /\ Pairing(Range(pairs), keys, others)
  BY <1>1, OneToOnePairs
<1> HIDE DEF pairs
<1>4. <<i, j>> \in Range(pairs)
  BY <1>2
<1>5. i \in DOMAIN results /\ j \in DOMAIN earlier
  BY <1>1, <1>3, <1>4 DEF Pairing
<1>6. PICK m \in DOMAIN pairs : pairs[m] = <<i, j>>
  BY <1>4 DEF Range
<1>7. i \in paired
  BY <1>6
<1>8. Before(i) = earlier[j]
  <2> DEFINE c == CHOOSE n \in DOMAIN pairs : pairs[n][1] = i
  <2>1. c \in DOMAIN pairs /\ pairs[c][1] = i
    BY <1>6
  <2> HIDE DEF c
  <2>2. pairs[c] \in Nat \X Nat
    BY <1>3, <2>1
  <2>3. pairs[c] = <<i, pairs[c][2]>>
    BY <2>1, <2>2
  <2>4. <<i, pairs[c][2]>> \in Range(pairs)
    BY <2>1, <2>3 DEF Range
  <2>5. pairs[c][2] = j
    BY <1>3, <1>4, <2>4 DEF Pairing
  <2>6. QED
    BY <2>5 DEF c
<1> DEFINE changes == [k \in paired |-> ThroughputChange(results[k], Before(k))]
           said == print_summary_with_baseline(results, earlier)
<1>9. /\ said.per_stat = [k \in paired |-> PerStat(results[k], Before(k))]
      /\ said.pmu = [k \in paired |-> PmuComparison(results[k], Before(k))]
      /\ said.notes = [k \in paired |-> comparative_diagnosis(results[k], Before(k))]
      /\ said.improved = {k \in paired : Rose(changes[k], 1)}
      /\ said.regressed = {k \in paired : Fell(changes[k], 1)}
  BY <1>2 DEF print_summary_with_baseline
<1> HIDE DEF paired, Before, said
<1>10. changes[i] = ThroughputChange(results[i], earlier[j])
  BY <1>7, <1>8
<1>11. QED
  BY <1>5, <1>7, <1>8, <1>9, <1>10 DEF said

\* The pairs of the exchanged reports are the same pairs.
LEMMA SummaryPairsReverse ==
    ASSUME NEW results, IsSequence(results), NEW earlier, IsSequence(earlier), NEW i, NEW j,
           <<i, j>> \in Range(pair_results_one_to_one(results, earlier))
    PROVE  <<j, i>> \in Range(pair_results_one_to_one(earlier, results))
<1> DEFINE keys == ResultIdentities(results)
           others == ResultIdentities(earlier)
<1>1. (\E K : keys \in Seq(K)) /\ (\E O : others \in Seq(O))
  BY IdentitiesAreListed
<1> HIDE DEF keys, others
<1>2. Range(OneToOne(others, keys)) = Transposed(Range(OneToOne(keys, others)))
  BY <1>1, PairsReverse
<1>3. <<i, j>> \in Range(OneToOne(keys, others))
  BY DEF pair_results_one_to_one, keys, others
<1>4. <<j, i>> \in Transposed(Range(OneToOne(keys, others)))
  <2>1. <<j, i>> = <<<<i, j>>[2], <<i, j>>[1]>>
    OBVIOUS
  <2>2. QED
    BY <1>3, <2>1 DEF Transposed
<1>5. QED
  BY <1>2, <1>4 DEF pair_results_one_to_one, keys, others

-------------------------------------------------------------------------------
(* What a case measures *)

\* A division of natural numbers
LEMMA QuotientIsNatural ==
    ASSUME NEW a \in Nat, NEW b \in Nat, b > 0
    PROVE  a \div b \in Nat
OBVIOUS

LEMMA RatioIsNatural ==
    ASSUME NEW a \in Nat, NEW b \in Nat
    PROVE  Ratio(a, b) \in Nat
<1>1. Scale \in Nat
  BY StatisticsAssumption
<1>2. a * Scale \in Nat
  BY <1>1
<1>3. CASE b > 0
  BY <1>2, <1>3, QuotientIsNatural DEF Ratio
<1>4. CASE ~(b > 0)
  BY <1>4 DEF Ratio
<1>5. QED
  BY <1>3, <1>4

\* What Results::add gives of two samples is one.
LEMMA AddedIsSample ==
    ASSUME NEW results, NEW sample, IsSample(results), IsSample(sample)
    PROVE  IsSample(Added(results, sample))
<1> DEFINE sum == Added(results, sample)
<1>1. \A a, b \in Nat : a + b \in Nat
  OBVIOUS
<1>2. \A c : Reading(results.counters, c) \in Nat /\ Reading(sample.counters, c) \in Nat
  BY DEF Reading, IsSample
<1>3. /\ results.iterations \in Nat /\ sample.iterations \in Nat
      /\ results.duration \in Nat /\ sample.duration \in Nat
      /\ DOMAIN results.counters \subseteq Counters /\ DOMAIN sample.counters \subseteq Counters
  BY DEF IsSample
<1>4. /\ sum.iterations = results.iterations + sample.iterations
      /\ sum.duration = results.duration + sample.duration
      /\ sum.counters = [c \in DOMAIN results.counters \cup DOMAIN sample.counters |->
                           Reading(results.counters, c) + Reading(sample.counters, c)]
  BY DEF Added
<1> HIDE DEF sum
<1>5. sum.iterations \in Nat /\ sum.duration \in Nat
  BY <1>1, <1>3, <1>4
<1>6. DOMAIN sum.counters \subseteq Counters
  BY <1>3, <1>4
<1>7. \A c \in DOMAIN sum.counters : sum.counters[c] \in Nat
  BY <1>1, <1>2, <1>4
<1>8. QED
  BY <1>5, <1>6, <1>7 DEF IsSample, sum

\* The lists of the samples' rates and latencies are lists of natural numbers.
LEMMA SampleListsAreNatural ==
    ASSUME NEW S, samples \in Seq(S), \A sample \in S : IsSample(sample), NEW amount \in Nat
    PROVE  SampleThroughput(amount) \in Seq(Nat) /\ SampleLatency \in Seq(Nat)
<1> DEFINE n == Len(samples)
           rates == [i \in DOMAIN samples |->
                       amount * Ratio(samples[i].iterations, samples[i].duration)]
           latency == [i \in DOMAIN samples |->
                         Ratio(samples[i].duration, samples[i].iterations)]
<1>1. n \in Nat /\ DOMAIN samples = 1..n
  OBVIOUS
<1>2. \A i \in 1..n : samples[i].iterations \in Nat /\ samples[i].duration \in Nat
  <2>1. \A i \in 1..n : samples[i] \in S
    OBVIOUS
  <2>2. QED
    BY <2>1 DEF IsSample
<1> HIDE DEF n
<1>3. \A a, b \in Nat : a * b \in Nat
  OBVIOUS
<1>4. rates \in [1..n -> Nat] /\ latency \in [1..n -> Nat]
  BY <1>1, <1>2, <1>3, RatioIsNatural
<1> HIDE DEF rates, latency
<1>5. rates \in Seq(Nat) /\ latency \in Seq(Nat)
  BY <1>1, <1>4
<1>6. SampleThroughput(amount) \in Seq(Nat)
  BY <1>5, ValuesAtIsList DEF SampleThroughput, rates
<1>7. SampleLatency \in Seq(Nat)
  BY <1>5, ValuesAtIsList DEF SampleLatency, latency
<1>8. QED
  BY <1>6, <1>7

\* Statistics of samples are what the summary can compare.
LEMMA MeasuredIsStats ==
    ASSUME NEW S, samples \in Seq(S), \A sample \in S : IsSample(sample), samples # <<>>,
           IsSample(summed), NEW throughput, throughput.amount \in Nat
    PROVE  IsStats(benchmark_stats_from_samples(throughput))
<1> DEFINE measured == benchmark_stats_from_samples(throughput)
           mean == Divide(summed, Len(samples))
           Of(counter) == Reading(mean.counters, counter)
           rates == SampleThroughput(throughput.amount)
           latency == SampleLatency
           median == PercentileOfSorted(Sorted(latency), 1, 2)
<1>1. Len(samples) \in Nat /\ Len(samples) > 0
  OBVIOUS
<1>2. /\ mean.iterations \in Nat /\ mean.duration \in Nat
      /\ \A counter : Of(counter) \in Nat
  <2>1. /\ mean.iterations = summed.iterations \div Len(samples)
        /\ mean.duration = summed.duration \div Len(samples)
        /\ mean.counters = [c \in DOMAIN summed.counters |->
                              summed.counters[c] \div Len(samples)]
    BY DEF Divide
  <2>2. /\ summed.iterations \in Nat /\ summed.duration \in Nat
        /\ \A c \in DOMAIN summed.counters : summed.counters[c] \in Nat
    BY DEF IsSample
  <2> HIDE DEF mean
  <2>3. mean.iterations \in Nat /\ mean.duration \in Nat
    BY <1>1, <2>1, <2>2, QuotientIsNatural
  <2>4. \A c \in DOMAIN mean.counters : mean.counters[c] \in Nat
    BY <1>1, <2>1, <2>2, QuotientIsNatural
  <2>5. QED
    BY <2>3, <2>4 DEF Reading
<1>3. rates \in Seq(Nat) /\ latency \in Seq(Nat)
  BY SampleListsAreNatural
<1>4. /\ measured.throughput_per_sec
           = throughput.amount * Ratio(mean.iterations, mean.duration)
      /\ measured.per_op = [c \in Counters |-> Ratio(Of(c), mean.iterations)]
      /\ measured.ipc = Ratio(Of("instructions"), Of("cycles"))
      /\ measured.branch_miss_rate = Ratio(Of("branch_misses"), Of("branches"))
      /\ measured.cache_miss_percent = Ratio(Of("cache_misses"), Of("cache_references"))
      /\ measured.frontend_stall_percent = Ratio(Of("stalled_cycles_frontend"), Of("cycles"))
      /\ measured.backend_stall_percent = Ratio(Of("stalled_cycles_backend"), Of("cycles"))
      /\ measured.variation = Variation(Sorted(rates))
      /\ measured.sample_throughput_per_sec = rates
      /\ measured.sample_latency_ns_per_op = latency
      /\ measured.median_ns_per_op = median
      /\ measured.p95_ns_per_op = PercentileOfSorted(Sorted(latency), 19, 20)
      /\ measured.mad_ns_per_op = MedianAbsoluteDeviation(Sorted(latency), median)
  <2> HIDE DEF rates, latency, mean
  <2>1. QED
    BY DEF benchmark_stats_from_samples, rates, latency, mean
<1> HIDE DEF measured, mean, Of, rates, latency, median
<1>5. measured.throughput_per_sec \in Nat
  <2>1. Ratio(mean.iterations, mean.duration) \in Nat
    BY <1>2, RatioIsNatural
  <2>2. \A a, b \in Nat : a * b \in Nat
    OBVIOUS
  <2>3. QED
    BY <1>4, <2>1, <2>2
<1>6. /\ measured.per_op \in [Counters -> Nat]
      /\ \A number \in {measured.ipc, measured.branch_miss_rate, measured.cache_miss_percent,
                        measured.frontend_stall_percent, measured.backend_stall_percent} :
            number \in Nat
  <2>1. \A c \in Counters : Ratio(Of(c), mean.iterations) \in Nat
    BY <1>2, RatioIsNatural
  <2>2. \A c, d : Ratio(Of(c), Of(d)) \in Nat
    BY <1>2, RatioIsNatural
  <2>3. measured.per_op \in [Counters -> Nat]
    BY <1>4, <2>1
  <2>4. Ratio(Of("instructions"), Of("cycles")) \in Nat
    BY <2>2
  <2>5. /\ Ratio(Of("branch_misses"), Of("branches")) \in Nat
        /\ Ratio(Of("cache_misses"), Of("cache_references")) \in Nat
    BY <2>2
  <2>6. /\ Ratio(Of("stalled_cycles_frontend"), Of("cycles")) \in Nat
        /\ Ratio(Of("stalled_cycles_backend"), Of("cycles")) \in Nat
    BY <2>2
  <2>7. QED
    BY <1>4, <2>3, <2>4, <2>5, <2>6
<1>7. Sorted(rates) \in Seq(Nat) /\ Sorted(latency) \in Seq(Nat)
  BY <1>3, SortedIsNatural
<1>8. measured.variation.over \in Nat /\ measured.variation.under \in Nat
  BY <1>4, <1>7, VariationIsNatural
<1>9. median \in Nat /\ measured.p95_ns_per_op \in Nat
  BY <1>4, <1>7, PercentileIsNatural DEF median
<1>10. measured.mad_ns_per_op \in Nat
  BY <1>4, <1>7, <1>9, QuantilesAreNatural
<1>11. IsStats(measured)
  BY <1>3, <1>4, <1>5, <1>6, <1>8, <1>9, <1>10 DEF IsStats
<1>12. QED
  BY <1>11 DEF measured

-------------------------------------------------------------------------------
(* The inductive invariant of the numbers *)

\* What a handle counts per operation is a number, and so is what the case that
\* runs counts; its samples are some that the program may measure.
MeasuredInv ==
    /\ \A handle \in handles : handle.options.throughput.amount \in Nat
    /\ stage = "case" => case.options.throughput.amount \in Nat
    /\ stage \notin {"launch", "panicked"} => program.runtime.min_samples > 0
    /\ samples \in Seq(program.samples) /\ IsSample(summed)

\* Every result has the numbers and the bottlenecks of what was measured.
ReportedInv ==
    \A i \in DOMAIN session :
       /\ IsStats(session[i].stats)
       /\ \E suppressed \in BOOLEAN :
             session[i].diagnosis = diagnose_stats(session[i].stats, suppressed)

\* The summary is of the session and of the report that it was compared with.
PrintedInv ==
    stage = "done" => /\ previous \in {<<>>} \cup program.baselines
                      /\ summary = print_summary_with_baseline(session, previous)

NumbersInv == MeasuredInv /\ ReportedInv /\ PrintedInv

\* No builder method takes the amount per operation away.
LEMMA CalledHasAmount ==
    ASSUME NEW handle, HandleSound(handle), handle.options.throughput.amount \in Nat,
           NEW kind, NEW option, NEW value, option = "throughput" => value.amount \in Nat
    PROVE  Called(handle, kind, option, value).options.throughput.amount \in Nat
<1>1. /\ "throughput" \in DOMAIN handle.options
      /\ Called(handle, kind, option, value).options = WithOption(handle.options, option, value)
  BY DEF HandleSound, Followed, Defaults, Called
<1>2. WithOption(handle.options, option, value).throughput
        = IF option = "throughput" THEN value ELSE handle.options.throughput
  BY <1>1 DEF WithOption
<1>3. QED
  BY <1>1, <1>2

\* Neither does a change of the handle's type.
LEMMA ConvertedHasAmount ==
    ASSUME NEW handle, HandleSound(handle), handle.options.throughput.amount \in Nat,
           NEW made \in Converted(handle)
    PROVE  made.options.throughput.amount \in Nat
<1>1. \A kind, made_by :
         WithFactory(handle, kind, made_by).options.throughput = handle.options.throughput
  BY DEF HandleSound, Followed, Defaults, WithFactory
<1>2. concurrent_factory(handle).options.throughput = handle.options.throughput
  <2> DEFINE with == WithFactory(handle, "concurrent_factory", "threads")
  <2>1. "options" \in DOMAIN with /\ "throughput" \in DOMAIN with.options
    BY DEF HandleSound, Followed, Defaults, WithFactory
  <2>2. with.options.throughput = handle.options.throughput
    BY <1>1
  <2>3. concurrent_factory(handle) = [with EXCEPT !.options.sample_duration = DefaultSampleDuration]
    BY DEF concurrent_factory
  <2> HIDE DEF with
  <2>4. QED
    BY <2>1, <2>2, <2>3
<1>3. \A duration : sample_duration(handle, duration).options.throughput.amount \in Nat
  BY CalledHasAmount DEF sample_duration
<1>4. QED
  BY <1>1, <1>2, <1>3 DEF Converted, factory, factory_for_chunk, with_duration_factory

\* The amounts that are offered
LEMMA OfferedAmounts ==
    /\ Defaults.throughput.amount \in Nat
    /\ \A value \in Offers["throughput"] : value.amount \in Nat
BY DEF Defaults, Ops, Offers, Throughputs

\* Handles are opened and configured.
LEMMA HandlesKeepNumbers ==
    ASSUME GroupsInv, NumbersInv, OpenGroup \/ Configure \/ Misconfigure
    PROVE  NumbersInv'
<1>1. /\ stage = "register" /\ stage' \in {stage, "panicked"}
      /\ UNCHANGED <<program, session, previous, summary, samples, summed>>
  BY DEF OpenGroup, Configure, Misconfigure, Hold, runnerVars, closureVars, reportVars, caseVars
<1>2. \A handle \in handles' : handle.options.throughput.amount \in Nat
  <2>1. ASSUME NEW made, made.options.throughput.amount \in Nat, handles' = handles \cup {made}
        PROVE  \A handle \in handles' : handle.options.throughput.amount \in Nat
    BY <2>1 DEF NumbersInv, MeasuredInv
  <2>2. CASE OpenGroup
    <3>1. PICK made : made.options = Defaults /\ handles' = handles \cup {made}
      BY <2>2 DEF OpenGroup, Hold
    <3>2. QED
      BY <2>1, <3>1, OfferedAmounts
  <2>3. CASE Configure
    <3>1. PICK handle \in handles :
             \/ \E made \in Converted(handle) : handles' = handles \cup {made}
             \/ \E option \in OptionsOf(handle.kind) : \E value \in Offers[option] :
                   handles' = handles \cup {Called(handle, handle.kind, option, value)}
      BY <2>3 DEF Configure, Hold
    <3>2. HandleSound(handle) /\ handle.options.throughput.amount \in Nat
      BY DEF GroupsInv, HandleInv, NumbersInv, MeasuredInv
    <3>3. CASE \E made \in Converted(handle) : handles' = handles \cup {made}
      BY <2>1, <3>2, <3>3, ConvertedHasAmount
    <3>4. ASSUME NEW option \in OptionsOf(handle.kind), NEW value \in Offers[option],
                 handles' = handles \cup {Called(handle, handle.kind, option, value)}
          PROVE  \A h \in handles' : h.options.throughput.amount \in Nat
      <4>1. Called(handle, handle.kind, option, value).options.throughput.amount \in Nat
        BY <3>2, OfferedAmounts, CalledHasAmount
      <4>2. QED
        BY <2>1, <3>4, <4>1
    <3>5. QED
      BY <3>1, <3>3, <3>4
  <2>4. CASE Misconfigure
    BY <2>4 DEF Misconfigure, closureVars, NumbersInv, MeasuredInv
  <2>5. QED
    BY <2>2, <2>3, <2>4
<1>3. MeasuredInv'
  BY <1>1, <1>2 DEF NumbersInv, MeasuredInv
<1>4. ReportedInv' /\ PrintedInv'
  BY <1>1 DEF NumbersInv, ReportedInv, PrintedInv
<1>5. QED
  BY <1>3, <1>4 DEF NumbersInv

\* No sample has been taken of a case that begins.
LEMMA NothingMeasured == IsSample(NoResults)
BY DEF IsSample, NoResults

\* A case is asked for.
LEMMA BenchKeepsNumbers ==
    ASSUME NumbersInv, stage = "register",
           NEW handle, handle.options.throughput.amount \in Nat, Ask(handle),
           BeginCase \/ (stage' \in {stage, "panicked"} /\ UNCHANGED caseVars),
           UNCHANGED <<runnerVars, handles, session, reportVars>>
    PROVE  NumbersInv'
<1>1. case'.options = handle.options /\ UNCHANGED <<program, handles, session>>
  BY DEF Ask, runnerVars
<1>2. /\ stage' \in {"register", "panicked", "case"}
      /\ \/ samples' = samples /\ summed' = summed
         \/ samples' = <<>> /\ summed' = NoResults
  BY DEF BeginCase, caseVars
<1>3. MeasuredInv'
  <2>1. samples' \in Seq(program.samples) /\ IsSample(summed')
    <3>1. <<>> \in Seq(program.samples)
      OBVIOUS
    <3>2. QED
      BY <1>2, <3>1, NothingMeasured DEF NumbersInv, MeasuredInv
  <2>2. \A h \in handles' : h.options.throughput.amount \in Nat
    BY <1>1 DEF NumbersInv, MeasuredInv
  <2>3. case'.options.throughput.amount \in Nat
    BY <1>1
  <2>4. program.runtime.min_samples > 0
    BY DEF NumbersInv, MeasuredInv
  <2>5. QED
    BY <1>1, <2>1, <2>2, <2>3, <2>4 DEF MeasuredInv
<1>4. ReportedInv' /\ PrintedInv'
  BY <1>1, <1>2 DEF NumbersInv, ReportedInv, PrintedInv
<1>5. QED
  BY <1>3, <1>4 DEF NumbersInv

LEMMA CasesKeepNumbers ==
    ASSUME GroupsInv, NumbersInv, Bench \/ RunStandard \/ RunConcurrent
    PROVE  NumbersInv'
<1>1. ASSUME NEW handle, handle.options.throughput.amount \in Nat,
             BenchStandard(handle) \/ \E threads : BenchConcurrent(handle, threads)
      PROVE  NumbersInv'
  <2>1. /\ stage = "register" /\ Ask(handle)
        /\ BeginCase \/ (stage' \in {stage, "panicked"} /\ UNCHANGED caseVars)
        /\ UNCHANGED <<runnerVars, handles, session, reportVars>>
    BY <1>1 DEF BenchStandard, BenchConcurrent, StartConcurrent
  <2>2. QED
    BY <1>1, <2>1, BenchKeepsNumbers
<1>2. CASE Bench
  <2>1. PICK handle \in handles :
           BenchStandard(handle) \/ \E threads : BenchConcurrent(handle, threads)
    BY <1>2 DEF Bench
  <2>2. handle.options.throughput.amount \in Nat
    BY DEF NumbersInv, MeasuredInv
  <2>3. QED
    BY <1>1, <2>1, <2>2
<1>3. \A made_by : [Defaults EXCEPT !.factory = made_by].throughput.amount \in Nat
  BY OfferedAmounts DEF Defaults
<1>4. CASE RunStandard
  <2>1. PICK made_by : BenchStandard([kind |-> "group", group |-> "direct",
                                      calls |-> <<<<"factory", made_by>>>>,
                                      options |-> [Defaults EXCEPT !.factory = made_by]])
    BY <1>4 DEF RunStandard
  <2>2. QED
    BY <1>1, <1>3, <2>1
<1>5. CASE RunConcurrent
  <2>1. PICK duration, threads :
           BenchConcurrent([kind |-> "with_duration", group |-> "direct",
                            calls |-> <<<<"sample_duration", duration>>>>,
                            options |-> [Defaults EXCEPT !.sample_duration = duration]], threads)
    BY <1>5 DEF RunConcurrent
  <2>2. [Defaults EXCEPT !.sample_duration = duration].throughput.amount \in Nat
    BY OfferedAmounts DEF Defaults
  <2>3. QED
    BY <1>1, <2>1, <2>2
<1>6. QED
  BY <1>2, <1>4, <1>5

\* A sample is taken.
LEMMA MeasureKeepsNumbers ==
    ASSUME GroupsInv, NumbersInv, Measure
    PROVE  NumbersInv'
<1>1. PICK sample \in program.samples : TakeSample(sample)
  BY DEF Measure
<1>2. /\ UNCHANGED <<program, stage, handles, case, session, previous, summary>>
      /\ samples' = Append(samples, sample) /\ summed' = Added(summed, sample)
  BY <1>1 DEF Measure, TakeSample, runnerVars, closureVars, reportVars
<1>3. IsSample(sample)
  BY GroupsAssumption DEF GroupsInv, NamesInv
<1>4. samples' \in Seq(program.samples) /\ IsSample(summed')
  BY <1>2, <1>3, AddedIsSample DEF NumbersInv, MeasuredInv
<1>5. MeasuredInv'
  BY <1>2, <1>4 DEF NumbersInv, MeasuredInv
<1>6. ReportedInv' /\ PrintedInv'
  BY <1>2 DEF NumbersInv, ReportedInv, PrintedInv
<1>7. QED
  BY <1>5, <1>6 DEF NumbersInv

\* A case is reported.
LEMMA ReportKeepsNumbers ==
    ASSUME GroupsInv, NumbersInv, Report
    PROVE  NumbersInv'
<1> DEFINE throughput == case.options.throughput
           measured == benchmark_stats_from_samples(throughput)
<1>1. /\ stage = "case" /\ stage' = "register" /\ stats' = measured
      /\ Len(samples) >= program.runtime.min_samples
      /\ UNCHANGED <<program, handles, samples, summed>>
  BY DEF Report, runnerVars, closureVars
<1>2. \E result, suppressed :
         /\ session' = Append(session, result) /\ suppressed \in BOOLEAN
         /\ result.stats = stats' /\ result.diagnosis = diagnose_stats(stats', suppressed)
  <2> DEFINE bare == [name |-> case.name, group |-> case.group, kind |-> case.kind,
                      execution_index |-> Len(session),
                      metadata |-> case.options.metadata,
                      domain   |-> case.options.measurement_domain,
                      scope    |-> Scope(case.kind, case.options),
                      emits_cpu_diagnostics |-> Scope(case.kind, case.options) # "device",
                      stats    |-> stats',
                      options  |-> case.options,
                      backend  |-> backends,
                      diagnosis |-> {}]
             suppressed == SuppressesCpuNotes(bare)
             found  == diagnose_stats(stats', suppressed)
             result == [bare EXCEPT !.diagnosis = found]
  <2>1. session' = Append(session, result)
    BY DEF Report
  <2>2. suppressed \in BOOLEAN
    BY DEF SuppressesCpuNotes
  <2> HIDE DEF suppressed
  <2>3. result.stats = stats' /\ result.diagnosis = diagnose_stats(stats', suppressed)
    <3> HIDE DEF found
    <3>1. result.stats = stats' /\ result.diagnosis = found
      OBVIOUS
    <3>2. QED
      BY <3>1 DEF found
  <2> HIDE DEF result
  <2>4. QED
    BY <2>1, <2>2, <2>3
<1>3. PICK result, suppressed :
         /\ session' = Append(session, result) /\ suppressed \in BOOLEAN
         /\ result.stats = stats' /\ result.diagnosis = diagnose_stats(stats', suppressed)
  BY <1>2
<1>4. IsStats(measured)
  <2>1. /\ samples \in Seq(program.samples) /\ IsSample(summed)
        /\ throughput.amount \in Nat /\ program.runtime.min_samples > 0
    BY <1>1 DEF NumbersInv, MeasuredInv
  <2>2. /\ program.runtime.min_samples \in Nat
        /\ \A sample \in program.samples : IsSample(sample)
    BY GroupsAssumption DEF GroupsInv, NamesInv
  <2>3. samples # <<>>
    BY <1>1, <2>1, <2>2
  <2> HIDE DEF throughput
  <2>4. QED
    BY <2>1, <2>2, <2>3, MeasuredIsStats
<1> HIDE DEF throughput, measured
<1>5. ReportedInv'
  <2>1. IsSequence(session)
    BY DEF GroupsInv, SessionInv
  <2>2. /\ Len(session) \in Nat /\ DOMAIN session = 1..Len(session)
        /\ DOMAIN session' = 1..(Len(session) + 1)
        /\ session'[Len(session) + 1] = result
        /\ \A i \in DOMAIN session : session'[i] = session[i]
    BY <1>3, <2>1, SequenceGrows
  <2>3. ASSUME NEW i \in DOMAIN session'
        PROVE  /\ IsStats(session'[i].stats)
               /\ \E s \in BOOLEAN : session'[i].diagnosis = diagnose_stats(session'[i].stats, s)
    <3>1. CASE i \in DOMAIN session
      BY <2>2, <3>1 DEF NumbersInv, ReportedInv
    <3>2. CASE i \notin DOMAIN session
      <4>1. session'[i] = result
        BY <2>2, <3>2
      <4>2. QED
        BY <1>1, <1>3, <1>4, <4>1
    <3>3. QED
      BY <3>1, <3>2
  <2>4. QED
    BY <2>3, ZenonT(60) DEF ReportedInv, diagnose_stats
<1>6. MeasuredInv'
  BY <1>1 DEF NumbersInv, MeasuredInv
<1>7. PrintedInv'
  BY <1>1 DEF PrintedInv
<1>8. QED
  BY <1>5, <1>6, <1>7 DEF NumbersInv

\* The launch, the diagnostic passes, the summary and a step that does nothing
\* measure nothing.
LEMMA StepKeepsNumbers ==
    ASSUME GroupsInv, NumbersInv, [Next]_vars
    PROVE  NumbersInv'
<1>1. CASE Launch
  <2>1. /\ stage = "launch"
        /\ stage' = IF ValidRuntime(program.runtime) THEN "register" ELSE "panicked"
        /\ UNCHANGED <<program, handles, session, samples, summed>>
    BY <1>1 DEF Launch, caseVars
  <2>2. stage' # "panicked" => program.runtime.min_samples > 0
    BY <2>1 DEF ValidRuntime
  <2>3. MeasuredInv'
    BY <2>1, <2>2 DEF NumbersInv, MeasuredInv
  <2>4. ReportedInv' /\ PrintedInv'
    BY <2>1 DEF NumbersInv, ReportedInv, PrintedInv
  <2>5. QED
    BY <2>3, <2>4 DEF NumbersInv
<1>2. CASE RunDiagnosticPass \/ UNCHANGED vars
  <2>1. UNCHANGED <<program, stage, handles, case, session, previous, summary, samples, summed>>
    BY <1>2 DEF RunDiagnosticPass, vars, runnerVars, closureVars, reportVars, caseVars
  <2>2. QED
    BY <2>1 DEF NumbersInv, MeasuredInv, ReportedInv, PrintedInv
<1>3. CASE PrintSummary
  <2>1. /\ stage = "register" /\ stage' = "done"
        /\ UNCHANGED <<program, handles, session, samples, summed>>
        /\ \E baseline \in {<<>>} \cup program.baselines :
              /\ previous' = baseline
              /\ summary' = print_summary_with_baseline(session, baseline)
    BY <1>3 DEF PrintSummary, runnerVars, closureVars, caseVars
  <2>2. MeasuredInv' /\ ReportedInv'
    BY <2>1 DEF NumbersInv, MeasuredInv, ReportedInv
  <2>3. PrintedInv'
    BY <2>1 DEF PrintedInv
  <2>4. QED
    BY <2>2, <2>3 DEF NumbersInv
<1>4. QED
  BY <1>1, <1>2, <1>3, HandlesKeepNumbers, CasesKeepNumbers, MeasureKeepsNumbers,
     ReportKeepsNumbers DEF Next, Terminating

\* The summary does not contradict itself: what it says of a pair of results, of a
\* result and of a group.
LEMMA PairIsConsistent ==
    ASSUME IsSequence(session), IsSequence(previous),
           \A i \in DOMAIN session : IsStats(session[i].stats),
           \A j \in DOMAIN previous : IsStats(previous[j].stats),
           summary = print_summary_with_baseline(session, previous),
           NEW i, NEW j, <<i, j>> \in Range(pair_results_one_to_one(session, previous))
    PROVE  LET reverse == print_summary_with_baseline(previous, session)
           IN  /\ i \in summary.regressed /\ Rate(session, i) > 0 => j \in reverse.improved
               /\ i \in summary.improved => j \notin reverse.improved
               /\ \A note \in summary.notes[i] : note[1] # "stability" =>
                     i \in (IF note[2] = "worse" THEN summary.regressed ELSE summary.improved)
               /\ \A cell \in DOMAIN summary.per_stat[i] :
                     Opposed(summary.per_stat[i][cell], reverse.per_stat[j][cell])
               /\ \A cell \in DOMAIN summary.pmu[i] :
                     Opposed(summary.pmu[i][cell], reverse.pmu[j][cell])
<1> DEFINE reverse == print_summary_with_baseline(previous, session)
           result == session[i]
           other == previous[j]
           change == ThroughputChange(result, other)
           back == ThroughputChange(other, result)
<1>1. /\ i \in DOMAIN session /\ j \in DOMAIN previous
      /\ summary.per_stat[i] = PerStat(result, other)
      /\ summary.pmu[i] = PmuComparison(result, other)
      /\ summary.notes[i] = comparative_diagnosis(result, other)
      /\ i \in summary.improved <=> Rose(change, 1)
      /\ i \in summary.regressed <=> Fell(change, 1)
  BY SummaryOfPair
<1>2. <<j, i>> \in Range(pair_results_one_to_one(previous, session))
  BY SummaryPairsReverse
<1>3. /\ reverse.per_stat[j] = PerStat(other, result)
      /\ reverse.pmu[j] = PmuComparison(other, result)
      /\ j \in reverse.improved <=> Rose(back, 1)
  BY <1>2, SummaryOfPair
<1>4. /\ IsStats(result.stats) /\ IsStats(other.stats)
      /\ result.stats.throughput_per_sec \in Nat /\ other.stats.throughput_per_sec \in Nat
      /\ Rate(session, i) = result.stats.throughput_per_sec
  BY <1>1 DEF IsStats, Rate
<1> HIDE DEF reverse, result, other
<1>5. /\ Fell(change, 1) /\ result.stats.throughput_per_sec > 0 => Rose(back, 1)
      /\ Rose(change, 1) => ~Rose(back, 1)
      /\ \A note \in comparative_diagnosis(result, other) :
            note[1] # "stability" =>
               IF note[2] = "worse" THEN Fell(change, 1) ELSE Rose(change, 1)
  BY <1>4, RatesMove
<1>6. \A cell \in DOMAIN PerStat(result, other) :
         Opposed(PerStat(result, other)[cell], PerStat(other, result)[cell])
  BY <1>4, PerStatIsOpposed
<1>7. \A cell \in DOMAIN PmuComparison(result, other) :
         Opposed(PmuComparison(result, other)[cell], PmuComparison(other, result)[cell])
  BY <1>4, PmuIsOpposed
<1> HIDE DEF change, back
<1>8. /\ i \in summary.regressed /\ Rate(session, i) > 0 => j \in reverse.improved
      /\ i \in summary.improved => j \notin reverse.improved
  BY <1>1, <1>3, <1>4, <1>5
<1>9. \A note \in summary.notes[i] : note[1] # "stability" =>
         i \in (IF note[2] = "worse" THEN summary.regressed ELSE summary.improved)
  BY <1>1, <1>5
<1>10. /\ \A cell \in DOMAIN summary.per_stat[i] :
             Opposed(summary.per_stat[i][cell], reverse.per_stat[j][cell])
       /\ \A cell \in DOMAIN summary.pmu[i] :
             Opposed(summary.pmu[i][cell], reverse.pmu[j][cell])
  BY <1>1, <1>3, <1>6, <1>7
<1>11. QED
  BY <1>8, <1>9, <1>10 DEF reverse

\* What the invariants say of a program that is done
LEMMA DoneIsConsistent ==
    ASSUME GroupsInv, NumbersInv, stage = "done"
    PROVE  SummaryIsConsistent
<1> DEFINE pairs == pair_results_one_to_one(session, previous)
           reverse == print_summary_with_baseline(previous, session)
<1>1. /\ IsSequence(session)
      /\ \A i \in DOMAIN session : IsStats(session[i].stats)
      /\ summary = print_summary_with_baseline(session, previous)
      /\ previous \in {<<>>} \cup program.baselines /\ program \in Programs
  BY DEF GroupsInv, SessionInv, NamesInv, NumbersInv, ReportedInv, PrintedInv
<1>2. IsSequence(previous) /\ \A j \in DOMAIN previous : IsStats(previous[j].stats)
  <2>1. CASE previous = <<>>
    BY <2>1, NothingGiven
  <2>2. CASE previous \in program.baselines
    BY <1>1, <2>2, GroupsAssumption DEF IsSequence
  <2>3. QED
    BY <1>1, <2>1, <2>2
<1>3. ASSUME NEW n \in DOMAIN pairs
      PROVE  LET i == pairs[n][1]
                 j == pairs[n][2]
             IN  /\ i \in summary.regressed /\ Rate(session, i) > 0 => j \in reverse.improved
                 /\ i \in summary.improved => j \notin reverse.improved
                 /\ \A note \in summary.notes[i] : note[1] # "stability" =>
                       i \in (IF note[2] = "worse" THEN summary.regressed ELSE summary.improved)
                 /\ \A cell \in DOMAIN summary.per_stat[i] :
                       Opposed(summary.per_stat[i][cell], reverse.per_stat[j][cell])
                 /\ \A cell \in DOMAIN summary.pmu[i] :
                       Opposed(summary.pmu[i][cell], reverse.pmu[j][cell])
  <2>1. pairs \in Seq(Nat \X Nat)
    <3>1. /\ \E K : ResultIdentities(session) \in Seq(K)
          /\ \E O : ResultIdentities(previous) \in Seq(O)
      BY <1>1, <1>2, IdentitiesAreListed
    <3>2. QED
      BY <3>1, OneToOnePairs DEF pair_results_one_to_one
  <2>2. <<pairs[n][1], pairs[n][2]>> \in Range(pairs)
    <3>1. pairs[n] \in Nat \X Nat
      BY <2>1
    <3>2. pairs[n] = <<pairs[n][1], pairs[n][2]>>
      BY <3>1
    <3>3. QED
      BY <3>2 DEF Range
  <2>3. QED
    BY <1>1, <1>2, <2>2, PairIsConsistent
<1>4. ASSUME NEW i \in DOMAIN session
      PROVE  LET Absent(metric(_)) == metric(session[i].stats) = None
                 Blames(causes)    == session[i].diagnosis \cap causes # {}
             IN  /\ Absent(pmu_backend_stall_metric) \/ Absent(pmu_cache_metric) =>
                       ~Blames({"memory"})
                 /\ Absent(pmu_frontend_stall_metric) => ~Blames({"branch", "icache"})
                 /\ Absent(pmu_branch_miss_metric) => ~Blames({"branch"})
                 /\ Absent(pmu_ipc) => ~Blames({"low_ipc"})
  <2>1. PICK suppressed :
           session[i].diagnosis = diagnose_stats(session[i].stats, suppressed)
    BY DEF NumbersInv, ReportedInv
  <2> DEFINE found == session[i].diagnosis
             measured == session[i].stats
  <2>2. /\ "memory" \in found => /\ pmu_backend_stall_metric(measured) # None
                                 /\ pmu_cache_metric(measured) # None
        /\ "branch" \in found => /\ pmu_frontend_stall_metric(measured) # None
                                 /\ pmu_branch_miss_metric(measured) # None
        /\ "icache" \in found => pmu_frontend_stall_metric(measured) # None
        /\ "low_ipc" \in found => pmu_ipc(measured) # None
    BY <2>1, DiagnosisHasMetrics
  <2> HIDE DEF found
  <2>3. /\ found \cap {"memory"} # {} => "memory" \in found
        /\ found \cap {"branch", "icache"} # {} => "branch" \in found \/ "icache" \in found
        /\ found \cap {"branch"} # {} => "branch" \in found
        /\ found \cap {"low_ipc"} # {} => "low_ipc" \in found
    OBVIOUS
  <2>4. QED
    BY <2>2, <2>3 DEF found
<1>5. ASSUME NEW g \in DOMAIN summary.insights
      PROVE  LET insight == summary.insights[g]
                 Among(i) == /\ session[i].group = g
                             /\ Rate(session, insight.slowest) <= Rate(session, i)
                             /\ Rate(session, i) <= Rate(session, insight.fastest)
             IN  /\ insight.fastest # insight.slowest
                 /\ \A i \in DOMAIN session : session[i].group = g => Among(i)
                 /\ Among(insight.fastest) /\ Among(insight.slowest)
  <2>1. summary.insights = group_throughput_insights(session)
    BY <1>1 DEF print_summary_with_baseline
  <2>2. \A i \in DOMAIN session : Rate(session, i) \in Nat
    BY <1>1 DEF Rate, IsStats
  <2> DEFINE insight == summary.insights[g]
  <2>3. /\ insight.fastest # insight.slowest
        /\ \A i \in {insight.fastest, insight.slowest} :
              i \in DOMAIN session /\ session[i].group = g
        /\ \A i \in DOMAIN session : session[i].group = g =>
              /\ Rate(session, insight.slowest) <= Rate(session, i)
              /\ Rate(session, i) <= Rate(session, insight.fastest)
    BY <1>1, <2>1, <2>2, InsightsBound
  <2> HIDE DEF insight
  <2>4. QED
    BY <2>3 DEF insight
<1> HIDE DEF reverse, pairs
<1>6. QED
  BY <1>3, <1>4, <1>5 DEF SummaryIsConsistent, Opposed, reverse, pairs

-------------------------------------------------------------------------------
(* What a benchmark program guarantees, in every reachable state *)

\* The inductive invariant of a program holds in every behaviour.
THEOREM GroupsInvHolds == Spec => []GroupsInv
<1>1. Init => GroupsInv
  <2> SUFFICES ASSUME Init PROVE GroupsInv
    OBVIOUS
  <2>1. HandleInv /\ AskedInv /\ SessionInv
    BY NothingGiven DEF Init, HandleInv, AskedInv, SessionInv
  <2>2. NamesInv
    BY DEF Init, NamesInv
  <2>3. CountInv
    <3>1. Len(asked) = 0 /\ Len(session) = 0 /\ stage = "launch"
      BY DEF Init
    <3>2. {k \in 1..0 : Through(asked[k])} = {}
      OBVIOUS
    <3>3. LetThrough(0) = 0
      BY <3>2, FS_EmptySet DEF LetThrough
    <3>4. QED
      BY <3>1, <3>3 DEF CountInv
  <2>4. BackendInv
    BY DEF Init, BackendInv
  <2>5. QED
    BY <2>1, <2>2, <2>3, <2>4 DEF GroupsInv
<1>2. GroupsInv /\ [Next]_vars => GroupsInv'
  BY StepKeepsGroups
<1>3. QED
  BY <1>1, <1>2, PTL DEF Spec

\* Builder calls, filter and order: every case of the list is asked for once, the
\* session has those that the filter lets through in the order of the calls, each
\* with the options that its chain gave last, and no two share a backend.
THEOREM CasesFollowTheirChains == Spec => []CasesRunAsAsked
<1>1. GroupsInv => CasesRunAsAsked
  <2> SUFFICES ASSUME GroupsInv PROVE CasesRunAsAsked
    OBVIOUS
  <2>1. stage = "register" => Len(session) = LetThrough(Len(asked))
    BY DEF GroupsInv, CountInv
  <2>2. stage = "done" =>
           /\ Len(asked) = Len(program.cases)
           /\ {asked[i].name : i \in DOMAIN asked} = ToSet(program.cases)
    <3> SUFFICES ASSUME stage = "done"
                 PROVE  /\ Len(asked) = Len(program.cases)
                        /\ {asked[i].name : i \in DOMAIN asked} = ToSet(program.cases)
      OBVIOUS
    <3>1. /\ pending = <<>> /\ Len(asked) + Len(pending) = Len(program.cases)
          /\ {asked[j].name : j \in DOMAIN asked} \cup Range(pending) = Range(program.cases)
      BY DEF GroupsInv, NamesInv
    <3>2. Len(pending) = 0 /\ Range(pending) = {}
      BY <3>1 DEF Range
    <3>3. Len(asked) \in Nat
      BY SequenceGrows DEF GroupsInv, AskedInv
    <3>4. ToSet(program.cases) = Range(program.cases)
      BY DEF ToSet, Range
    <3>5. QED
      BY <3>1, <3>2, <3>3, <3>4
  <2>3. \A i \in DOMAIN session :
           /\ session[i].execution_index = i - 1
           /\ \E j \in DOMAIN asked : /\ Through(asked[j]) /\ LetThrough(j) = i
                                     /\ AsAsked(session[i], asked[j])
    BY DEF GroupsInv, SessionInv, ResultSound
  <2>4. \A i, j \in {n \in DOMAIN session : session[n].scope # "managed workers"} :
           session[i].backend = session[j].backend => i = j
    BY DEF GroupsInv, BackendInv, Managed
  <2>5. QED
    BY <2>1, <2>2, <2>3, <2>4 DEF CasesRunAsAsked
<1>2. QED
  BY <1>1, GroupsInvHolds, PTL

\* The numbers of handles, samples and results, and what was printed of them
THEOREM NumbersInvHolds == Spec => []NumbersInv
<1>1. Init => NumbersInv
  <2> SUFFICES ASSUME Init PROVE NumbersInv
    OBVIOUS
  <2>1. samples \in Seq(program.samples) /\ IsSample(summed)
    BY NothingMeasured DEF Init, CaseInit
  <2>2. MeasuredInv /\ ReportedInv /\ PrintedInv
    BY <2>1 DEF Init, MeasuredInv, ReportedInv, PrintedInv
  <2>3. QED
    BY <2>2 DEF NumbersInv
<1>2. GroupsInv /\ NumbersInv /\ [Next]_vars => NumbersInv'
  BY StepKeepsNumbers
<1>3. QED
  BY <1>1, <1>2, GroupsInvHolds, PTL DEF Spec

\* The summary of a session: whatever was measured, and whatever earlier report it
\* is compared with, it does not contradict itself.
THEOREM SummaryDoesNotContradict == Spec => []SummaryIsConsistent
<1>1. GroupsInv /\ NumbersInv => SummaryIsConsistent
  <2>1. CASE stage = "done"
    BY <2>1, DoneIsConsistent
  <2>2. CASE stage # "done"
    BY <2>2 DEF SummaryIsConsistent
  <2>3. QED
    BY <2>1, <2>2
<1>2. QED
  BY <1>1, GroupsInvHolds, NumbersInvHolds, PTL
===============================================================================
