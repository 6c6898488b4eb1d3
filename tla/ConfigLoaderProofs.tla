------------------------- MODULE ConfigLoaderProofs -------------------------
(***************************************************************************)
(* Proofs about ConfigLoader, for any directories, files and commands.     *)
(***************************************************************************)
EXTENDS ConfigLoader, TLAPS, SequenceTheorems, WellFoundedInduction

\* None is none of the things it stands in for: no number, no set of files, no
\* key, no value, no area and no information about what is supported.
NoneIsNothing ==
    /\ None \notin Int /\ None \notin SUBSET AllFiles
    /\ {1, "int32Values", "areaId", "hasMinSupportedValue"} \cap DOMAIN None = {}

\* A directory's files, or None.
Directory(S) == S = None \/ S \subseteq AllFiles

\* What a command leaves of the input, and what the commands may do.
InputInv ==
    /\ DOMAIN input = {"default", "override", "useOverride", "left", "max"}
    /\ Directory(input.default) /\ Directory(input.override)
    /\ input.left \in [Commands -> Nat] /\ input.max \in [Commands -> Nat]
    /\ \A op \in Commands : input.left[op] =< input.max[op]

\* A command was given.
Spent == \E op \in Commands : input.left[op] < input.max[op]

LEMMA InputInit == Init => InputInv
<1> SUFFICES ASSUME Init PROVE InputInv
  OBVIOUS
<1>1. input \in Inputs
  BY DEF Init
<1>2. Directory(input.default) /\ Directory(input.override)
  BY <1>1 DEF Directory, AllFiles
<1> QED
  BY <1>1, <1>2, InputsKnown DEF InputInv

LEMMA CommandTakes ==
    ASSUME InputInv, NEW op \in Commands, Command(op)
    PROVE  /\ InputInv' /\ Spent' /\ phase = "running"
           /\ UNCHANGED <<input.default, input.override, input.useOverride, input.max>>
<1> DEFINE left == [input.left EXCEPT ![op] = @ - 1]
<1>1. input' = [input EXCEPT !.left = left] /\ phase = "running" /\ input.left[op] > 0
  BY DEF Command, Allowed
<1>2. /\ left \in [Commands -> Nat] /\ left[op] < input.left[op]
      /\ \A x \in Commands : left[x] =< input.left[x]
  BY <1>1 DEF InputInv
<1> HIDE DEF left
<1>3. /\ DOMAIN input' = DOMAIN input /\ input'.left = left
      /\ UNCHANGED <<input.default, input.override, input.useOverride, input.max>>
  BY <1>1 DEF InputInv
<1>4. input.max[op] \in Nat /\ input.left[op] \in Nat /\ left[op] \in Nat
  BY <1>2 DEF InputInv
<1>5. \A x \in Commands : left[x] =< input.max[x]
  BY <1>2 DEF InputInv
<1> QED
  BY <1>1, <1>2, <1>3, <1>4, <1>5 DEF InputInv, Directory, Spent, AllFiles

\* The cases of a step, and what each leaves alone.
Loads == \E f \in files : loadPropConfig(f)
Quiet == UNCHANGED <<input, loading, hardware, supported>>

LEMMA NextCases ==
    ASSUME InputInv, [Next]_vars
    PROVE  \/ Loads /\ UNCHANGED <<input, hardware, supported, listening>>
           \/ loadConfigDeclarations
           \/ init
           \/ initAborts
           \/ \E t \in Threads : \E o \in Ranges : dumpSetMinMaxValue(t, o)
           \/ \E t \in Threads : \E o \in Lists : dumpSetSupportedValues(t, o)
           \/ \E t \in Threads : triggerSupportedValueChange(t)
           \/ registerSupportedValueChangeCallback
           \/ \E n \in notified : read(n)
           \/ \E o \in Lines : dumpSetProperties(o)
           \/ \E x \in Values : setValue(x.key, x.value)
           \/ UNCHANGED vars
<1>1. CASE Loads
  BY <1>1 DEF Loads, loadPropConfig
<1>2. CASE UNCHANGED vars
  BY <1>2
<1>3. CASE Next /\ ~Loads
  BY <1>3 DEF Next, Loads
<1> QED
  BY <1>1, <1>2, <1>3 DEF Next

LEMMA InputStep ==
    ASSUME InputInv, [Next]_vars
    PROVE  /\ InputInv'
           /\ UNCHANGED <<input.default, input.override, input.useOverride, input.max>>
<1>1. CASE UNCHANGED input
  BY <1>1 DEF InputInv, Directory, AllFiles
<1>2. CASE \E op \in Commands : Command(op)
  BY <1>2, CommandTakes
<1>3. CASE \E t \in Threads : \E o \in Ranges : dumpSetMinMaxValue(t, o)
  BY <1>2, <1>3 DEF dumpSetMinMaxValue, Commands
<1>4. CASE \E t \in Threads : \E o \in Lists : dumpSetSupportedValues(t, o)
  BY <1>2, <1>4 DEF dumpSetSupportedValues, Commands
<1>5. CASE registerSupportedValueChangeCallback
  BY <1>2, <1>5 DEF registerSupportedValueChangeCallback, Commands
<1>6. CASE \E o \in Lines : dumpSetProperties(o)
  BY <1>2, <1>6 DEF dumpSetProperties, Commands
<1>7. CASE \E x \in Values : setValue(x.key, x.value)
  BY <1>2, <1>7 DEF setValue, Commands
<1>8. CASE loadConfigDeclarations \/ init \/ initAborts \/ \E n \in notified : read(n)
  BY <1>1, <1>8 DEF loadConfigDeclarations, init, initAborts, read
<1>9. CASE \E t \in Threads : triggerSupportedValueChange(t)
  BY <1>1, <1>9 DEF triggerSupportedValueChange
<1>10. CASE UNCHANGED vars
  BY <1>1, <1>10 DEF vars
<1> QED
  BY <1>1, <1>3, <1>4, <1>5, <1>6, <1>7, <1>8, <1>9, <1>10, NextCases

----------------------------------------------------------------------------
(* The listener.                                                           *)

\* Nothing is reported before somebody listens; what is to be read, or was, is
\* the range or the list of a key.
ListenInv ==
    /\ DOMAIN dumper = Threads /\ callback \in BOOLEAN
    /\ phase # "running" => ~callback
    /\ ~callback => notified = {} /\ DOMAIN seen = {}
    /\ \A n \in notified \cup DOMAIN seen :
          n = <<n[1], n[2]>> /\ n[1] # None /\ n[2] \in Readings
    /\ ListenerCatchesUp

LEMMA PutAt ==
    ASSUME NEW x, NEW v, NEW map, NEW y
    PROVE  At(Put(x, v, map), y) = IF y = x THEN v ELSE At(map, y)
BY DEF At, Put

\* A change of one key, to be reported by thread t that had nothing to report,
\* is one the listener does not miss.
LEMMA ChangeIsReported ==
    ASSUME NoneIsNothing, ListenInv, NEW t \in Threads, dumper[t] = None,
           NEW a, NEW b, dumper' = [dumper EXCEPT ![t] = <<a, b>>],
           \A y : y # <<a, b>> => /\ At(mMin', y) = At(mMin, y)
                                  /\ At(mMax', y) = At(mMax, y)
                                  /\ At(mSupported', y) = At(mSupported, y),
           phase' = phase, UNCHANGED <<callback, notified, seen>>
    PROVE  ListenInv'
<1> DEFINE key == <<a, b>>
<1>1. ASSUME NEW n \in DOMAIN seen
      PROVE  \/ seen[n] = Reading(n)' \/ n \in notified
             \/ \E u \in Threads : dumper'[u] = n[1]
  <2>1. CASE n[1] = key
    BY <2>1 DEF ListenInv
  <2>2. CASE n[1] # key
    <3>1. Reading(n)' = Reading(n)
      BY <2>2 DEF Reading, getMinMaxSupportedValues, getSupportedValuesLists, At
    <3>2. \A u \in Threads : dumper[u] = n[1] => dumper'[u] = n[1]
      BY DEF ListenInv
    <3> QED
      BY <3>1, <3>2 DEF ListenInv, ListenerCatchesUp
  <2> QED
    BY <2>1, <2>2
<1>2. ListenerCatchesUp'
  BY <1>1 DEF ListenerCatchesUp
<1> QED
  BY <1>2 DEF ListenInv

LEMMA KeyIsNotNone ==
    ASSUME NoneIsNothing, NEW a, NEW b
    PROVE  <<a, b>> # None
<1>1. 1 \in DOMAIN <<a, b>>
  OBVIOUS
<1> QED
  BY <1>1 DEF NoneIsNothing

LEMMA ListenInit == Init => ListenInv
BY DEF Init, ListenInv, ListenerCatchesUp, Nothing

LEMMA ListenStep ==
    ASSUME NoneIsNothing, InputInv, ListenInv, [Next]_vars
    PROVE  ListenInv'
<1>1. CASE UNCHANGED <<supported, listening>> /\ (phase = "running" => phase' = "running")
  <2>1. \A n : Reading(n)' = Reading(n)
    BY <1>1 DEF supported, Reading, getMinMaxSupportedValues, getSupportedValuesLists, At
  <2> QED
    BY <1>1, <2>1 DEF ListenInv, ListenerCatchesUp, listening
<1>2. CASE loadConfigDeclarations \/ initAborts
  BY <1>1, <1>2 DEF loadConfigDeclarations, initAborts
<1>3. CASE init
  <2>1. ~callback /\ UNCHANGED listening
    BY <1>3 DEF init, ListenInv
  <2> QED
    BY <2>1 DEF ListenInv, ListenerCatchesUp, listening
<1>4. ASSUME NEW t \in Threads, NEW o \in Ranges, dumpSetMinMaxValue(t, o) PROVE ListenInv'
  <2>1. CASE UNCHANGED <<mMin, mMax, tuned, dumper>>
    BY <1>1, <1>4, <2>1 DEF dumpSetMinMaxValue, supported, listening, loading
  <2>2. CASE ~UNCHANGED <<mMin, mMax, tuned, dumper>>
    <3> DEFINE key == parseDumpOptionPropIdAreaId(o).key
               p == parsePropId(o[2]).v
               a == (IF ~IsOption(o[3], "-a") THEN Good(0)
                     ELSE IF Len(o) < 4 THEN Bad(0) ELSE parseAreaId(o[4], p)).v
    <3>1. key = <<p, a>>
      BY DEF parseDumpOptionPropIdAreaId
    <3>2. PICK lo, hi : mMin' = Put(key, lo, mMin) /\ mMax' = Put(key, hi, mMax)
      BY <1>4, <2>2 DEF dumpSetMinMaxValue, parseAndSetMinMaxValue
    <3>3. /\ dumper[t] = None /\ dumper' = [dumper EXCEPT ![t] = key]
          /\ UNCHANGED <<phase, mSupported, callback, notified, seen>>
      BY <1>4, <2>2 DEF dumpSetMinMaxValue, loading
    <3> HIDE DEF key, p, a
    <3>4. \A y : y # key => /\ At(mMin', y) = At(mMin, y) /\ At(mMax', y) = At(mMax, y)
                            /\ At(mSupported', y) = At(mSupported, y)
      BY <3>2, <3>3, PutAt DEF At
    <3> QED
      BY <3>1, <3>3, <3>4, ChangeIsReported
  <2> QED
    BY <2>1, <2>2
<1>5. ASSUME NEW t \in Threads, NEW o \in Lists, dumpSetSupportedValues(t, o) PROVE ListenInv'
  <2>1. CASE UNCHANGED <<mSupported, dumper>>
    BY <1>1, <1>5, <2>1 DEF dumpSetSupportedValues, supported, listening, loading
  <2>2. CASE ~UNCHANGED <<mSupported, dumper>>
    <3> DEFINE key == parseDumpOptionPropIdAreaId(o).key
               p == parsePropId(o[2]).v
               a == (IF ~IsOption(o[3], "-a") THEN Good(0)
                     ELSE IF Len(o) < 4 THEN Bad(0) ELSE parseAreaId(o[4], p)).v
    <3>1. key = <<p, a>>
      BY DEF parseDumpOptionPropIdAreaId
    <3>2. PICK list : mSupported' = Put(key, list, mSupported)
      BY <1>5, <2>2 DEF dumpSetSupportedValues
    <3>3. /\ dumper[t] = None /\ dumper' = [dumper EXCEPT ![t] = key]
          /\ UNCHANGED <<phase, mMin, mMax, callback, notified, seen>>
      BY <1>5, <2>2 DEF dumpSetSupportedValues, loading
    <3> HIDE DEF key, p, a
    <3>4. \A y : y # key => /\ At(mMin', y) = At(mMin, y) /\ At(mMax', y) = At(mMax, y)
                            /\ At(mSupported', y) = At(mSupported, y)
      BY <3>2, <3>3, PutAt DEF At
    <3> QED
      BY <3>1, <3>3, <3>4, ChangeIsReported
  <2> QED
    BY <2>1, <2>2
<1>6. ASSUME NEW t \in Threads, triggerSupportedValueChange(t) PROVE ListenInv'
  <2>1. /\ dumper[t] # None /\ dumper' = [dumper EXCEPT ![t] = None]
        /\ notified' = IF callback THEN notified \cup {dumper[t]} \X Readings ELSE notified
        /\ UNCHANGED <<supported, callback, seen, phase>>
    BY <1>6 DEF triggerSupportedValueChange, loading
  <2>2. \A n : Reading(n)' = Reading(n)
    BY <2>1 DEF supported, Reading, getMinMaxSupportedValues, getSupportedValuesLists, At
  <2>3. CASE ~callback
    BY <2>1, <2>3 DEF ListenInv, ListenerCatchesUp
  <2>4. CASE callback
    <3>1. \A n \in notified' : n = <<n[1], n[2]>> /\ n[1] # None /\ n[2] \in Readings
      BY <2>1, <2>4 DEF ListenInv
    <3>2. ASSUME NEW n \in DOMAIN seen
          PROVE  \/ seen[n] = Reading(n)' \/ n \in notified'
                 \/ \E u \in Threads : dumper'[u] = n[1]
      <4>1. CASE n[1] = dumper[t]
        BY <2>1, <2>4, <4>1 DEF ListenInv
      <4>2. CASE n[1] # dumper[t]
        BY <2>1, <2>2, <2>4, <4>2 DEF ListenInv, ListenerCatchesUp
      <4> QED
        BY <4>1, <4>2
    <3> QED
      BY <2>1, <2>4, <3>1, <3>2 DEF ListenInv, ListenerCatchesUp
  <2> QED
    BY <2>3, <2>4 DEF ListenInv
<1>7. CASE registerSupportedValueChangeCallback
  <2>1. /\ ~callback /\ callback' /\ phase = "running" /\ notified' = AreaKeys \X Readings
        /\ callback' \in BOOLEAN /\ UNCHANGED <<phase, dumper, seen>>
    BY <1>7 DEF registerSupportedValueChangeCallback, Command, Allowed, loading
  <2>2. \A n \in notified' : n = <<n[1], n[2]>> /\ n[1] # None /\ n[2] \in Readings
    <3>1. \A k \in AreaKeys : k = <<k[1], k[2]>>
      BY DEF AreaKeys
    <3>2. \A k \in AreaKeys : k # None
      BY <3>1, KeyIsNotNone
    <3> QED
      BY <2>1, <3>2
  <2> QED
    BY <2>1, <2>2 DEF ListenInv, ListenerCatchesUp
<1>8. ASSUME NEW n \in notified, read(n) PROVE ListenInv'
  <2>1. /\ notified' = notified \ {n} /\ seen' = Put(n, Reading(n), seen)
        /\ UNCHANGED <<supported, dumper, callback, phase>>
    BY <1>8 DEF read, loading
  <2>2. \A m : Reading(m)' = Reading(m)
    BY <2>1 DEF supported, Reading, getMinMaxSupportedValues, getSupportedValuesLists, At
  <2>3. /\ DOMAIN seen' = DOMAIN seen \cup {n} /\ seen'[n] = Reading(n)
        /\ \A m \in DOMAIN seen : m # n => seen'[m] = seen[m]
    BY <2>1 DEF Put
  <2> QED
    BY <2>1, <2>2, <2>3 DEF ListenInv, ListenerCatchesUp
<1>9. CASE \E o \in Lines : dumpSetProperties(o)
  BY <1>1, <1>9 DEF dumpSetProperties, loading
<1>10. CASE \E x \in Values : setValue(x.key, x.value)
  BY <1>1, <1>10 DEF setValue, loading
<1>11. CASE Loads /\ UNCHANGED <<input, hardware, supported, listening>>
  <2>1. phase # "running"
    BY <1>11 DEF Loads, loadPropConfig
  <2> QED
    BY <1>1, <1>11, <2>1
<1>12. CASE UNCHANGED vars
  BY <1>1, <1>12 DEF vars, loading
<1> QED
  BY <1>2, <1>3, <1>4, <1>5, <1>6, <1>7, <1>8, <1>9, <1>10, <1>11, <1>12, NextCases

\* A listener of supported values has read what holds now or is going to:
\* whatever two dump commands change and report in between, no change of
\* dumpSetMinMaxValue and dumpSetSupportedValues is missed.
THEOREM ListenerCorrect ==
    ASSUME NoneIsNothing
    PROVE  Spec => []ListenerCatchesUp
<1> DEFINE Inv == InputInv /\ ListenInv
<1>1. Init => Inv
  BY InputInit, ListenInit
<1>2. Inv /\ [Next]_vars => Inv'
  BY InputStep, ListenStep
<1>3. Inv => ListenerCatchesUp
  BY DEF ListenInv
<1> HIDE DEF Inv
<1> QED
  BY <1>1, <1>2, <1>3, PTL DEF Spec

----------------------------------------------------------------------------
(* Files.                                                                  *)

\* The files, by their place in the order of reading, that declare p.
From(p, s) == {i \in DOMAIN s : Defines(s[i], p)}

\* A declaration is that of the last file that has one.
DeclaredBy(p, d, s) ==
    LET last == Max(From(p, s))
    IN  /\ last \in From(p, s) /\ \A i \in From(p, s) : i =< last
        /\ d = parseJsonConfig(s[last]).v[p]

LoadInv ==
    /\ phase \in {"default", "override", "init", "running", "exited"}
    /\ loaded \in Seq(AllFiles)
    /\ Directory(files)
    /\ \A p \in DOMAIN configsByPropId : DeclaredBy(p, configsByPropId[p], loaded)

\* The files of the override directory come last, and all of them.
OverrideInv ==
    phase \in {"override", "init", "running"} /\ input.useOverride /\ input.override # None =>
        /\ phase = "override" => files \subseteq input.override
        /\ \E n \in 0 .. Len(loaded) :
              /\ \A i \in DOMAIN loaded : i > n => loaded[i] \in input.override
              /\ \A f \in input.override :
                    \/ phase = "override" /\ f \in files
                    \/ \E i \in DOMAIN loaded : i > n /\ loaded[i] = f

LEMMA Appended ==
    ASSUME NEW S, NEW s \in Seq(S), NEW x \in S
    PROVE  /\ Append(s, x) \in Seq(S) /\ Len(Append(s, x)) = Len(s) + 1 /\ Len(s) \in Nat
           /\ DOMAIN s = 1 .. Len(s) /\ DOMAIN Append(s, x) = 1 .. Len(s) + 1
           /\ \A i \in DOMAIN s : Append(s, x)[i] = s[i]
           /\ Append(s, x)[Len(s) + 1] = x
OBVIOUS

LEMMA FromAppend ==
    ASSUME NEW s \in Seq(AllFiles), NEW f \in AllFiles, NEW p
    PROVE  From(p, Append(s, f)) =
               From(p, s) \cup (IF Defines(f, p) THEN {Len(s) + 1} ELSE {})
<1> DEFINE t == Append(s, f)
<1>1. /\ Len(s) \in Nat /\ DOMAIN s = 1 .. Len(s) /\ DOMAIN t = 1 .. Len(s) + 1
      /\ \A i \in DOMAIN s : t[i] = s[i]
      /\ t[Len(s) + 1] = f
  BY Appended
<1> HIDE DEF t
<1>2. \A i : i \in DOMAIN t <=> i \in DOMAIN s \/ i = Len(s) + 1
  BY <1>1
<1>3. \A i : i \in From(p, t) <=> (i \in DOMAIN t /\ Defines(t[i], p))
  BY DEF From
<1>4. \A i : i \in From(p, s) <=> (i \in DOMAIN s /\ Defines(s[i], p))
  BY DEF From
<1>5. Len(s) + 1 \notin DOMAIN s
  BY <1>1
<1>6. \A i : i \in From(p, t) <=> i \in From(p, s) \/ (i = Len(s) + 1 /\ Defines(f, p))
  BY <1>1, <1>2, <1>3, <1>4, <1>5, Zenon
<1>7. From(p, t) = From(p, s) \cup (IF Defines(f, p) THEN {Len(s) + 1} ELSE {})
  BY <1>6
<1> QED
  BY <1>7 DEF t

\* Reading a file makes its declarations the last ones.
LEMMA ReadDeclares ==
    ASSUME NEW s \in Seq(AllFiles), NEW f \in AllFiles, NEW decls, NEW p,
           p \in DOMAIN decls => DeclaredBy(p, decls[p], s),
           NEW new, new = IF f.json /\ parseJsonConfig(f).ok
                          THEN Over(parseJsonConfig(f).v, decls) ELSE decls,
           p \in DOMAIN new
    PROVE  DeclaredBy(p, new[p], Append(s, f))
<1> DEFINE t == Append(s, f)
           n == Len(s) + 1
<1>1. /\ Len(s) \in Nat /\ DOMAIN s = 1 .. Len(s) /\ t[n] = f
      /\ \A i \in DOMAIN s : t[i] = s[i]
  BY Appended
<1>2. From(p, t) = From(p, s) \cup (IF Defines(f, p) THEN {n} ELSE {})
  BY FromAppend
<1>3. From(p, s) \subseteq 1 .. Len(s)
  BY <1>1 DEF From
<1> HIDE DEF t
<1>4. CASE Defines(f, p)
  <2>1. new[p] = parseJsonConfig(f).v[p]
    BY <1>4 DEF Defines, Has, Over
  <2>2. n \in From(p, t) /\ \A i \in From(p, t) : i =< n
    BY <1>1, <1>2, <1>3, <1>4
  <2>3. Max(From(p, t)) = n
    <3>1. From(p, t) \subseteq Nat
      BY <1>1, <1>2, <1>3
    <3> QED
      BY <2>2, <3>1 DEF Max
  <2> QED
    BY <1>1, <2>1, <2>2, <2>3 DEF DeclaredBy, t
<1>5. CASE ~Defines(f, p)
  <2>1. p \in DOMAIN decls /\ new[p] = decls[p]
    BY <1>5 DEF Defines, Has, Over
  <2>2. From(p, t) = From(p, s)
    BY <1>2, <1>5
  <2>3. Max(From(p, s)) \in DOMAIN s
    BY <2>1 DEF DeclaredBy, From
  <2> QED
    BY <1>1, <2>1, <2>2, <2>3 DEF DeclaredBy, t
<1> QED
  BY <1>4, <1>5

LEMMA LoadInit == Init => LoadInv /\ OverrideInv
<1> SUFFICES ASSUME Init PROVE LoadInv /\ OverrideInv
  OBVIOUS
<1>1. phase = "default" /\ loaded = <<>> /\ DOMAIN configsByPropId = {} /\ files = input.default
  BY DEF Init, Nothing
<1>2. Directory(files)
  BY <1>1, InputInit DEF InputInv
<1> QED
  BY <1>1, <1>2 DEF LoadInv, OverrideInv

\* Once the constructor is past the files they stay as they are.
LEMMA LoadingEnds ==
    ASSUME InputInv, LoadInv, [Next]_vars,
           ~Loads, ~loadConfigDeclarations
    PROVE  /\ UNCHANGED <<files, loaded, configsByPropId>>
           /\ \/ UNCHANGED phase \/ phase' = "exited"
              \/ init /\ phase = "init" /\ phase' = "running"
<1>1. CASE init \/ initAborts
  BY <1>1 DEF init, initAborts
<1>2. CASE UNCHANGED loading
  BY <1>2 DEF loading
<1>3. CASE \E t \in Threads : \/ \E o \in Ranges : dumpSetMinMaxValue(t, o)
                              \/ \E o \in Lists : dumpSetSupportedValues(t, o)
                              \/ triggerSupportedValueChange(t)
  BY <1>2, <1>3 DEF dumpSetMinMaxValue, dumpSetSupportedValues, triggerSupportedValueChange
<1>4. CASE \/ registerSupportedValueChangeCallback
           \/ \E n \in notified : read(n)
           \/ \E o \in Lines : dumpSetProperties(o)
           \/ \E x \in Values : setValue(x.key, x.value)
  BY <1>2, <1>4 DEF registerSupportedValueChangeCallback, read, dumpSetProperties, setValue
<1>5. CASE UNCHANGED vars
  BY <1>2, <1>5 DEF vars
<1> QED
  BY <1>1, <1>3, <1>4, <1>5, NextCases

LEMMA LoadStep ==
    ASSUME NoneIsNothing, InputInv, LoadInv, OverrideInv, [Next]_vars
    PROVE  LoadInv' /\ OverrideInv'
<1>0. UNCHANGED <<input.default, input.override, input.useOverride>>
  BY InputStep
<1>00. AllFiles' = AllFiles
  BY DEF AllFiles
<1>1. CASE Loads
  <2>1. PICK f \in files : loadPropConfig(f)
    BY <1>1 DEF Loads
  <2>2. /\ phase \in {"default", "override"} /\ files # None
        /\ files' = files \ {f} /\ loaded' = Append(loaded, f)
        /\ configsByPropId' = IF f.json /\ parseJsonConfig(f).ok
                              THEN Over(parseJsonConfig(f).v, configsByPropId)
                              ELSE configsByPropId
        /\ UNCHANGED phase \/ phase' = "exited"
    BY <2>1 DEF loadPropConfig
  <2>3. f \in AllFiles /\ files \subseteq AllFiles
    BY <2>2 DEF LoadInv, Directory
  <2>4. ASSUME NEW p \in DOMAIN configsByPropId'
        PROVE  DeclaredBy(p, configsByPropId'[p], Append(loaded, f))
    BY <2>2, <2>3, ReadDeclares DEF LoadInv
  <2>5. LoadInv'
    <3>1. Append(loaded, f) \in Seq(AllFiles)
      BY <2>3, Appended DEF LoadInv
    <3>2. \A p \in DOMAIN configsByPropId' : DeclaredBy(p, configsByPropId[p], loaded)'
      BY <2>2, <2>4 DEF DeclaredBy
    <3> QED
      BY <1>00, <2>2, <2>3, <3>1, <3>2 DEF LoadInv, Directory
  <2>6. OverrideInv'
    <3> SUFFICES ASSUME phase = "override", input.useOverride, input.override # None
                 PROVE  OverrideInv'
      BY <1>0, <2>2 DEF OverrideInv
    <3>1. files \subseteq input.override
      BY DEF OverrideInv
    <3>2. PICK n \in 0 .. Len(loaded) :
              /\ \A i \in DOMAIN loaded : i > n => loaded[i] \in input.override
              /\ \A g \in input.override :
                    \/ phase = "override" /\ g \in files
                    \/ \E i \in DOMAIN loaded : i > n /\ loaded[i] = g
      BY DEF OverrideInv
    <3>3. /\ Len(loaded) \in Nat /\ Len(loaded') = Len(loaded) + 1
          /\ DOMAIN loaded = 1 .. Len(loaded) /\ DOMAIN loaded' = 1 .. Len(loaded) + 1
          /\ \A i \in DOMAIN loaded : loaded'[i] = loaded[i]
          /\ loaded'[Len(loaded) + 1] = f
      BY <2>2, <2>3, Appended DEF LoadInv
    <3>4. n \in 0 .. Len(loaded') /\ Len(loaded) + 1 > n
      BY <3>3
    <3>5. ASSUME NEW i \in DOMAIN loaded', i > n PROVE loaded'[i] \in input.override
      BY <2>1, <3>1, <3>2, <3>3, <3>5
    <3>6. ASSUME NEW g \in input.override
          PROVE  g \in files' \/ \E i \in DOMAIN loaded' : i > n /\ loaded'[i] = g
      <4>1. CASE g = f
        BY <3>3, <3>4, <4>1
      <4>2. CASE g # f /\ g \in files
        BY <2>2, <4>2
      <4>3. CASE \E i \in DOMAIN loaded : i > n /\ loaded[i] = g
        BY <3>3, <4>3
      <4> QED
        BY <3>2, <4>1, <4>2, <4>3
    <3> QED
      BY <1>0, <2>2, <3>1, <3>4, <3>5, <3>6 DEF OverrideInv
  <2> QED
    BY <2>5, <2>6
<1>2. CASE loadConfigDeclarations
  <2>1. /\ phase \in {"default", "override"} /\ files \in {{}, None}
        /\ phase' = IF phase = "default" /\ files = None THEN "exited"
                    ELSE IF phase = "default" /\ input.useOverride THEN "override"
                    ELSE "init"
        /\ files' = IF phase' = "override" THEN input.override ELSE {}
        /\ UNCHANGED <<loaded, configsByPropId>>
    BY <1>2 DEF loadConfigDeclarations
  <2>2. LoadInv'
    BY <1>00, <2>1 DEF LoadInv, Directory, InputInv, DeclaredBy
  <2>3. OverrideInv'
    <3>1. Len(loaded) \in Nat /\ DOMAIN loaded = 1 .. Len(loaded)
      BY DEF LoadInv
    <3>2. CASE phase' = "override"
      <4>1. files' = input.override /\ Len(loaded) \in 0 .. Len(loaded)
        BY <2>1, <3>1, <3>2
      <4>2. \A i \in DOMAIN loaded : ~(i > Len(loaded))
        BY <3>1
      <4> QED
        BY <1>0, <2>1, <3>2, <4>1, <4>2 DEF OverrideInv
    <3>3. CASE phase = "override" /\ input.useOverride /\ input.override # None
      <4>1. files \subseteq input.override /\ input.override \subseteq AllFiles
        BY <3>3 DEF OverrideInv, InputInv, Directory
      <4>2. files # None
        BY <4>1 DEF NoneIsNothing
      <4>3. files = {}
        BY <2>1, <4>2
      <4> QED
        BY <1>0, <2>1, <3>3, <4>3 DEF OverrideInv
    <3> QED
      BY <1>0, <2>1, <3>2, <3>3 DEF OverrideInv
  <2> QED
    BY <2>2, <2>3
<1>3. CASE ~Loads /\ ~loadConfigDeclarations
  <2>1. /\ UNCHANGED <<files, loaded, configsByPropId>>
        /\ \/ UNCHANGED phase \/ phase' = "exited"
           \/ init /\ phase = "init" /\ phase' = "running"
    BY <1>3, LoadingEnds
  <2>2. LoadInv'
    BY <1>00, <2>1 DEF LoadInv, Directory, DeclaredBy
  <2>3. OverrideInv'
    BY <1>0, <2>1 DEF OverrideInv
  <2> QED
    BY <2>2, <2>3
<1> QED
  BY <1>1, <1>2, <1>3

LEMMA ParsedFile ==
    ASSUME NEW f
    PROVE  /\ parseJsonConfig(f).ok <=> readable(f) /\ declarations(f).all
           /\ parseJsonConfig(f).ok => parseJsonConfig(f).v = declarations(f).v
BY DEF parseJsonConfig, Good, Bad

LEMMA LastGoodFile ==
    ASSUME InputInv, LoadInv, OverrideInv
    PROVE  LastGoodFileWins
<1> SUFFICES ASSUME NEW p \in DOMAIN configsByPropId
             PROVE  LET from == {i \in DOMAIN loaded :
                                   /\ loaded[i].json /\ readable(loaded[i])
                                   /\ declarations(loaded[i]).all
                                   /\ p \in DOMAIN declarations(loaded[i]).v}
                    IN  /\ from # {}
                        /\ configsByPropId[p] = declarations(loaded[Max(from)]).v[p]
                        /\ input.useOverride /\ phase = "running" /\ input.override # None
                           /\ (\E i \in from : loaded[i] \in input.override)
                           => loaded[Max(from)] \in input.override
  BY DEF LastGoodFileWins
<1> DEFINE from == {i \in DOMAIN loaded :
                      /\ loaded[i].json /\ readable(loaded[i]) /\ declarations(loaded[i]).all
                      /\ p \in DOMAIN declarations(loaded[i]).v}
           last == Max(from)
<1>1. from = From(p, loaded)
  BY ParsedFile DEF From, Defines, Has
<1>2. /\ last \in from /\ \A i \in from : i =< last
      /\ configsByPropId[p] = parseJsonConfig(loaded[last]).v[p]
  BY <1>1 DEF LoadInv, DeclaredBy
<1>3. configsByPropId[p] = declarations(loaded[last]).v[p]
  BY <1>2, ParsedFile
<1>4. ASSUME input.useOverride, phase = "running", input.override # None,
             NEW i \in from, loaded[i] \in input.override
      PROVE  loaded[last] \in input.override
  <2>1. PICK n \in 0 .. Len(loaded) :
            /\ \A j \in DOMAIN loaded : j > n => loaded[j] \in input.override
            /\ \A g \in input.override : \E j \in DOMAIN loaded : j > n /\ loaded[j] = g
    BY <1>4 DEF OverrideInv
  <2>2. PICK j \in DOMAIN loaded : j > n /\ loaded[j] = loaded[i]
    BY <1>4, <2>1
  <2>3. j \in from
    BY <2>2
  <2>4. DOMAIN loaded = 1 .. Len(loaded) /\ Len(loaded) \in Nat
    BY DEF LoadInv
  <2>5. last \in DOMAIN loaded /\ j =< last
    BY <1>2, <2>3
  <2>6. last > n
    BY <2>2, <2>4, <2>5
  <2> QED
    BY <2>1, <2>5, <2>6
<1> HIDE DEF from, last
<1>5. from # {}
  BY <1>2
<1>6. /\ from # {} /\ configsByPropId[p] = declarations(loaded[last]).v[p]
      /\ input.useOverride /\ phase = "running" /\ input.override # None
         /\ (\E i \in from : loaded[i] \in input.override)
         => loaded[last] \in input.override
  BY <1>3, <1>4, <1>5
<1> QED
  BY <1>6 DEF last, from

----------------------------------------------------------------------------
(* What a file declares.                                                   *)

LEMMA LeastIsThere ==
    ASSUME NEW S \in SUBSET Nat, S # {}
    PROVE  \E x \in S : \A y \in S : x =< y
<1>1. PICK x \in S : \A y \in S : ~(<<y, x>> \in OpToRel(<, Nat))
  BY NatLessThanWellFounded, WFMin
<1>2. ASSUME NEW y \in S PROVE x =< y
  <2>1. ~(y < x)
    BY <1>1 DEF OpToRel
  <2> QED
    BY <2>1
<1> QED
  BY <1>2

LEMMA MaxIsThere ==
    ASSUME NEW n \in Nat, NEW S \in SUBSET (1 .. n), S # {}
    PROVE  Max(S) \in S
<1> DEFINE T == {n - x : x \in S}
<1>1. T \in SUBSET Nat /\ T # {}
  OBVIOUS
<1>2. PICK t \in T : \A u \in T : t =< u
  BY <1>1, LeastIsThere
<1>3. PICK x \in S : t = n - x
  OBVIOUS
<1>4. ASSUME NEW y \in S PROVE x >= y
  <2>1. x \in 1 .. n /\ y \in 1 .. n /\ n - y \in T
    OBVIOUS
  <2>2. n - x =< n - y
    BY <1>2, <1>3, <2>1
  <2> QED
    BY <2>1, <2>2
<1>5. \E z \in S : \A y \in S : z >= y
  BY <1>4
<1> QED
  BY <1>5 DEF Max

\* A node without an error declares the property its "property" names.
LEMMA PropOfNode ==
    ASSUME NEW n, parseEachProperty(n).ok
    PROVE  parseEachProperty(n).v.prop = IdOf(n)
<1>1. CASE tryParse(<<n>>, "property", "int32", FALSE, 0).ok
  BY <1>1 DEF parseEachProperty, IdOf
<1>2. CASE ~tryParse(<<n>>, "property", "int32", FALSE, 0).ok
  BY <1>2 DEF parseEachProperty, Bad
<1> QED
  BY <1>1, <1>2

\* The declaration of p in a good file is what the last node of p says.
LEMMA NodeDeclares ==
    ASSUME NEW f \in AllFiles, parseJsonConfig(f).ok, NEW p \in DOMAIN parseJsonConfig(f).v
    PROVE  LET nodes == f.root.v["properties"].v
               node == LastNode(nodes, p)
           IN  /\ \E i \in DOMAIN nodes : node = nodes[i]
               /\ parseEachProperty(node).ok
               /\ parseJsonConfig(f).v[p] = parseEachProperty(node).v
               /\ parseEachProperty(node).v.prop = p
<1> DEFINE nodes == f.root.v["properties"].v
           results == [i \in DOMAIN nodes |-> parseEachProperty(nodes[i])]
           good == {i \in DOMAIN results : results[i].ok}
           own == {j \in DOMAIN nodes : parseEachProperty(nodes[j]).v.prop = p}
           m == Max(own)
           decls == collect(results)
<1>1. readable(f) /\ decls.all /\ parseJsonConfig(f).v = decls.v
  BY ParsedFile DEF declarations
<1>2. IsArray(nodes)
  BY <1>1, FilesKnown
<1>3. DOMAIN results = DOMAIN nodes /\ \A i \in DOMAIN nodes : results[i] = parseEachProperty(nodes[i])
  OBVIOUS
<1> HIDE DEF results, nodes
<1>4. /\ good = DOMAIN nodes
      /\ decls.v = [id \in {results[i].v.prop : i \in good} |->
                       results[Max({i \in good : results[i].v.prop = id})].v]
  BY <1>1, <1>3 DEF collect
<1>5. p \in {results[i].v.prop : i \in good}
  BY <1>1, <1>4
<1>6. own # {}
  BY <1>3, <1>4, <1>5
<1>7. m \in own
  <2>1. own \subseteq 1 .. Len(nodes) /\ Len(nodes) \in Nat
    BY <1>2 DEF IsArray
  <2> HIDE DEF own
  <2> QED
    BY <1>6, <2>1, MaxIsThere
<1>8. {i \in good : results[i].v.prop = p} = own
  BY <1>3, <1>4
<1>9. decls.v[p] = results[m].v
  BY <1>4, <1>5, <1>8
<1>10. LastNode(nodes, p) = nodes[m]
  <2>1. \A j \in DOMAIN nodes : parseEachProperty(nodes[j]).ok
    BY <1>3, <1>4
  <2>2. \A j \in DOMAIN nodes : parseEachProperty(nodes[j]).v.prop = IdOf(nodes[j])
    BY <2>1, PropOfNode
  <2>3. {j \in DOMAIN nodes : IdOf(nodes[j]) = p} = own
    BY <2>2
  <2> QED
    BY <2>3 DEF LastNode
<1>11. /\ m \in DOMAIN nodes /\ parseEachProperty(nodes[m]).v.prop = p
       /\ results[m] = parseEachProperty(nodes[m]) /\ results[m].ok
  BY <1>3, <1>4, <1>7
<1> HIDE DEF m
<1>12. /\ \E i \in DOMAIN nodes : LastNode(nodes, p) = nodes[i]
       /\ parseEachProperty(LastNode(nodes, p)).ok
       /\ parseJsonConfig(f).v[p] = parseEachProperty(LastNode(nodes, p)).v
       /\ parseEachProperty(LastNode(nodes, p)).v.prop = p
  BY <1>1, <1>9, <1>10, <1>11
<1> QED
  BY <1>12 DEF nodes

LEMMA OneOf ==
    ASSUME NEW n, NEW f, NEW T, NEW optional, NEW old
    PROVE  tryParse(<<n>>, f, T, optional, old) =
               IF isObject(n) /\ ~isMember(n, f) THEN [ok |-> optional, v |-> old]
               ELSE parseField(n, f, T, old)
<1> DEFINE with == {i \in DOMAIN <<n>> : ~isObject(<<n>>[i]) \/ isMember(<<n>>[i], f)}
<1>1. DOMAIN <<n>> = {1} /\ <<n>>[1] = n
  OBVIOUS
<1>2. CASE isObject(n) /\ ~isMember(n, f)
  BY <1>1, <1>2 DEF tryParse
<1>3. CASE ~(isObject(n) /\ ~isMember(n, f))
  <2>1. with = {1}
    BY <1>1, <1>3
  <2>2. Min({1}) = 1
    BY DEF Min
  <2> QED
    BY <1>1, <1>3, <2>1, <2>2 DEF tryParse
<1> QED
  BY <1>2, <1>3

LEMMA EmptyArray ==
    ASSUME NEW s, IsArray(s)
    PROVE  DOMAIN s = 1 .. Len(s) /\ Len(s) \in Nat /\ (s = <<>> <=> DOMAIN s = {})
<1>1. DOMAIN s = 1 .. Len(s) /\ Len(s) \in Nat /\ s = [i \in 1 .. Len(s) |-> s[i]]
  BY DEF IsArray
<1>2. ASSUME DOMAIN s = {} PROVE s = <<>>
  <2>1. Len(s) = 0
    BY <1>1, <1>2
  <2>2. s \in Seq({s[i] : i \in DOMAIN s})
    BY <1>1
  <2> QED
    BY <2>1, <2>2
<1> QED
  BY <1>1, <1>2

\* What a property's node says, where it is free of errors.
LEMMA PropertyNode ==
    ASSUME NEW n, parseEachProperty(n).ok,
           isObject(n) /\ isMember(n, "areas") /\ n.v["areas"].k = "array"
              => IsArray(n.v["areas"].v)
    PROVE  LET d == parseEachProperty(n).v
               nodes == AreaNodesOf(n)
           IN  /\ isObject(n) /\ IsArray(nodes)
               /\ DOMAIN d = {"prop", "access", "changeMode", "configString", "configArray",
                              "minSampleRate", "maxSampleRate", "initialValue", "areaConfigs"}
               /\ d.initialValue = IF DefaultOf(n) = None THEN RawPropValues ELSE DefaultOf(n)
               /\ nodes = <<>> => d.areaConfigs = <<globalArea(d.access)>>
               /\ nodes # <<>> =>
                     /\ DOMAIN d.areaConfigs = DOMAIN nodes
                     /\ \A i \in DOMAIN nodes :
                           LET r == parseArea(nodes[i], n, d.access, d.initialValue)
                           IN  r.ok /\ d.areaConfigs[i] = r.v
<1> DEFINE id == tryParse(<<n>>, "property", "int32", FALSE, 0)
           default(table) == IF id.v \in DOMAIN table THEN table[id.v] ELSE None
           access == parseAccessChangeMode(n, "access", default(DefaultAccessForVehicleProperty))
           mode == parseAccessChangeMode(n, "changeMode", default(ChangeModeForVehicleProperty))
           configString == tryParse(<<n>>, "configString", "string", TRUE, "")
           configArray == tryParse(<<n>>, "configArray", "int32s", TRUE, <<>>)
           value == parsePropValues(n, "defaultValue")
           minRate == tryParse(<<n>>, "minSampleRate", "float", TRUE, 0)
           maxRate == tryParse(<<n>>, "maxSampleRate", "float", TRUE, 0)
           initialValue == IF value.v = None THEN RawPropValues ELSE value.v
           areas == parseAreas(n, access.v, initialValue)
           nodes == AreaNodesOf(n)
           d == [prop |-> id.v, access |-> access.v, changeMode |-> mode.v,
                 configString |-> configString.v, configArray |-> configArray.v,
                 minSampleRate |-> minRate.v, maxSampleRate |-> maxRate.v,
                 initialValue |-> initialValue,
                 areaConfigs |-> areaConfigsOf(areas.v, access.v)]
<1>1. parseEachProperty(n) =
         IF ~id.ok THEN Bad(None)
         ELSE [ok |-> /\ access.ok /\ mode.ok /\ configString.ok /\ configArray.ok
                      /\ value.ok /\ minRate.ok /\ maxRate.ok /\ areas.ok,
               v |-> d]
  BY DEF parseEachProperty
<1>2. /\ DOMAIN d = {"prop", "access", "changeMode", "configString", "configArray",
                     "minSampleRate", "maxSampleRate", "initialValue", "areaConfigs"}
      /\ d.initialValue = initialValue /\ d.access = access.v
      /\ d.areaConfigs = areaConfigsOf(areas.v, access.v)
  OBVIOUS
<1>3. id.ok => isObject(n)
  <2>1. id = IF isObject(n) /\ ~isMember(n, "property") THEN [ok |-> FALSE, v |-> 0]
             ELSE parseField(n, "property", "int32", 0)
    BY OneOf
  <2> HIDE DEF id
  <2> SUFFICES ASSUME ~isObject(n) PROVE ~id.ok
    OBVIOUS
  <2>2. id = [ok |-> FALSE, v |-> 0]
    BY <2>1 DEF parseField, Bad
  <2> QED
    BY <2>2
<1>4. value.v = DefaultOf(n)
  BY DEF DefaultOf, parsePropValues, Good
<1>5. areas = IF ~isMember(n, "areas") THEN Good(<<>>)
              ELSE IF n.v["areas"].k # "array" THEN Bad(<<>>)
              ELSE All([i \in DOMAIN n.v["areas"].v |->
                           parseArea(n.v["areas"].v[i], n, access.v, initialValue)])
  BY DEF parseAreas
<1> HIDE DEF id, access, mode, configString, configArray, value, minRate, maxRate,
             initialValue, areas, d
<1>6. id.ok /\ areas.ok /\ parseEachProperty(n).v = d
  BY <1>1 DEF Bad
<1>7. isMember(n, "areas") => n.v["areas"].k = "array"
  BY <1>5, <1>6 DEF Bad
<1>8. IsArray(nodes)
  <2>1. IsArray(<<>>)
    BY DEF IsArray
  <2> QED
    BY <1>3, <1>6, <1>7, <2>1 DEF AreaNodesOf
<1>9. /\ DOMAIN areas.v = DOMAIN nodes
      /\ \A i \in DOMAIN nodes :
            LET r == parseArea(nodes[i], n, access.v, initialValue)
            IN  r.ok /\ areas.v[i] = r.v
      /\ nodes = <<>> => areas.v = <<>>
  <2>1. CASE ~isMember(n, "areas")
    BY <1>5, <2>1 DEF AreaNodesOf, Good
  <2>2. CASE isMember(n, "areas")
    <3>0. nodes = n.v["areas"].v
      BY <2>2 DEF AreaNodesOf
    <3> DEFINE results == [i \in DOMAIN nodes |-> parseArea(nodes[i], n, access.v, initialValue)]
    <3>1. areas = All(results)
      BY <1>5, <1>7, <2>2, <3>0
    <3>2. /\ DOMAIN results = DOMAIN nodes
          /\ \A i \in DOMAIN nodes : results[i] = parseArea(nodes[i], n, access.v, initialValue)
      OBVIOUS
    <3> HIDE DEF results, nodes
    <3>3. /\ DOMAIN areas.v = DOMAIN nodes
          /\ \A i \in DOMAIN nodes : results[i].ok /\ areas.v[i] = results[i].v
          /\ areas.v = [i \in DOMAIN nodes |-> results[i].v]
      BY <1>6, <3>1, <3>2 DEF All
    <3>4. nodes = <<>> => areas.v = <<>>
      <4> SUFFICES ASSUME nodes = <<>> PROVE areas.v = <<>>
        OBVIOUS
      <4>1. areas.v = [i \in {} |-> results[i].v]
        BY <3>3
      <4> QED
        BY <4>1
    <3> QED
      BY <3>2, <3>3, <3>4
  <2> QED
    BY <2>1, <2>2
<1>10. nodes # <<>> => areas.v # <<>>
  BY <1>8, <1>9, EmptyArray
<1> HIDE DEF nodes
<1>11. /\ isObject(n) /\ IsArray(nodes) /\ d.access = access.v
       /\ d.initialValue = IF DefaultOf(n) = None THEN RawPropValues ELSE DefaultOf(n)
       /\ nodes = <<>> => d.areaConfigs = <<globalArea(access.v)>>
       /\ nodes # <<>> => d.areaConfigs = areas.v
  BY <1>2, <1>3, <1>4, <1>6, <1>8, <1>9, <1>10 DEF areaConfigsOf, initialValue
<1>12. nodes # <<>> =>
         /\ DOMAIN d.areaConfigs = DOMAIN nodes
         /\ \A i \in DOMAIN nodes :
               LET r == parseArea(nodes[i], n, d.access, d.initialValue)
               IN  r.ok /\ d.areaConfigs[i] = r.v
  BY <1>2, <1>9, <1>11
<1> QED
  BY <1>2, <1>6, <1>11, <1>12 DEF nodes

LEMMA TwoOf ==
    ASSUME NEW a, NEW p, NEW f, NEW T, isObject(a), isObject(p)
    PROVE  tryParse(<<a, p>>, f, T, TRUE, 0) =
               IF isMember(a, f) THEN parseField(a, f, T, 0)
               ELSE IF isMember(p, f) THEN parseField(p, f, T, 0)
               ELSE [ok |-> TRUE, v |-> 0]
<1> DEFINE with == {i \in DOMAIN <<a, p>> : ~isObject(<<a, p>>[i]) \/ isMember(<<a, p>>[i], f)}
<1>1. DOMAIN <<a, p>> = {1, 2} /\ <<a, p>>[1] = a /\ <<a, p>>[2] = p
  OBVIOUS
<1>2. Min({1}) = 1 /\ Min({2}) = 2 /\ Min({1, 2}) = 1
  BY DEF Min
<1>3. CASE isMember(a, f)
  <2>1. with = {1} \/ with = {1, 2}
    BY <1>1, <1>3
  <2>2. with # {} /\ Min(with) = 1
    BY <1>2, <2>1
  <2> QED
    BY <1>1, <1>3, <2>2 DEF tryParse
<1>4. CASE ~isMember(a, f) /\ isMember(p, f)
  <2>1. with = {2}
    BY <1>1, <1>4
  <2>2. with # {} /\ Min(with) = 2
    BY <1>2, <2>1
  <2> QED
    BY <1>1, <1>4, <2>2 DEF tryParse
<1>5. CASE ~isMember(a, f) /\ ~isMember(p, f)
  <2>1. with = {}
    BY <1>1, <1>5
  <2> QED
    BY <1>5, <2>1 DEF tryParse
<1> QED
  BY <1>3, <1>4, <1>5

\* A number that is read is the number that is written, or that its name means.
LEMMA NumberOf ==
    ASSUME NEW n, NEW f \in LimitFields, isObject(n), isMember(n, f),
           parseField(n, f, AreaFields[f].type, 0).ok
    PROVE  parseField(n, f, AreaFields[f].type, 0).v = Member(n, f)
<1> DEFINE j == n.v[f]
           c == j.v
           T == AreaFields[f].type
           float == f \in {"minFloatValue", "maxFloatValue"}
<1>0. T \in {"int32", "int64", "float"} /\ (T = "float" <=> float)
  BY DEF AreaFields, LimitFields
<1> HIDE DEF T
<1>1. parseField(n, f, T, 0) = parseValue(T, j, 0)
  BY <1>0 DEF parseField, ElementOf
<1>2. CASE j.k = "const"
  <2>1. parseValue(T, j, 0) = parseConstantValue(T, c, 0)
    BY <1>0, <1>2 DEF parseValue, Accepted
  <2> DEFINE x == mConstantParsersByType[c[1]][c[2]]
  <2>2. parseConstantValue(T, c, 0).ok
    BY <1>1, <2>1 DEF T
  <2>3. /\ c[1] \in DOMAIN mConstantParsersByType
        /\ c[2] \in DOMAIN mConstantParsersByType[c[1]]
    BY <2>2 DEF parseConstantValue, Bad
  <2>4. parseConstantValue(T, c, 0).v = IF T = "float" THEN 2 * x ELSE x
    BY <1>0, <2>3 DEF parseConstantValue, Good
  <2>5. Member(n, f) = IF float THEN 2 * x ELSE x
    BY <1>2 DEF Member
  <2> QED
    BY <1>0, <1>1, <2>1, <2>4, <2>5 DEF T
<1>3. CASE j.k # "const"
  <2>1. parseValue(T, j, 0).ok
    BY <1>1 DEF T
  <2>2. parseValue(T, j, 0) = convertValueToType(T, j, 0)
    BY <1>0, <1>3, <2>1 DEF parseValue, Accepted, Bad
  <2>3. j.k \in Accepted[T]
    BY <2>1, <2>2 DEF convertValueToType, Bad
  <2>4. convertValueToType(T, j, 0).v = IF T = "float" /\ j.k # "real" THEN 2 * c ELSE c
    BY <2>3 DEF convertValueToType, Good
  <2>5. j.k = "real" => T = "float"
    BY <1>0, <2>3 DEF Accepted
  <2>6. Member(n, f) = IF j.k = "real" THEN c ELSE IF float THEN 2 * c ELSE c
    BY <1>3 DEF Member
  <2> QED
    BY <1>0, <1>1, <2>2, <2>4, <2>5, <2>6 DEF T
<1> QED
  BY <1>2, <1>3

\* A flag that is read is what its field says.
LEMMA TruthOf ==
    ASSUME NEW n, NEW f, tryParse(<<n>>, f, "bool", TRUE, FALSE).ok
    PROVE  tryParse(<<n>>, f, "bool", TRUE, FALSE).v <=> Truth(n, f)
<1> DEFINE r == tryParse(<<n>>, f, "bool", TRUE, FALSE)
           j == n.v[f]
           c == j.v
<1>1. r = IF isObject(n) /\ ~isMember(n, f) THEN [ok |-> TRUE, v |-> FALSE]
          ELSE parseField(n, f, "bool", FALSE)
  BY OneOf
<1>2. CASE isObject(n) /\ ~isMember(n, f)
  <2>1. r = [ok |-> TRUE, v |-> FALSE]
    BY <1>1, <1>2
  <2> HIDE DEF r
  <2>2. ~r.v
    BY <2>1
  <2>3. ~Truth(n, f)
    BY <1>2 DEF Truth
  <2> QED
    BY <2>2, <2>3 DEF r
<1>3. CASE ~(isObject(n) /\ ~isMember(n, f))
  <2>1. r = parseField(n, f, "bool", FALSE)
    BY <1>1, <1>3
  <2>0. r.ok
    OBVIOUS
  <2> HIDE DEF r
  <2>2. isObject(n)
    <3> SUFFICES ASSUME ~isObject(n) PROVE FALSE
      OBVIOUS
    <3>1. r = [ok |-> FALSE, v |-> FALSE]
      BY <2>1 DEF parseField, Bad
    <3> QED
      BY <2>0, <3>1
  <2>3. isMember(n, f) /\ r = parseValue("bool", j, FALSE)
    BY <1>3, <2>1, <2>2 DEF parseField, ElementOf
  <2>4. r.ok
    BY DEF r
  <2>5. CASE j.k = "const"
    <3> DEFINE x == mConstantParsersByType[c[1]][c[2]]
    <3>1. r = parseConstantValue("bool", c, FALSE)
      BY <2>3, <2>5 DEF parseValue, Accepted
    <3>2. c[1] \in DOMAIN mConstantParsersByType /\ c[2] \in DOMAIN mConstantParsersByType[c[1]]
      BY <2>4, <3>1 DEF parseConstantValue, Bad
    <3>3. parseConstantValue("bool", c, FALSE) = Good(x # 0)
      BY <3>2 DEF parseConstantValue
    <3>4. r.v <=> x # 0
      <4> DEFINE y == x # 0
      <4>1. r = [ok |-> TRUE, v |-> y]
        BY <3>1, <3>3 DEF Good
      <4> HIDE DEF y
      <4>2. r.v = y
        BY <4>1
      <4> QED
        BY <4>2 DEF y
    <3>5. Truth(n, f) <=> x # 0
      BY <2>3, <2>5 DEF Truth
    <3> QED
      BY <3>4, <3>5 DEF r
  <2>6. CASE j.k # "const"
    <3>1. r = convertValueToType("bool", j, FALSE)
      BY <2>3, <2>4, <2>6 DEF parseValue, Accepted, Bad
    <3>2. r = Good(c)
      BY <2>4, <3>1 DEF convertValueToType, Accepted, Bad
    <3>3. r.v = c
      BY <3>2 DEF Good
    <3>4. Truth(n, f) <=> c
      BY <2>3, <2>6 DEF Truth
    <3> QED
      BY <3>3, <3>4 DEF r
  <2> QED
    BY <2>5, <2>6
<1> QED
  BY <1>2, <1>3

LEMMA AllAre ==
    ASSUME NEW results, All(results).ok, NEW i \in DOMAIN results
    PROVE  /\ results[i].ok /\ All(results).v[i] = results[i].v
           /\ DOMAIN All(results).v = DOMAIN results
<1> DEFINE each == \A x \in DOMAIN results : results[x].ok
           vs == [x \in DOMAIN results |-> results[x].v]
           r == All(results)
<1>1. r = [ok |-> each, v |-> vs]
  BY DEF All
<1>2. r.ok
  OBVIOUS
<1>3. vs[i] = results[i].v /\ DOMAIN vs = DOMAIN results
  OBVIOUS
<1> HIDE DEF each, vs, r
<1>4. r.ok = each /\ r.v = vs
  BY <1>1
<1>5. results[i].ok
  BY <1>2, <1>4 DEF each
<1> QED
  BY <1>3, <1>4, <1>5 DEF r

\* The information of an area has a flag exactly if the node that gives it does.
LEMMA FlagIs ==
    ASSUME NoneIsNothing, NEW a, NEW p, parseSupportedValueInfo(a, p).ok, NEW flag \in InfoFields
    PROVE  LET v == parseSupportedValueInfo(a, p).v
           IN  (v # None /\ v[flag]) <=> FlagOf(a, p, flag)
<1> DEFINE from(n) == All([f \in InfoFields |->
                             tryParse(<<n.v["hasSupportedValueInfo"]>>, f, "bool", TRUE, FALSE)])
           info == parseSupportedValueInfo(a, p)
<1>1. info = IF isMember(a, "hasSupportedValueInfo") THEN from(a)
             ELSE IF isMember(p, "hasSupportedValueInfo") THEN from(p)
             ELSE Good(None)
  BY DEF parseSupportedValueInfo
<1>2. ASSUME NEW n, from(n).ok
      PROVE  from(n).v # None /\ (from(n).v[flag] <=> Truth(n.v["hasSupportedValueInfo"], flag))
  <2> DEFINE r(f) == tryParse(<<n.v["hasSupportedValueInfo"]>>, f, "bool", TRUE, FALSE)
             results == [f \in InfoFields |-> r(f)]
  <2>0. "hasMinSupportedValue" \in InfoFields
    BY DEF InfoFields
  <2>1. DOMAIN results = InfoFields /\ results[flag] = r(flag)
    OBVIOUS
  <2>2. from(n) = All(results) /\ All(results).ok
    BY <1>2
  <2> HIDE DEF results, from, r
  <2>3. /\ results[flag].ok /\ All(results).v[flag] = results[flag].v
        /\ DOMAIN All(results).v = InfoFields
    BY <2>1, <2>2, AllAre
  <2>4. DOMAIN from(n).v = InfoFields /\ from(n).v[flag] = results[flag].v
    BY <2>2, <2>3
  <2>5. from(n).v # None
    BY <2>0, <2>4 DEF NoneIsNothing
  <2>6. r(flag).v <=> Truth(n.v["hasSupportedValueInfo"], flag)
    BY <2>1, <2>3, TruthOf DEF r
  <2> QED
    BY <2>1, <2>4, <2>5, <2>6
<1> HIDE DEF from, info
<1>3. info.ok
  BY DEF info
<1>4. CASE isMember(a, "hasSupportedValueInfo")
  <2>1. info = from(a)
    BY <1>1, <1>4
  <2>2. info.v # None /\ (info.v[flag] <=> Truth(a.v["hasSupportedValueInfo"], flag))
    BY <1>2, <1>3, <2>1
  <2>3. FlagOf(a, p, flag) <=> Truth(a.v["hasSupportedValueInfo"], flag)
    BY <1>4 DEF FlagOf
  <2> QED
    BY <2>2, <2>3 DEF info
<1>5. CASE ~isMember(a, "hasSupportedValueInfo") /\ isMember(p, "hasSupportedValueInfo")
  <2>1. info = from(p)
    BY <1>1, <1>5
  <2>2. info.v # None /\ (info.v[flag] <=> Truth(p.v["hasSupportedValueInfo"], flag))
    BY <1>2, <1>3, <2>1
  <2>3. FlagOf(a, p, flag) <=> Truth(p.v["hasSupportedValueInfo"], flag)
    BY <1>5 DEF FlagOf
  <2> QED
    BY <2>2, <2>3 DEF info
<1>6. CASE ~isMember(a, "hasSupportedValueInfo") /\ ~isMember(p, "hasSupportedValueInfo")
  <2>1. info.v = None
    BY <1>1, <1>6 DEF Good
  <2>2. ~FlagOf(a, p, flag)
    BY <1>6 DEF FlagOf
  <2> QED
    BY <2>1, <2>2 DEF info
<1> QED
  BY <1>4, <1>5, <1>6

\* What an area's configuration says of its flags.
Flagged(area, flag) == area.hasSupportedValueInfo # None /\ area.hasSupportedValueInfo[flag]

\* What an element of "areas" says, where it is free of errors.
LEMMA AreaNode ==
    ASSUME NoneIsNothing, NEW a, NEW p, isObject(p), NEW access, NEW initial,
           parseArea(a, p, access, initial).ok,
           \A l \in LimitFields : parseArea(a, p, access, initial).v.fields[l] \in Int
    PROVE  LET v == parseArea(a, p, access, initial).v
           IN  /\ "areaId" \in DOMAIN v
               /\ \A f \in LimitFields : v.fields[f] = LimitOf(a, p, f)
               /\ \A f \in InfoFields : Flagged(v, f) <=> FlagOf(a, p, f)
               /\ v.initial = IF DefaultOf(a) # None THEN DefaultOf(a)
                              ELSE IF initial # RawPropValues THEN initial ELSE None
<1> DEFINE id == tryParse(<<a>>, "areaId", "int32", FALSE, 0)
           acc == parseAccessChangeMode(a, "access", access)
           fields == parseAreaFields(a, p)
           info == parseSupportedValueInfo(a, p)
           own == parsePropValues(a, "defaultValue")
           v == [areaId |-> id.v, access |-> acc.v, fields |-> fields.v,
                 hasSupportedValueInfo |-> info.v,
                 initial |-> IF own.v # None THEN own.v
                             ELSE IF initial # RawPropValues THEN initial ELSE None]
<1>1. parseArea(a, p, access, initial) =
         IF ~id.ok THEN Bad(None)
         ELSE [ok |-> acc.ok /\ info.ok /\ own.ok /\ fields.ok, v |-> v]
  BY DEF parseArea
<1>2. /\ "areaId" \in DOMAIN v /\ v.fields = fields.v /\ v.hasSupportedValueInfo = info.v
      /\ v.initial = IF own.v # None THEN own.v
                     ELSE IF initial # RawPropValues THEN initial ELSE None
  OBVIOUS
<1>3. id.ok => isObject(a)
  <2>1. id = IF isObject(a) /\ ~isMember(a, "areaId") THEN [ok |-> FALSE, v |-> 0]
             ELSE parseField(a, "areaId", "int32", 0)
    BY OneOf
  <2> HIDE DEF id
  <2> SUFFICES ASSUME ~isObject(a) PROVE ~id.ok
    OBVIOUS
  <2>2. id = [ok |-> FALSE, v |-> 0]
    BY <2>1 DEF parseField, Bad
  <2> QED
    BY <2>2
<1>4. own.v = DefaultOf(a)
  BY DEF DefaultOf, parsePropValues, Good
<1> HIDE DEF id, acc, info, own, fields, v
<1>5. id.ok /\ fields.ok /\ info.ok /\ parseArea(a, p, access, initial).v = v
  <2> DEFINE r == parseArea(a, p, access, initial)
             all == acc.ok /\ info.ok /\ own.ok /\ fields.ok
  <2>1. r.ok /\ r = IF ~id.ok THEN [ok |-> FALSE, v |-> None] ELSE [ok |-> all, v |-> v]
    BY <1>1 DEF Bad
  <2> HIDE DEF r
  <2>2. CASE ~id.ok
    BY <2>1, <2>2
  <2>3. CASE id.ok
    <3>1. r = [ok |-> all, v |-> v]
      BY <2>1, <2>3
    <3> HIDE DEF all
    <3>2. r.ok = all /\ r.v = v
      BY <3>1
    <3>3. all
      BY <2>1, <3>2
    <3> QED
      BY <2>3, <3>2, <3>3 DEF all, r
  <2> QED
    BY <2>2, <2>3
<1>6. ASSUME NEW f \in LimitFields
      PROVE  v.fields[f] = LimitOf(a, p, f)
  <2> DEFINE results == [g \in DOMAIN AreaFields |->
                           tryParse(<<a, p>>, g, AreaFields[g].type, TRUE, AreaFields[g].old)]
             T == AreaFields[f].type
             r == tryParse(<<a, p>>, f, T, TRUE, 0)
  <2>1. f \in DOMAIN AreaFields /\ AreaFields[f].old = 0
    BY DEF AreaFields, LimitFields
  <2>2. fields = All(results)
    BY DEF fields, parseAreaFields
  <2>3. f \in DOMAIN results /\ results[f] = r
    BY <2>1
  <2> HIDE DEF results
  <2>4. r.ok /\ fields.v[f] = r.v
    BY <1>5, <2>2, <2>3 DEF All
  <2>5. r = IF isMember(a, f) THEN parseField(a, f, T, 0)
            ELSE IF isMember(p, f) THEN parseField(p, f, T, 0)
            ELSE [ok |-> TRUE, v |-> 0]
    <3>1. isObject(a)
      BY <1>3, <1>5
    <3> HIDE DEF T
    <3> QED
      BY <3>1, TwoOf
  <2> HIDE DEF r
  <2>6. v.fields[f] = r.v /\ r.v \in Int
    BY <1>2, <1>5, <2>1, <2>4
  <2>7. r.v # None
    BY <2>6 DEF NoneIsNothing
  <2>8. CASE isMember(a, f)
    <3>1. r.v = Member(a, f)
      BY <1>3, <1>5, <2>4, <2>5, <2>8, NumberOf
    <3> QED
      BY <2>6, <2>7, <3>1 DEF LimitOf
  <2>9. CASE ~isMember(a, f) /\ isMember(p, f)
    <3>1. r.v = Member(p, f) /\ Member(a, f) = None
      BY <2>4, <2>5, <2>9, NumberOf DEF Member
    <3> QED
      BY <2>6, <2>7, <3>1 DEF LimitOf
  <2>10. CASE ~isMember(a, f) /\ ~isMember(p, f)
    <3>1. r.v = 0 /\ Member(a, f) = None /\ Member(p, f) = None
      BY <2>5, <2>10 DEF Member
    <3> QED
      BY <2>6, <3>1 DEF LimitOf
  <2> QED
    BY <2>8, <2>9, <2>10
<1>7. ASSUME NEW f \in InfoFields PROVE Flagged(v, f) <=> FlagOf(a, p, f)
  BY <1>2, <1>5, FlagIs DEF Flagged, info
<1> QED
  BY <1>2, <1>4, <1>5, <1>6, <1>7

\* Declaration d of p is what its node says.
Declares(p, d, node) ==
    LET nodes == AreaNodesOf(node)
    IN  /\ d.prop = p /\ {"configArray", "areaConfigs"} \subseteq DOMAIN d
        /\ d.initialValue = IF DefaultOf(node) = None THEN RawPropValues ELSE DefaultOf(node)
        /\ \E n \in Nat : DOMAIN d.areaConfigs = 1 .. n
        /\ OnceIn(p, d.areaConfigs)
        /\ \A i \in DOMAIN d.areaConfigs :
              /\ "areaId" \in DOMAIN d.areaConfigs[i]
              /\ \A l \in LimitFields : d.areaConfigs[i].fields[l] \in Int
        /\ nodes = <<>> =>
              DOMAIN d.areaConfigs = {1} /\ d.areaConfigs[1].areaId = 0
              /\ d.areaConfigs[1].initial = None
              /\ d.areaConfigs[1].hasSupportedValueInfo = None
        /\ nodes # <<>> =>
              /\ DOMAIN d.areaConfigs = DOMAIN nodes
              /\ \A i \in DOMAIN nodes :
                    /\ \A f \in LimitFields :
                          d.areaConfigs[i].fields[f] = LimitOf(nodes[i], node, f)
                    /\ \A f \in InfoFields :
                          Flagged(d.areaConfigs[i], f) <=> FlagOf(nodes[i], node, f)
                    /\ d.areaConfigs[i].initial =
                          IF DefaultOf(nodes[i]) # None THEN DefaultOf(nodes[i])
                          ELSE IF d.initialValue # RawPropValues THEN d.initialValue ELSE None

LEMMA DeclarationOf ==
    ASSUME NoneIsNothing, LoadInv, NEW p \in DOMAIN configsByPropId
    PROVE  Declares(p, configsByPropId[p], NodeOf(p))
<1> DEFINE last == Max(From(p, loaded))
           f == loaded[last]
           all == f.root.v["properties"].v
           node == LastNode(all, p)
           d == configsByPropId[p]
           nodes == AreaNodesOf(node)
<1>1. last \in DOMAIN loaded /\ Defines(f, p) /\ d = parseJsonConfig(f).v[p]
  BY DEF LoadInv, DeclaredBy, From
<1>2. NodeOf(p) = node
  BY DEF NodeOf, From
<1>3. f \in AllFiles /\ parseJsonConfig(f).ok /\ p \in DOMAIN parseJsonConfig(f).v
  <2>1. f \in AllFiles
    BY <1>1 DEF LoadInv
  <2> QED
    BY <1>1, <2>1 DEF Defines, Has
<1>4. /\ \E i \in DOMAIN all : node = all[i]
      /\ parseEachProperty(node).ok /\ d = parseEachProperty(node).v /\ d.prop = p
  BY <1>1, <1>3, NodeDeclares
<1>5. readable(f)
  BY <1>3, ParsedFile
<1>6. OnceIn(p, d.areaConfigs)
  BY <1>1, <1>3, AreasOnce
<1> HIDE DEF f, last, node
<1>7. /\ isObject(node) /\ isMember(node, "areas") /\ node.v["areas"].k = "array"
         => IsArray(node.v["areas"].v)
      /\ \A j \in DOMAIN d.areaConfigs : \A l \in LimitFields :
            d.areaConfigs[j].fields[l] \in Int
  BY <1>3, <1>4, <1>5, FilesKnown
<1> HIDE DEF all, d
<1>8. /\ isObject(node) /\ IsArray(nodes)
      /\ DOMAIN d = {"prop", "access", "changeMode", "configString", "configArray",
                     "minSampleRate", "maxSampleRate", "initialValue", "areaConfigs"}
      /\ d.initialValue = IF DefaultOf(node) = None THEN RawPropValues ELSE DefaultOf(node)
      /\ nodes = <<>> => d.areaConfigs = <<globalArea(d.access)>>
      /\ nodes # <<>> =>
            /\ DOMAIN d.areaConfigs = DOMAIN nodes
            /\ \A i \in DOMAIN nodes :
                  LET r == parseArea(nodes[i], node, d.access, d.initialValue)
                  IN  r.ok /\ d.areaConfigs[i] = r.v
  BY <1>4, <1>7, PropertyNode
<1> HIDE DEF nodes
<1>9. CASE nodes = <<>>
  <2>1. /\ DOMAIN d.areaConfigs = {1}
        /\ d.areaConfigs[1] = globalArea(d.access)
    BY <1>8, <1>9
  <2>2. /\ "areaId" \in DOMAIN d.areaConfigs[1] /\ d.areaConfigs[1].areaId = 0
        /\ d.areaConfigs[1].initial = None /\ d.areaConfigs[1].hasSupportedValueInfo = None
    BY <2>1 DEF globalArea
  <2>3. DOMAIN d.areaConfigs = 1 .. 1
    BY <2>1
  <2>4. Declares(p, d, node)
    BY <1>4, <1>6, <1>7, <1>8, <1>9, <2>1, <2>2, <2>3 DEF Declares, nodes
  <2> QED
    BY <1>2, <2>4 DEF d
<1>10. CASE nodes # <<>>
  <2>1. \E n \in Nat : DOMAIN d.areaConfigs = 1 .. n
    BY <1>8, <1>10, EmptyArray
  <2>2. ASSUME NEW i \in DOMAIN nodes
        PROVE  /\ "areaId" \in DOMAIN d.areaConfigs[i]
               /\ \A g \in LimitFields : d.areaConfigs[i].fields[g] = LimitOf(nodes[i], node, g)
               /\ \A g \in InfoFields :
                     Flagged(d.areaConfigs[i], g) <=> FlagOf(nodes[i], node, g)
               /\ d.areaConfigs[i].initial =
                     IF DefaultOf(nodes[i]) # None THEN DefaultOf(nodes[i])
                     ELSE IF d.initialValue # RawPropValues THEN d.initialValue ELSE None
    <3> DEFINE r == parseArea(nodes[i], node, d.access, d.initialValue)
    <3>1. r.ok /\ d.areaConfigs[i] = r.v /\ i \in DOMAIN d.areaConfigs
      BY <1>8, <1>10
    <3>2. \A l \in LimitFields : r.v.fields[l] \in Int
      BY <1>7, <3>1
    <3>3. /\ "areaId" \in DOMAIN r.v
          /\ \A g \in LimitFields : r.v.fields[g] = LimitOf(nodes[i], node, g)
          /\ \A g \in InfoFields : Flagged(r.v, g) <=> FlagOf(nodes[i], node, g)
          /\ r.v.initial = IF DefaultOf(nodes[i]) # None THEN DefaultOf(nodes[i])
                           ELSE IF d.initialValue # RawPropValues THEN d.initialValue ELSE None
      BY <1>8, <3>1, <3>2, AreaNode
    <3> QED
      BY <3>1, <3>3
  <2>3. Declares(p, d, node)
    <3>1. DOMAIN d.areaConfigs = DOMAIN nodes
      BY <1>8, <1>10
    <3>2. {"configArray", "areaConfigs"} \subseteq DOMAIN d
      BY <1>8
    <3>3. d.initialValue = IF DefaultOf(node) = None THEN RawPropValues ELSE DefaultOf(node)
      BY <1>8
    <3> QED
      BY <1>4, <1>6, <1>7, <1>10, <2>1, <2>2, <3>1, <3>2, <3>3 DEF Declares, nodes
  <2> QED
    BY <1>2, <2>3 DEF d
<1> QED
  BY <1>9, <1>10

----------------------------------------------------------------------------
(* What init makes of the declarations.                                    *)

LEMMA MergeAt ==
    ASSUME NEW maps, NEW k, NEW m \in maps, \A x \in maps : k \in DOMAIN x => x = m
    PROVE  At(Merge(maps), k) = At(m, k) /\ (k \in DOMAIN Merge(maps) <=> k \in DOMAIN m)
<1> DEFINE keys == UNION {DOMAIN map : map \in maps}
<1>1. DOMAIN Merge(maps) = keys /\ (k \in keys <=> k \in DOMAIN m)
  BY DEF Merge
<1>2. CASE k \in DOMAIN m
  <2>1. (CHOOSE map \in maps : k \in DOMAIN map) = m
    BY <1>2
  <2>2. Merge(maps)[k] = m[k]
    BY <1>1, <1>2, <2>1 DEF Merge
  <2> QED
    BY <1>1, <1>2, <2>2 DEF At
<1>3. CASE k \notin DOMAIN m
  BY <1>1, <1>3 DEF At
<1> QED
  BY <1>2, <1>3

\* An area that is given once has the value its declaration gives it, or none.
LEMMA OwnValue ==
    ASSUME NoneIsNothing, NEW p, NEW d, NEW node, Declares(p, d, node),
           NEW i \in DOMAIN d.areaConfigs,
           d.areaConfigs[i].initial = None =>
               \/ d.initialValue = RawPropValues
               \/ \E j \in DOMAIN d.areaConfigs : d.areaConfigs[j].initial # None
    PROVE  At(storePropInitialValue(d), <<p, d.areaConfigs[i].areaId>>) = d.areaConfigs[i].initial
<1> DEFINE cs == d.areaConfigs
           a == cs[i].areaId
           areas == IF isGlobalProp(d.prop) THEN {0}
                    ELSE {cs[j].areaId : j \in DOMAIN cs}
           with(x) == {j \in DOMAIN cs : cs[j].areaId = x /\ cs[j].initial # None}
           none == \A j \in DOMAIN cs : cs[j].initial = None
           k == <<p, a>>
           keys == {d.prop} \X {x \in areas : none \/ with(x) # {}}
           f == [y \in keys |-> IF none THEN d.initialValue ELSE cs[Max(with(y[2]))].initial]
<1>1. storePropInitialValue(d) = IF none /\ d.initialValue = RawPropValues THEN Nothing ELSE f
  BY DEF storePropInitialValue
<1>2. PICK n \in Nat : DOMAIN cs = 1 .. n
  BY DEF Declares
<1>3. OnceIn(p, cs) /\ d.prop = p
  BY DEF Declares
<1>4. \A j \in DOMAIN cs : cs[j].areaId = a => j = i
  BY <1>3 DEF OnceIn
<1>5. a \in areas
  BY <1>3 DEF OnceIn
<1>6. CASE none
  <2>1. storePropInitialValue(d) = Nothing
    BY <1>1, <1>6
  <2> QED
    BY <1>6, <2>1 DEF At, Nothing
<1>7. CASE ~none
  <2>1. storePropInitialValue(d) = f
    BY <1>1, <1>7
  <2>2. with(a) = IF cs[i].initial = None THEN {} ELSE {i}
    BY <1>4
  <2>3. DOMAIN f = keys
    OBVIOUS
  <2>4. k \in keys <=> with(a) # {}
    BY <1>3, <1>5, <1>7
  <2>5. CASE cs[i].initial = None
    BY <2>1, <2>2, <2>3, <2>4, <2>5 DEF At
  <2>6. CASE cs[i].initial # None
    <3>1. i \in Int /\ Max({i}) = i
      BY <1>2 DEF Max
    <3>2. k \in keys /\ k[2] = a
      BY <2>2, <2>4, <2>6
    <3>3. f[k] = cs[Max(with(k[2]))].initial
      BY <1>7, <3>2
    <3>4. with(k[2]) = {i}
      BY <2>2, <2>6, <3>2
    <3>5. f[k] = cs[i].initial
      BY <3>1, <3>3, <3>4
    <3> HIDE DEF f, keys, k
    <3>6. At(storePropInitialValue(d), k) = cs[i].initial
      BY <2>1, <2>3, <3>2, <3>5 DEF At
    <3> QED
      BY <3>6 DEF k
  <2> QED
    BY <2>5, <2>6
<1> QED
  BY <1>6, <1>7

\* The initial value of an area that the declaration of p leads to.
Expected(node, p, d) ==
    LET areas == AreaNodesOf(node)
        inherited == IF DefaultOf(node) = RawPropValues THEN None ELSE DefaultOf(node)
        first == storePropInitialValue(d)
    IN  IF areas = <<>> THEN At(first, <<p, 0>>) = inherited
        ELSE \A i \in DOMAIN areas :
               At(first, <<p, d.areaConfigs[i].areaId>>) =
                   IF DefaultOf(areas[i]) # None THEN DefaultOf(areas[i]) ELSE inherited

LEMMA RawIsNotNone == ASSUME NoneIsNothing PROVE RawPropValues # None
<1>1. "int32Values" \in DOMAIN RawPropValues
  BY DEF RawPropValues
<1> QED
  BY <1>1 DEF NoneIsNothing

LEMMA InitialValue ==
    ASSUME NoneIsNothing, NEW p, NEW d, NEW node, Declares(p, d, node)
    PROVE  Expected(node, p, d)
<1> DEFINE nodes == AreaNodesOf(node)
           inherited == IF DefaultOf(node) = RawPropValues THEN None ELSE DefaultOf(node)
           cs == d.areaConfigs
<1>1. d.initialValue = IF DefaultOf(node) = None THEN RawPropValues ELSE DefaultOf(node)
  BY DEF Declares
<1>2. inherited = IF d.initialValue = RawPropValues THEN None ELSE d.initialValue
  BY <1>1, RawIsNotNone
<1>3. CASE nodes = <<>>
  <2>1. DOMAIN cs = {1} /\ cs[1].areaId = 0 /\ cs[1].initial = None
    BY <1>3 DEF Declares
  <2>2. CASE d.initialValue = RawPropValues
    <3>1. At(storePropInitialValue(d), <<p, cs[1].areaId>>) = cs[1].initial
      BY <2>1, <2>2, OwnValue
    <3> QED
      BY <1>2, <1>3, <2>1, <2>2, <3>1 DEF Expected
  <2>3. CASE d.initialValue # RawPropValues
    <3> DEFINE areas == IF isGlobalProp(d.prop) THEN {0} ELSE {cs[i].areaId : i \in DOMAIN cs}
               none == \A i \in DOMAIN cs : cs[i].initial = None
               with(a) == {i \in DOMAIN cs : cs[i].areaId = a /\ cs[i].initial # None}
               keys == {d.prop} \X {a \in areas : none \/ with(a) # {}}
               f == [k \in keys |-> IF none THEN d.initialValue
                                    ELSE cs[Max(with(k[2]))].initial]
    <3>1. storePropInitialValue(d) = f
      BY <2>3 DEF storePropInitialValue
    <3>2. none /\ areas = {0} /\ d.prop = p
      BY <2>1 DEF Declares
    <3>3. <<p, 0>> \in keys /\ DOMAIN f = keys
      BY <3>2
    <3>4. f[<<p, 0>>] = d.initialValue
      BY <3>2, <3>3
    <3> HIDE DEF f, keys
    <3>5. At(f, <<p, 0>>) = inherited
      BY <1>2, <2>3, <3>3, <3>4 DEF At
    <3> QED
      BY <1>3, <3>1, <3>5 DEF Expected
  <2> QED
    BY <2>2, <2>3
<1>4. CASE nodes # <<>>
  <2>1. ASSUME NEW i \in DOMAIN nodes
        PROVE  At(storePropInitialValue(d), <<p, cs[i].areaId>>) =
                  IF DefaultOf(nodes[i]) # None THEN DefaultOf(nodes[i]) ELSE inherited
    <3>1. i \in DOMAIN cs
          /\ cs[i].initial = IF DefaultOf(nodes[i]) # None THEN DefaultOf(nodes[i])
                             ELSE IF d.initialValue # RawPropValues THEN d.initialValue ELSE None
      BY <1>4 DEF Declares
    <3>2. cs[i].initial = None => d.initialValue = RawPropValues
      BY <1>1, <3>1
    <3>3. At(storePropInitialValue(d), <<p, cs[i].areaId>>) = cs[i].initial
      BY <3>1, <3>2, OwnValue
    <3> QED
      BY <1>2, <3>1, <3>3
  <2> QED
    BY <1>4, <2>1 DEF Expected
<1> QED
  BY <1>3, <1>4

\* Once it is running, the hardware has the properties that were declared; and
\* until the first command their initial values.
HardwareInv ==
    phase = "running" =>
        /\ DOMAIN configs = DOMAIN configsByPropId
        /\ \A p \in DOMAIN configs : configs[p].areaConfigs = configsByPropId[p].areaConfigs
        /\ ~Spent => \A p \in DOMAIN configs \ {OBD2_LIVE_FRAME} : \A a :
              At(store, <<p, a>>) = At(storePropInitialValue(configsByPropId[p]), <<p, a>>)

\* The maps init merges are of different properties.
LEMMA OwnKeys ==
    ASSUME NEW p, NEW d, d.prop = p, NEW k
    PROVE  /\ k \in DOMAIN storePropInitialValue(d) => k[1] = p
           /\ \A which : k \in DOMAIN supportedOf(d, which) => k[1] = p
BY DEF storePropInitialValue, supportedOf, Nothing

LEMMA InitHardware ==
    ASSUME NoneIsNothing, LoadInv, init
    PROVE  HardwareInv'
<1> DEFINE ids == DOMAIN configsByPropId
           d(p) == configsByPropId[p]
           plain == {p \in ids : ~isDiagnosticProperty(p)}
           frames == {p \in ids : p = OBD2_LIVE_FRAME}
           initials == {storePropInitialValue(d(p)) : p \in plain}
           maps == initials \cup {Put(<<p, 0>>, "frame", Nothing) : p \in frames}
<1>1. /\ configs' = [p \in ids |->
                       IF p = AP_POWER_STATE_REQ
                       THEN [d(p) EXCEPT !.configArray[1] = s2rS2dConfig] ELSE d(p)]
      /\ store' = Merge(maps) /\ UNCHANGED configsByPropId
  BY DEF init
<1>2. \A p \in ids : Declares(p, d(p), NodeOf(p))
  BY DeclarationOf
<1>3. \A p \in ids : d(p).prop = p /\ {"configArray", "areaConfigs"} \subseteq DOMAIN d(p)
  BY <1>2 DEF Declares
<1>4. DOMAIN configs' = ids
  BY <1>1
<1>5. ASSUME NEW p \in ids PROVE configs'[p].areaConfigs = d(p).areaConfigs
  <2>1. configs'[p] = d(p) \/ configs'[p] = [d(p) EXCEPT !.configArray[1] = s2rS2dConfig]
    BY <1>1
  <2>2. [d(p) EXCEPT !.configArray[1] = s2rS2dConfig].areaConfigs = d(p).areaConfigs
    BY <1>3
  <2> QED
    BY <2>1, <2>2
<1>6. ASSUME NEW p \in ids \ {OBD2_LIVE_FRAME}, NEW a
      PROVE  At(store', <<p, a>>) = At(storePropInitialValue(d(p)), <<p, a>>)
  <2> DEFINE k == <<p, a>>
             own == storePropInitialValue(d(p))
  <2>1. p \in plain /\ k[1] = p
    BY DEF isDiagnosticProperty
  <2>2. own \in maps
    BY <2>1
  <2>3. ASSUME NEW x \in maps, k \in DOMAIN x PROVE x = own
    <3>1. CASE x \in initials
      <4>1. PICK q \in plain : x = storePropInitialValue(d(q))
        BY <3>1
      <4>2. k[1] = q
        BY <1>3, <2>3, <4>1, OwnKeys
      <4> QED
        BY <2>1, <4>1, <4>2
    <3>2. CASE \E q \in frames : x = Put(<<q, 0>>, "frame", Nothing)
      <4>1. PICK q \in frames : x = Put(<<q, 0>>, "frame", Nothing)
        BY <3>2
      <4>2. k = <<q, 0>>
        BY <2>3, <4>1 DEF Put, Nothing
      <4> QED
        BY <2>1, <4>2
    <3> QED
      BY <3>1, <3>2
  <2> HIDE DEF maps, own, k
  <2>4. At(Merge(maps), k) = At(own, k)
    BY <2>2, <2>3, MergeAt
  <2> QED
    BY <1>1, <2>4 DEF own, k, At
<1>7. \A p \in ids \ {OBD2_LIVE_FRAME} : \A a :
         At(store, <<p, a>>)' = At(storePropInitialValue(configsByPropId[p]), <<p, a>>)'
  BY <1>1, <1>6 DEF At
<1> QED
  BY <1>1, <1>4, <1>5, <1>7 DEF HardwareInv

LEMMA HardwareStep ==
    ASSUME NoneIsNothing, InputInv, LoadInv, HardwareInv, [Next]_vars
    PROVE  HardwareInv'
<1>1. CASE /\ UNCHANGED <<configs, configsByPropId>> /\ phase = "running"
           /\ Spent' \/ UNCHANGED <<input, store>>
  <2>1. CASE Spent'
    BY <1>1, <2>1 DEF HardwareInv
  <2>2. CASE UNCHANGED <<input, store>>
    BY <1>1, <2>2 DEF HardwareInv, Spent, At
  <2> QED
    BY <1>1, <2>1, <2>2
<1>2. CASE phase' # "running"
  BY <1>2 DEF HardwareInv
<1>3. CASE init
  BY <1>3, InitHardware
<1>4. CASE Loads \/ loadConfigDeclarations \/ initAborts
  BY <1>2, <1>4 DEF Loads, loadPropConfig, loadConfigDeclarations, initAborts
<1>5. CASE phase = "running" /\ UNCHANGED <<input, loading, hardware>>
  BY <1>1, <1>5 DEF loading, hardware
<1>6. ASSUME NEW op \in Commands, Command(op), UNCHANGED <<loading, configs>>
      PROVE  HardwareInv'
  <2>1. Spent' /\ phase = "running"
    BY <1>6, CommandTakes
  <2> QED
    BY <1>1, <1>6, <2>1 DEF loading
<1>7. CASE \E t \in Threads : \E o \in Ranges : dumpSetMinMaxValue(t, o)
  BY <1>6, <1>7 DEF dumpSetMinMaxValue, Commands, hardware
<1>8. CASE \E t \in Threads : \E o \in Lists : dumpSetSupportedValues(t, o)
  BY <1>6, <1>8 DEF dumpSetSupportedValues, Commands, hardware
<1>9. CASE registerSupportedValueChangeCallback
  BY <1>6, <1>9 DEF registerSupportedValueChangeCallback, Commands, hardware
<1>10. CASE \E o \in Lines : dumpSetProperties(o)
  BY <1>6, <1>10 DEF dumpSetProperties, Commands
<1>11. CASE \E x \in Values : setValue(x.key, x.value)
  BY <1>6, <1>11 DEF setValue, Commands
<1>12. CASE UNCHANGED <<input, loading, hardware>>
  <2>1. CASE phase = "running"
    BY <1>5, <1>12, <2>1
  <2>2. CASE phase # "running"
    BY <1>2, <1>12, <2>2 DEF loading
  <2> QED
    BY <2>1, <2>2
<1>13. CASE (\E t \in Threads : triggerSupportedValueChange(t)) \/ \E n \in notified : read(n)
  BY <1>12, <1>13 DEF triggerSupportedValueChange, read
<1>14. CASE UNCHANGED vars
  BY <1>12, <1>14 DEF vars
<1> QED
  BY <1>3, <1>4, <1>7, <1>8, <1>9, <1>10, <1>11, <1>13, <1>14, NextCases

\* Declarations, limits and initial values are those of the files that count:
\* whatever files the two directories hold and in whatever order readdir gives
\* them, loadConfigDeclarations and init take each property whole from the last
\* good file, its areas with their own limits and values before those inherited.
THEOREM DeclarationsCorrect ==
    ASSUME NoneIsNothing
    PROVE  Spec => []DeclarationsFollowFiles
<1> DEFINE Inv == InputInv /\ LoadInv /\ OverrideInv /\ HardwareInv
<1>1. Init => Inv
  <2>1. Init => HardwareInv
    BY DEF Init, HardwareInv
  <2> QED
    BY <2>1, InputInit, LoadInit
<1>2. Inv /\ [Next]_vars => Inv'
  BY InputStep, LoadStep, HardwareStep
<1>3. Inv => DeclarationsFollowFiles
  <2> SUFFICES ASSUME Inv PROVE DeclarationsFollowFiles
    OBVIOUS
  <2>1. LastGoodFileWins
    BY LastGoodFile
  <2>2. Fresh => phase = "running" /\ ~Spent
    BY DEF Fresh, Spent, InputInv
  <2>3. ASSUME Fresh, NEW p \in DOMAIN configs
        PROVE  /\ Declares(p, configsByPropId[p], NodeOf(p)) /\ p \in DOMAIN configsByPropId
               /\ configs[p].areaConfigs = configsByPropId[p].areaConfigs
    BY <2>2, <2>3, DeclarationOf DEF HardwareInv
  <2>4. ASSUME Fresh, NEW p \in DOMAIN configs PROVE InheritsFrom(NodeOf(p), p)
    <3> DEFINE nodes == AreaNodesOf(NodeOf(p))
    <3> SUFFICES ASSUME NEW i \in DOMAIN nodes, NEW f \in LimitFields
                 PROVE  configs[p].areaConfigs[i].fields[f] = LimitOf(nodes[i], NodeOf(p), f)
      BY DEF InheritsFrom
    <3>1. nodes # <<>>
      OBVIOUS
    <3> QED
      BY <2>3, <2>4, <3>1 DEF Declares
  <2>5. ASSUME Fresh, NEW p \in DOMAIN configs \ {OBD2_LIVE_FRAME}
        PROVE  ValuesFollow(NodeOf(p), p)
    <3>1. Expected(NodeOf(p), p, configsByPropId[p])
      BY <2>3, <2>5, InitialValue
    <3>2. \A a : At(store, <<p, a>>) = At(storePropInitialValue(configsByPropId[p]), <<p, a>>)
      BY <2>2, <2>5 DEF HardwareInv
    <3>3. configs[p].areaConfigs = configsByPropId[p].areaConfigs
      BY <2>3, <2>5
    <3> QED
      BY <3>1, <3>2, <3>3 DEF Expected, ValuesFollow
  <2>6. AreaInherits
    BY <2>4 DEF AreaInherits
  <2>7. InitialValuesFollowConfig
    BY <2>5 DEF InitialValuesFollowConfig
  <2> QED
    BY <2>1, <2>6, <2>7 DEF DeclarationsFollowFiles
<1> HIDE DEF Inv
<1> QED
  BY <1>1, <1>2, <1>3, PTL DEF Spec

----------------------------------------------------------------------------
(* Ranges.                                                                 *)

RangeInv ==
    /\ phase # "running" => mMin = Nothing /\ mMax = Nothing /\ tuned = {}
    /\ RangesFollowFiles

LEMMA LimitsAreFields ==
    ASSUME NEW p, Limits(p) # <<>>
    PROVE  /\ Limits(p)[1] \in LimitFields /\ Limits(p)[2] \in LimitFields
           /\ \/ getPropType(p) = "INT32" /\ Limits(p) = <<"minInt32Value", "maxInt32Value">>
              \/ getPropType(p) = "FLOAT" /\ Limits(p) = <<"minFloatValue", "maxFloatValue">>
<1>1. getPropType(p) \in {"INT32", "FLOAT", "INT32_VEC", "BOOLEAN", "MIXED"}
  BY DEF getPropType
<1> QED
  BY <1>1 DEF Limits, LimitFields

\* What supportedOf has for an area is what the nodes say.
LEMMA OwnLimit ==
    ASSUME NoneIsNothing, NEW p, NEW d, NEW node, Declares(p, d, node),
           NEW i \in DOMAIN d.areaConfigs, NEW which \in {"min", "max"}
    PROVE  At(supportedOf(d, which), <<p, d.areaConfigs[i].areaId>>) =
               RangeOf(node, p, i)[IF which = "min" THEN 1 ELSE 2]
<1> DEFINE cs == d.areaConfigs
           k == <<p, cs[i].areaId>>
           side == IF which = "min" THEN 1 ELSE 2
           flag == CASE which = "min" -> "hasMinSupportedValue"
                     [] which = "max" -> "hasMaxSupportedValue"
                     [] which = "list" -> "hasSupportedValuesList"
           value(a) == CASE which = "min" -> a.fields[Limits(d.prop)[1]]
                         [] which = "max" -> a.fields[Limits(d.prop)[2]]
                         [] which = "list" -> supportedValuesList(d, a)
           has(a) == /\ Limits(d.prop) # <<>>
                     /\ a.hasSupportedValueInfo # None
                     /\ a.hasSupportedValueInfo[flag]
                     /\ which = "list" => value(a) # <<>>
           areas == {j \in DOMAIN cs : has(cs[j])}
           of(a) == Max({j \in areas : cs[j].areaId = a})
           keys == {<<d.prop, cs[j].areaId>> : j \in areas}
           own == supportedOf(d, which)
           nodes == AreaNodesOf(node)
<1>1. own = [y \in keys |-> value(cs[of(y[2])])]
  BY DEF supportedOf
<1>2. d.prop = p /\ OnceIn(p, cs) /\ i \in Int
  BY DEF Declares
<1>3. \A j \in DOMAIN cs : cs[j].areaId = cs[i].areaId => j = i
  BY <1>2 DEF OnceIn
<1>4. has(cs[i]) <=> Limits(p) # <<>> /\ Flagged(cs[i], flag)
  BY <1>2 DEF Flagged
<1>5. value(cs[i]) = cs[i].fields[Limits(p)[side]]
  BY <1>2
<1>6. flag \in InfoFields /\ flag = (IF which = "min" THEN "hasMinSupportedValue"
                                     ELSE "hasMaxSupportedValue")
  BY DEF InfoFields
<1> HIDE DEF value, has, flag
<1>7. k \in keys <=> i \in areas
  BY <1>2, <1>3
<1>8. CASE i \in areas
  <2>1. {j \in areas : cs[j].areaId = k[2]} = {i}
    BY <1>3, <1>8
  <2>2. Max({i}) = i
    BY <1>2 DEF Max
  <2>3. of(k[2]) = i
    BY <2>1, <2>2
  <2> HIDE DEF of, areas
  <2>4. own[k] = value(cs[i]) /\ k \in DOMAIN own
    BY <1>1, <1>7, <1>8, <2>3
  <2>5. At(own, k) = cs[i].fields[Limits(p)[side]]
    BY <1>5, <2>4 DEF At
  <2>6. Limits(p) # <<>> /\ Flagged(cs[i], flag)
    BY <1>4, <1>8 DEF areas
  <2>7. Limits(p)[side] \in LimitFields
    BY <2>6, LimitsAreFields
  <2>8. nodes # <<>>
    BY <2>6 DEF Declares, Flagged
  <2>9. FlagOf(nodes[i], node, flag) /\ cs[i].fields[Limits(p)[side]] = LimitOf(nodes[i], node, Limits(p)[side])
    BY <1>6, <2>6, <2>7, <2>8 DEF Declares
  <2>10. RangeOf(node, p, i)[side] = LimitOf(nodes[i], node, Limits(p)[side])
    BY <1>6, <2>6, <2>8, <2>9 DEF RangeOf, EndOf
  <2> QED
    BY <2>5, <2>9, <2>10
<1>9. CASE i \notin areas
  <2>1. At(own, k) = None
    BY <1>1, <1>7, <1>9 DEF At
  <2>2. ~(Limits(p) # <<>> /\ Flagged(cs[i], flag))
    BY <1>4, <1>9
  <2>3. CASE Limits(p) = <<>> \/ nodes = <<>>
    BY <2>1, <2>3 DEF RangeOf
  <2>4. CASE Limits(p) # <<>> /\ nodes # <<>>
    <3>1. ~FlagOf(nodes[i], node, flag)
      BY <1>6, <2>2, <2>4 DEF Declares
    <3>2. RangeOf(node, p, i)[side] = None
      BY <1>6, <2>4, <3>1 DEF RangeOf, EndOf
    <3> QED
      BY <2>1, <3>2
  <2> QED
    BY <2>3, <2>4
<1> QED
  BY <1>8, <1>9

LEMMA InitRanges ==
    ASSUME NoneIsNothing, LoadInv, RangeInv, init, HardwareInv'
    PROVE  RangeInv'
<1> DEFINE d(p) == configsByPropId[p]
           plain == {p \in DOMAIN configsByPropId : ~isDiagnosticProperty(p)}
           all(which) == {supportedOf(d(p), which) : p \in plain}
<1>1. /\ phase = "init" /\ phase' = "running" /\ UNCHANGED <<configsByPropId, loaded, tuned>>
      /\ mMin' = Merge(all("min")) /\ mMax' = Merge(all("max"))
  BY DEF init
<1>2. tuned' = {}
  BY <1>1 DEF RangeInv
<1>3. \A p \in plain : Declares(p, d(p), NodeOf(p)) /\ d(p).prop = p
  BY DeclarationOf DEF Declares
<1>4. /\ \A p \in plain : p \in DOMAIN configs' /\ configs'[p].areaConfigs = d(p).areaConfigs
      /\ DOMAIN configs' = DOMAIN configsByPropId
  BY <1>1 DEF HardwareInv
<1>5. ASSUME NEW which, NEW k \in DOMAIN Merge(all(which))
      PROVE  k \in AreaKeys'
  <2>1. PICK p \in plain : k \in DOMAIN supportedOf(d(p), which)
    BY DEF Merge
  <2>2. PICK i \in DOMAIN d(p).areaConfigs : k = <<p, d(p).areaConfigs[i].areaId>>
    BY <1>3, <2>1 DEF supportedOf
  <2> QED
    BY <1>4, <2>2 DEF AreaKeys
<1>6. ASSUME NEW p \in plain, NEW k, k[1] = p, NEW which
      PROVE  At(Merge(all(which)), k) = At(supportedOf(d(p), which), k)
  <2> DEFINE own == supportedOf(d(p), which)
             maps == all(which)
  <2>1. ASSUME NEW x \in maps, k \in DOMAIN x PROVE x = own
    <3>1. PICK q \in plain : x = supportedOf(d(q), which)
      BY <2>1
    <3>2. k[1] = q
      BY <1>3, <2>1, <3>1, OwnKeys
    <3> QED
      BY <1>6, <3>1, <3>2
  <2>2. own \in maps
    OBVIOUS
  <2> HIDE DEF maps, own
  <2>3. At(Merge(maps), k) = At(own, k)
    BY <2>1, <2>2, MergeAt
  <2> QED
    BY <2>3 DEF maps, own
<1>7. ASSUME NEW p \in plain, NEW i \in DOMAIN d(p).areaConfigs
      PROVE  <<At(mMin', <<p, d(p).areaConfigs[i].areaId>>), At(mMax', <<p, d(p).areaConfigs[i].areaId>>)>> =
                 RangeOf(NodeOf(p), p, i)
  <2> DEFINE k == <<p, d(p).areaConfigs[i].areaId>>
             range == RangeOf(NodeOf(p), p, i)
  <2>1. k[1] = p
    OBVIOUS
  <2>2. Declares(p, d(p), NodeOf(p))
    BY <1>3
  <2>3. At(supportedOf(d(p), "min"), k) = range[1]
    BY <2>2, OwnLimit
  <2>4. At(supportedOf(d(p), "max"), k) = range[2]
    BY <2>2, OwnLimit
  <2>5. range = <<range[1], range[2]>>
    BY DEF RangeOf
  <2> HIDE DEF k, range, all
  <2>6. At(mMin', k) = range[1] /\ At(mMax', k) = range[2]
    BY <1>1, <1>6, <2>1, <2>3, <2>4
  <2> QED
    BY <2>5, <2>6 DEF k, range
<1>8. (DOMAIN mMin \cup DOMAIN mMax)' \subseteq AreaKeys'
  BY <1>1, <1>5
<1>9. \A p : NodeOf(p)' = NodeOf(p)
  BY <1>1 DEF NodeOf
<1>10. \A p, i : RangeOf(NodeOf(p), p, i)' = RangeOf(NodeOf(p), p, i)
  BY <1>9 DEF RangeOf
<1>11. \A k : getMinMaxSupportedValues(k)' = <<At(mMin', k), At(mMax', k)>>
  BY DEF getMinMaxSupportedValues, At
<1>12. ReportsFollow'
  BY <1>4, <1>7, <1>8, <1>10, <1>11 DEF ReportsFollow
<1> QED
  BY <1>1, <1>2, <1>12 DEF RangeInv, RangesFollowFiles, TunedIsOneRange

LEMMA RangeStep ==
    ASSUME NoneIsNothing, InputInv, LoadInv, HardwareInv, RangeInv, [Next]_vars
    PROVE  RangeInv'
<1>1. CASE UNCHANGED <<mMin, mMax, tuned, configs, loaded, phase>>
  <2>1. \A p : NodeOf(p)' = NodeOf(p)
    BY <1>1 DEF NodeOf
  <2>2. \A p, i : RangeOf(NodeOf(p), p, i)' = RangeOf(NodeOf(p), p, i)
    BY <2>1 DEF RangeOf
  <2>3. \A k : getMinMaxSupportedValues(k)' = getMinMaxSupportedValues(k)
    BY <1>1 DEF getMinMaxSupportedValues, At
  <2>4. AreaKeys' = AreaKeys
    BY <1>1 DEF AreaKeys
  <2>5. ReportsFollow'
    BY <1>1, <2>2, <2>3, <2>4 DEF RangeInv, RangesFollowFiles, ReportsFollow
  <2> QED
    BY <1>1, <2>5 DEF RangeInv, RangesFollowFiles, TunedIsOneRange
<1>2. CASE init
  <2>1. HardwareInv'
    BY HardwareStep
  <2> QED
    BY <1>2, <2>1, InitRanges
<1>3. ASSUME NEW t \in Threads, NEW o \in Ranges, dumpSetMinMaxValue(t, o) PROVE RangeInv'
  <2>1. phase = "running" /\ UNCHANGED <<phase, configs, loaded>>
    BY <1>3 DEF dumpSetMinMaxValue, loading, hardware, Command, Allowed
  <2>2. CASE UNCHANGED <<mMin, mMax, tuned, dumper>>
    BY <1>1, <2>1, <2>2
  <2>3. CASE ~UNCHANGED <<mMin, mMax, tuned, dumper>>
    <3>1. PICK key, lo, hi : /\ lo <= hi /\ mMin' = Put(key, lo, mMin)
                             /\ mMax' = Put(key, hi, mMax) /\ tuned' = tuned \cup {key}
      BY <1>3, <2>3 DEF dumpSetMinMaxValue, parseAndSetMinMaxValue
    <3>2. \A p : NodeOf(p)' = NodeOf(p)
      BY <2>1 DEF NodeOf
    <3>3. \A p, i : RangeOf(NodeOf(p), p, i)' = RangeOf(NodeOf(p), p, i)
      BY <3>2 DEF RangeOf
    <3>4. AreaKeys' = AreaKeys
      BY <2>1 DEF AreaKeys
    <3>5. \A k : k # key => At(mMin', k) = At(mMin, k) /\ At(mMax', k) = At(mMax, k)
      BY <3>1, PutAt
    <3>6. \A k : k \notin tuned' => getMinMaxSupportedValues(k)' = getMinMaxSupportedValues(k)
      BY <3>1, <3>5 DEF getMinMaxSupportedValues, At
    <3>7. /\ DOMAIN mMin' = DOMAIN mMin \cup {key} /\ DOMAIN mMax' = DOMAIN mMax \cup {key}
          /\ mMin'[key] = lo /\ mMax'[key] = hi
          /\ \A k \in DOMAIN mMin : k # key => mMin'[k] = mMin[k]
          /\ \A k \in DOMAIN mMax : k # key => mMax'[k] = mMax[k]
      BY <3>1 DEF Put
    <3>8. ReportsFollow'
      <4>1. ReportsFollow
        BY DEF RangeInv, RangesFollowFiles
      <4>2. ((DOMAIN mMin \cup DOMAIN mMax) \ tuned)' \subseteq AreaKeys'
        BY <2>1, <3>1, <3>4, <3>7, <4>1 DEF ReportsFollow
      <4>3. \A k : k \notin tuned' => k \notin tuned
        BY <3>1
      <4> QED
        BY <2>1, <3>3, <3>6, <4>1, <4>2, <4>3 DEF ReportsFollow
    <3>9. TunedIsOneRange'
      BY <3>1, <3>7 DEF RangeInv, RangesFollowFiles, TunedIsOneRange
    <3> QED
      BY <2>1, <3>8, <3>9 DEF RangeInv, RangesFollowFiles
  <2> QED
    BY <2>2, <2>3
<1>4. CASE phase # "running" /\ phase' # "running" /\ UNCHANGED <<mMin, mMax, tuned>>
  BY <1>4 DEF RangeInv, RangesFollowFiles, ReportsFollow, TunedIsOneRange
<1>5. CASE Loads /\ UNCHANGED <<input, hardware, supported, listening>>
  BY <1>4, <1>5 DEF Loads, loadPropConfig, supported
<1>6. CASE loadConfigDeclarations \/ initAborts
  BY <1>4, <1>6 DEF loadConfigDeclarations, initAborts, supported
<1>7. CASE \E t \in Threads : \E o \in Lists : dumpSetSupportedValues(t, o)
  BY <1>1, <1>7 DEF dumpSetSupportedValues, loading, hardware
<1>8. CASE \E t \in Threads : triggerSupportedValueChange(t)
  BY <1>1, <1>8 DEF triggerSupportedValueChange, loading, hardware, supported
<1>9. CASE registerSupportedValueChangeCallback
  BY <1>1, <1>9 DEF registerSupportedValueChangeCallback, loading, hardware, supported
<1>10. CASE \E n \in notified : read(n)
  BY <1>1, <1>10 DEF read, loading, hardware, supported
<1>11. CASE \E o \in Lines : dumpSetProperties(o)
  BY <1>1, <1>11 DEF dumpSetProperties, loading, supported
<1>12. CASE \E x \in Values : setValue(x.key, x.value)
  BY <1>1, <1>12 DEF setValue, loading, supported
<1>13. CASE UNCHANGED vars
  BY <1>1, <1>13 DEF vars, loading, hardware, supported
<1> QED
  BY <1>2, <1>3, <1>5, <1>6, <1>7, <1>8, <1>9, <1>10, <1>11, <1>12, <1>13, NextCases

\* What FakeVehicleHardware reports as the supported range of an area is what the
\* JSON nodes of the area and of its property say, each end by its own flag, or
\* else the range of one dump command: for any files and any commands.
THEOREM RangesCorrect ==
    ASSUME NoneIsNothing
    PROVE  Spec => []RangesFollowFiles
<1> DEFINE Inv == InputInv /\ LoadInv /\ OverrideInv /\ HardwareInv /\ RangeInv
<1>1. Init => Inv
  <2>1. Init => HardwareInv /\ RangeInv
    BY DEF Init, HardwareInv, RangeInv, RangesFollowFiles, ReportsFollow, TunedIsOneRange
  <2> QED
    BY <2>1, InputInit, LoadInit
<1>2. Inv /\ [Next]_vars => Inv'
  BY InputStep, LoadStep, HardwareStep, RangeStep
<1>3. Inv => RangesFollowFiles
  BY DEF RangeInv
<1> HIDE DEF Inv
<1> QED
  BY <1>1, <1>2, <1>3, PTL DEF Spec
============================================================================
