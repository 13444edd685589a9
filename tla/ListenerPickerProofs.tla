------------------------ MODULE ListenerPickerProofs ------------------------
(***************************************************************************)
(* Proof that the listener that is chosen, and the one that is sent, exist *)
(* below the credential, for any credentials, any cloud and any number of  *)
(* lists under way.                                                        *)
(***************************************************************************)
EXTENDS ListenerPicker, TLAPS

Levels == 1..LastLevel
Prefix(c, n) == SubSeq(c, 1, n)

(* A list that somebody waits for is one below the present choices.        *)
LiveInv ==
    \A f \in fetches : f.live =>
        /\ Len(f.path) \in 1..LastLevel - 1
        /\ f.path = Prefix(choices, Len(f.path))
        /\ f.path \in DOMAIN Cloud

(* What a select offers is what the cloud lists below the present choices. *)
OfferedInv ==
    \A l \in 2..LastLevel : offered[l] # {} =>
        /\ Prefix(choices, l - 1) \in DOMAIN Cloud
        /\ offered[l] = Cloud[Prefix(choices, l - 1)]

IInv == TypeOK /\ LiveInv /\ OfferedInv /\ InlineTargetExists

---------------------------------------------------------------------------
(* Prefixes of choices.                                                    *)
LEMMA PrefixIs ==
  ASSUME NEW c \in [Levels -> Values \cup {None}], NEW n \in 0..LastLevel
  PROVE  Prefix(c, n) = [i \in 1..n |-> c[i]]
BY DEF Prefix, Levels, LastLevel

LEMMA SamePrefix ==
  ASSUME NEW c \in [Levels -> Values \cup {None}], NEW d \in [Levels -> Values \cup {None}],
         NEW n \in 0..LastLevel, \A i \in 1..n : c[i] = d[i]
  PROVE  Prefix(c, n) = Prefix(d, n)
<1>1. Prefix(c, n) = [i \in 1..n |-> c[i]] /\ Prefix(d, n) = [i \in 1..n |-> d[i]]
  BY PrefixIs
<1>2. QED
  BY <1>1

LEMMA LongerPrefix ==
  ASSUME NEW c \in [Levels -> Values \cup {None}], NEW n \in Levels
  PROVE  Prefix(c, n) = Append(Prefix(c, n - 1), c[n]) /\ Len(Prefix(c, n)) = n
<1>1. n - 1 \in 0..LastLevel /\ n \in 0..LastLevel
  BY DEF Levels, LastLevel
<1>2. Prefix(c, n) = [i \in 1..n |-> c[i]] /\ Prefix(c, n - 1) = [i \in 1..(n - 1) |-> c[i]]
  BY <1>1, PrefixIs
<1>3. Prefix(c, n - 1) \in Seq(Values \cup {None}) /\ Len(Prefix(c, n - 1)) = n - 1
  BY <1>1, <1>2 DEF Levels, LastLevel
<1>4. Append(Prefix(c, n - 1), c[n]) = [i \in 1..n |-> c[i]]
  BY <1>1, <1>2, <1>3 DEF Levels, LastLevel
<1>5. QED
  BY <1>1, <1>2, <1>4 DEF Levels, LastLevel

LEMMA Listed ==
  ASSUME NEW p \in DOMAIN Cloud
  PROVE  Cloud[p] \subseteq Values
BY DEF Values, Range

(* A choice from what is offered goes on from the present path.            *)
LEMMA ChosenBelow ==
  ASSUME IInv, NEW level \in Levels, NEW v \in Values, CanChoose(level, v)
  PROVE  /\ level = 1 => v \in Credentials
         /\ level > 1 => /\ Prefix(choices, level - 1) \in DOMAIN Cloud
                         /\ v \in Cloud[Prefix(choices, level - 1)]
         /\ level < LastLevel => Append(Prefix(choices, level - 1), v) \in DOMAIN Cloud
<1>1. choices \in [Levels -> Values \cup {None}]
  BY DEF IInv, TypeOK, Levels
<1>2. CASE level = 1
  <2>1. v \in Credentials
    BY <1>2 DEF CanChoose
  <2>2. Prefix(choices, level - 1) = << >>
    BY <1>1, <1>2, PrefixIs DEF LastLevel
  <2>3. Append(Prefix(choices, level - 1), v) = <<v>>
    <3>1. Append(<< >>, v) = <<v>>
      OBVIOUS
    <3> QED
      BY <2>2, <3>1, Zenon
  <2>4. <<v>> \in DOMAIN Cloud
    BY <2>1, ListenerPickerAssumption DEF ListenerPickerAssumption
  <2>5. Append(Prefix(choices, level - 1), v) \in DOMAIN Cloud
    BY <2>3, <2>4, Zenon
  <2>6. QED
    BY <1>2, <2>1, <2>5
<1>3. CASE level > 1
  <2>1. level \in 2..LastLevel /\ v \in offered[level]
    BY <1>3 DEF CanChoose, Levels, LastLevel
  <2>2. Prefix(choices, level - 1) \in DOMAIN Cloud /\ v \in Cloud[Prefix(choices, level - 1)]
    BY <2>1 DEF IInv, OfferedInv
  <2>3. Len(Prefix(choices, level - 1)) = level - 1
    BY <1>1, <2>1, LongerPrefix DEF Levels, LastLevel
  <2>4. level < LastLevel => Append(Prefix(choices, level - 1), v) \in DOMAIN Cloud
    BY <2>1, <2>2, <2>3, ListenerPickerAssumption DEF ListenerPickerAssumption, LastLevel
  <2>5. QED
    BY <1>3, <2>2, <2>4
<1>4. QED
  BY <1>2, <1>3 DEF Levels, LastLevel

LEMMA ChooseKeeps ==
  ASSUME IInv, NEW level \in Levels, NEW v \in Values, Choose(level, v)
  PROVE  IInv'
<1> USE DEF Levels, LastLevel
<1>1. choices \in [Levels -> Values \cup {None}]
  BY DEF IInv, TypeOK
<1>2. /\ choices' \in [Levels -> Values \cup {None}]
      /\ \A l \in Levels : choices'[l] = IF l < level THEN choices[l]
                                         ELSE IF l = level THEN v ELSE None
  BY <1>1 DEF Choose
<1>3. \A n \in 0..(level - 1) : Prefix(choices', n) = Prefix(choices, n)
  <2> TAKE n \in 0..(level - 1)
  <2>1. n \in 0..LastLevel /\ \A i \in 1..n : choices'[i] = choices[i]
    BY <1>2
  <2> QED
    BY <1>1, <1>2, <2>1, SamePrefix
<1>4. Prefix(choices', level) = Append(Prefix(choices, level - 1), v)
      /\ Len(Prefix(choices', level)) = level
  BY <1>2, <1>3, LongerPrefix
<1>5. offered' = [l \in 2..LastLevel |-> IF l > level THEN {} ELSE offered[l]]
  BY DEF Choose, ClearFrom, IInv, TypeOK
<1>6. OfferedInv'
  <2> SUFFICES ASSUME NEW l \in 2..LastLevel, offered'[l] # {}
               PROVE  Prefix(choices', l - 1) \in DOMAIN Cloud
                      /\ offered'[l] = Cloud[Prefix(choices', l - 1)]
    BY DEF OfferedInv
  <2>1. l <= level /\ offered'[l] = offered[l]
    BY <1>5
  <2>2. Prefix(choices', l - 1) = Prefix(choices, l - 1)
    BY <1>3, <2>1
  <2> QED
    BY <2>1, <2>2 DEF IInv, OfferedInv
<1>7. \A g \in fetches' : \/ g \in fetches /\ level = LastLevel
                          \/ \E f \in fetches : g = [f EXCEPT !.live = f.live /\ Len(f.path) < level]
                          \/ /\ level < LastLevel
                             /\ g = [path |-> Prefix(choices', level), live |-> TRUE]
  BY <1>4 DEF Choose, AbortFrom, Upto, Prefix
<1>8. level < LastLevel => Prefix(choices', level) \in DOMAIN Cloud
  BY <1>4, ChosenBelow DEF Choose
<1>9. ASSUME NEW g \in fetches'
      PROVE  /\ g \in [path : Paths, live : BOOLEAN]
             /\ g.live => /\ Len(g.path) \in 1..LastLevel - 1
                          /\ g.path = Prefix(choices', Len(g.path))
                          /\ g.path \in DOMAIN Cloud
  <2> DEFINE Good == /\ g \in [path : Paths, live : BOOLEAN]
                     /\ g.live => /\ Len(g.path) \in 1..LastLevel - 1
                                  /\ g.path = Prefix(choices', Len(g.path))
                                  /\ g.path \in DOMAIN Cloud
  <2>1. ASSUME NEW f \in fetches, g.path = f.path, g.live \in BOOLEAN,
               g \in [path : Paths, live : BOOLEAN],
               g.live => f.live /\ Len(f.path) < level
        PROVE  Good
    BY <1>3, <2>1 DEF IInv, LiveInv
  <2>2. CASE g \in fetches /\ level = LastLevel
    <3>1. g \in [path : Paths, live : BOOLEAN]
      BY <2>2 DEF IInv, TypeOK
    <3>2. g.live => Len(g.path) < level
      <4> SUFFICES ASSUME g.live PROVE Len(g.path) < level
        OBVIOUS
      <4>1. Len(g.path) \in 1..LastLevel - 1
        BY <2>2 DEF IInv, LiveInv
      <4>2. \A n \in 1..LastLevel - 1 : n < LastLevel
        OBVIOUS
      <4> QED
        BY <2>2, <4>1, <4>2, Zenon
    <3> QED
      BY <2>1, <2>2, <3>1, <3>2
  <2>3. ASSUME NEW f \in fetches, g = [f EXCEPT !.live = f.live /\ Len(f.path) < level]
        PROVE  Good
    <3>1. f \in [path : Paths, live : BOOLEAN]
      BY DEF IInv, TypeOK
    <3>2. g \in [path : Paths, live : BOOLEAN] /\ g.path = f.path
          /\ (g.live <=> f.live /\ Len(f.path) < level)
      BY <2>3, <3>1
    <3> QED
      BY <2>1, <3>2
  <2>4. CASE level < LastLevel /\ g = [path |-> Prefix(choices', level), live |-> TRUE]
    <3>1. Prefix(choices', level) \in Paths
      BY <1>8, <2>4, ListenerPickerAssumption DEF ListenerPickerAssumption
    <3> QED
      BY <1>4, <1>8, <2>4, <3>1
  <2> QED
    BY <1>7, <2>2, <2>3, <2>4
<1>10. LiveInv' /\ (fetches \in SUBSET [path : Paths, live : BOOLEAN])'
  BY <1>9 DEF LiveInv
<1>11. TypeOK'
  <2>1. offered' \in [2..LastLevel -> SUBSET Values]
    BY <1>5 DEF IInv, TypeOK
  <2>2. UNCHANGED <<open, editing, inline, guidance, submitted>>
    BY DEF Choose, dialogVars
  <2> QED
    BY <1>2, <1>10, <2>1, <2>2 DEF IInv, TypeOK
<1>12. InlineTargetExists'
  <2>1. IsPath(submitted)'
    BY DEF Choose, IsPath, IInv, InlineTargetExists
  <2>2. ASSUME NEW l \in Levels, choices'[l] # None
        PROVE  IF l = 1 THEN choices'[l] \in Credentials
               ELSE Prefix(choices', l - 1) \in DOMAIN Cloud
                    /\ choices'[l] \in Cloud[Prefix(choices', l - 1)]
    <3>1. l <= level /\ Prefix(choices', l - 1) = Prefix(choices, l - 1)
      BY <1>2, <1>3, <2>2
    <3>2. CASE l = level
      BY <1>2, <3>1, <3>2, ChosenBelow DEF Choose
    <3>3. CASE l < level
      <4>1. choices'[l] = choices[l]
        BY <1>2, <3>3
      <4>2. IsPath(choices)
        BY DEF IInv, InlineTargetExists
      <4> QED
        BY <2>2, <3>1, <4>1, <4>2 DEF IsPath, Prefix
    <3> QED
      BY <3>1, <3>2, <3>3
  <2>3. IsPath(choices)'
    BY <2>2 DEF IsPath, Prefix
  <2> QED
    BY <2>1, <2>3 DEF InlineTargetExists
<1>13. QED
  BY <1>6, <1>10, <1>11, <1>12 DEF IInv

LEMMA ArrivalKeeps ==
  ASSUME IInv, NEW f \in fetches, FetchArrives(f)
  PROVE  IInv'
<1> USE DEF LastLevel
<1>1. fetches' \subseteq fetches /\ UNCHANGED <<dialogVars, choices, submitted>>
  BY DEF FetchArrives
<1>2. CASE ~f.live
  <2>1. UNCHANGED offered
    BY <1>2 DEF FetchArrives, Receive
  <2> QED
    BY <1>1, <2>1 DEF IInv, TypeOK, LiveInv, OfferedInv, InlineTargetExists, IsPath, dialogVars
<1>3. CASE f.live
  <2> DEFINE k == Len(f.path) + 1
  <2>1. /\ k \in 2..LastLevel
        /\ Prefix(choices, k - 1) \in DOMAIN Cloud
        /\ Cloud[f.path] = Cloud[Prefix(choices, k - 1)]
        /\ Cloud[f.path] \subseteq Values
    <3>1. /\ Len(f.path) \in 1..LastLevel - 1
          /\ f.path = Prefix(choices, Len(f.path))
          /\ f.path \in DOMAIN Cloud
      BY <1>3 DEF IInv, LiveInv
    <3>2. k \in 2..LastLevel /\ k - 1 = Len(f.path)
      <4>1. \A n \in 1..LastLevel - 1 : n + 1 \in 2..LastLevel /\ (n + 1) - 1 = n
        OBVIOUS
      <4> QED
        BY <3>1, <4>1, Zenon
    <3> QED
      BY <3>1, <3>2, Listed
  <2>2. offered' = [offered EXCEPT ![k] = Cloud[Prefix(choices, k - 1)]]
    BY <1>3, <2>1 DEF FetchArrives, Receive
  <2> HIDE DEF k
  <2>3. offered' \in [2..LastLevel -> SUBSET Values]
    BY <2>1, <2>2 DEF IInv, TypeOK
  <2>4. OfferedInv'
    BY <1>1, <2>1, <2>2 DEF IInv, TypeOK, OfferedInv
  <2> QED
    BY <1>1, <2>3, <2>4 DEF IInv, TypeOK, LiveInv, InlineTargetExists, IsPath, dialogVars
<1>4. QED
  BY <1>2, <1>3

LEMMA NewKeeps ==
  ASSUME IInv, OpenNewAutomation
  PROVE  IInv'
<1> USE DEF LastLevel
<1>1. choices' = Unchosen /\ UNCHANGED <<guidance, submitted>>
      /\ open' = TRUE /\ editing' = FALSE /\ inline' = TRUE
  BY DEF OpenNewAutomation
<1>2. offered' = [l \in 2..LastLevel |-> {}]
  BY DEF OpenNewAutomation, ClearFrom, IInv, TypeOK
<1>3. \A g \in fetches' : g \in [path : Paths, live : BOOLEAN] /\ ~g.live
  <2> TAKE g \in fetches'
  <2>1. PICK f \in fetches : g = [f EXCEPT !.live = f.live /\ Len(f.path) < 1]
    BY DEF OpenNewAutomation, AbortFrom
  <2>2. f \in [path : Paths, live : BOOLEAN] /\ (f.live => Len(f.path) \in 1..LastLevel - 1)
    BY DEF IInv, TypeOK, LiveInv
  <2>3. ~(f.live /\ Len(f.path) < 1)
    BY <2>2
  <2> QED
    BY <2>1, <2>2, <2>3
<1>4. TypeOK'
  BY <1>1, <1>2, <1>3 DEF IInv, TypeOK, Unchosen
<1>5. LiveInv' /\ OfferedInv'
  BY <1>2, <1>3 DEF LiveInv, OfferedInv
<1>6. IsPath(choices)'
  BY <1>1 DEF IsPath, Unchosen
<1>7. IsPath(submitted)'
  BY <1>1 DEF IInv, InlineTargetExists, IsPath
<1>8. QED
  BY <1>4, <1>5, <1>6, <1>7 DEF IInv, InlineTargetExists

LEMMA StepIInv == IInv /\ [Next]_vars => IInv'
<1> SUFFICES ASSUME IInv, [Next]_vars PROVE IInv'
  OBVIOUS
<1>1. ASSUME NEW level \in 1..LastLevel, NEW v \in Values, Choose(level, v) PROVE IInv'
  BY <1>1, ChooseKeeps DEF Levels
<1>2. ASSUME NEW f \in fetches, FetchArrives(f) PROVE IInv'
  BY <1>2, ArrivalKeeps
<1>3. CASE OpenNewAutomation
  BY <1>3, NewKeeps
<1>4. ASSUME fetches' \subseteq fetches, UNCHANGED <<choices, offered>>,
             submitted' \in {submitted, choices},
             {open', editing', inline', guidance'} \subseteq BOOLEAN
      PROVE  IInv'
  <2>1. LiveInv' /\ OfferedInv'
    BY <1>4 DEF IInv, LiveInv, OfferedInv
  <2>2. IsPath(choices)' /\ IsPath(submitted)'
    BY <1>4 DEF IInv, InlineTargetExists, IsPath
  <2>3. TypeOK'
    BY <1>4 DEF IInv, TypeOK
  <2> QED
    BY <2>1, <2>2, <2>3 DEF IInv, InlineTargetExists
<1>5. {open, editing, inline, guidance} \subseteq BOOLEAN
  BY DEF IInv, TypeOK
<1>6. ASSUME NEW f \in fetches, FetchFails(f) PROVE IInv'
  BY <1>4, <1>5, <1>6 DEF FetchFails, ShowGuidance
<1>7. CASE DismissGuidance \/ EditAutomation \/ UseExistingTargets \/ CloseAutomationEditor
  BY <1>4, <1>5, <1>7 DEF DismissGuidance, EditAutomation, UseExistingTargets,
                          CloseAutomationEditor, pickerVars
<1>8. CASE Submit
  BY <1>4, <1>5, <1>8 DEF Submit, dialogVars
<1>9. CASE UNCHANGED vars
  BY <1>4, <1>5, <1>9 DEF vars
<1>10. QED
  BY <1>1, <1>2, <1>3, <1>6, <1>7, <1>8, <1>9 DEF Next

LEMMA InitIInv == Init => IInv
<1> SUFFICES ASSUME Init PROVE IInv
  OBVIOUS
<1> USE DEF Init, LastLevel
<1>1. TypeOK
  BY DEF TypeOK, Unchosen
<1>2. LiveInv /\ OfferedInv
  BY DEF LiveInv, OfferedInv
<1>3. InlineTargetExists
  BY DEF InlineTargetExists, IsPath, Unchosen
<1>4. QED
  BY <1>1, <1>2, <1>3 DEF IInv

---------------------------------------------------------------------------
(***************************************************************************)
(* What the selects of the automation page hold, and what its form sends,  *)
(* is a path of the cloud, in whatever order the lists of regions, load    *)
(* balancers and listeners arrive (deployment-manager.tsx).                *)
(***************************************************************************)
THEOREM TargetExists == Spec => []InlineTargetExists
<1>1. IInv => InlineTargetExists
  BY DEF IInv
<1>2. QED
  BY <1>1, InitIInv, StepIInv, PTL DEF Spec

(* Every variable of the choice has its type.                              *)
THEOREM PickerTypes == Spec => []TypeOK
<1>1. IInv => TypeOK
  BY DEF IInv
<1>2. QED
  BY <1>1, InitIInv, StepIInv, PTL DEF Spec
=============================================================================
