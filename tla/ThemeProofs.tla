----------------------------- MODULE ThemeProofs -----------------------------
(***************************************************************************)
(* Theorems about Theme, for any set of themes and any number of picks,    *)
(* reloads, failures and writes of other tabs.                             *)
(***************************************************************************)
EXTENDS Theme, SequenceTheorems, TLAPS

USE ThemesAssumption

(* Nothing is picked before the page has booted. *)
Phases ==
  /\ booting # Null => applied = Null /\ picked = Null
  /\ picked # Null => applied # Null
  /\ picked = Null => loading = <<>> /\ landed = <<>>

(* What the next visit boots with is what the document has, and what the   *)
(* picker has or is about to get from the last pick that was persisted.    *)
InStep ==
  disturbed = FALSE =>
    /\ booting # Null => booting = ResolveTheme
    /\ applied # Null => applied = ResolveTheme
    /\ (picked # Null /\ landed = <<>>) => picked = ResolveTheme
    /\ landed # <<>> => landed[Len(landed)] = ResolveTheme

Inv == TypeOK /\ Phases /\ InStep

LEMMA ResolvedIsBundled == ResolveTheme \in BundledThemes
BY DEF ResolveTheme

(* One settled switch is taken out of those awaited. *)
LEMMA SettledSwitch ==
  ASSUME TypeOK, NEW i \in 1..Len(loading)
  PROVE  /\ loading[i] \in BundledThemes
         /\ RemoveAt(loading, i) \in Seq(BundledThemes)
         /\ loading # <<>>
<1>1. loading \in Seq(BundledThemes)
  BY DEF TypeOK
<1>2. loading[i] \in BundledThemes /\ loading # <<>>
  BY <1>1
<1>3. /\ SubSeq(loading, 1, i - 1) \in Seq(BundledThemes)
      /\ SubSeq(loading, i + 1, Len(loading)) \in Seq(BundledThemes)
  BY <1>1
<1>. QED
  BY <1>2, <1>3 DEF RemoveAt

LEMMA InitInv == Init => Inv
<1>. SUFFICES ASSUME Init PROVE Inv
  OBVIOUS
<1>1. TypeOK
  <2>1. loading \in Seq(BundledThemes) /\ landed \in Seq(BundledThemes)
    BY DEF Init
  <2>2. disturbed \in BOOLEAN
    BY Zenon DEF Init
  <2>. QED
    BY <2>1, <2>2, ResolvedIsBundled DEF Init, TypeOK
<1>2. Phases /\ InStep
  BY DEF Init, Phases, InStep
<1>. QED
  BY <1>1, <1>2 DEF Inv

LEMMA BootKeepsInv == Inv /\ (BootLoaded \/ BootFails \/ Mount) => Inv'
<1>. SUFFICES ASSUME Inv PROVE BootLoaded \/ BootFails \/ Mount => Inv'
  OBVIOUS
<1>1. ASSUME BootLoaded \/ BootFails PROVE Inv'
  <2>1. /\ booting # Null /\ applied' = booting /\ booting' = Null
        /\ UNCHANGED <<configured, stored, picked, loading, landed, disturbed>>
    BY <1>1 DEF BootLoaded, BootFails
  <2>2. TypeOK'
    BY <1>1 DEF BootLoaded, BootFails, Inv, TypeOK, counts
  <2>3. Phases' /\ InStep'
    BY <2>1 DEF Inv, Phases, InStep, ResolveTheme
  <2>. QED
    BY <2>2, <2>3 DEF Inv
<1>2. ASSUME Mount PROVE Inv'
  <2>1. /\ applied # Null /\ picked = Null /\ picked' = ResolveTheme
        /\ UNCHANGED <<configured, stored, loaded, booting, applied, loading, landed, disturbed,
                       counts>>
    BY <1>2 DEF Mount
  <2>2. TypeOK'
    BY <2>1, ResolvedIsBundled DEF Inv, TypeOK, counts
  <2>3. Phases' /\ InStep'
    BY <2>1, ResolvedIsBundled DEF Inv, Phases, InStep, ResolveTheme
  <2>. QED
    BY <2>2, <2>3 DEF Inv
<1>. QED
  BY <1>1, <1>2

LEMMA LandedKeepsInv ==
  ASSUME Inv, NEW i \in 1..Len(loading), Landed(i)
  PROVE  Inv'
<1>1. /\ loading[i] \in BundledThemes /\ loading # <<>>
      /\ RemoveAt(loading, i) \in Seq(BundledThemes)
  BY SettledSwitch DEF Inv
<1>2. picked # Null /\ booting = Null /\ landed \in Seq(BundledThemes)
  BY <1>1 DEF Inv, Phases, TypeOK
<1>3. PICK theme \in BundledThemes : theme = loading[i]
  BY <1>1
<1>4. /\ applied' = theme /\ stored' = theme /\ landed' = Append(landed, theme)
      /\ loaded' = loaded \cup {theme} /\ loading' = RemoveAt(loading, i)
      /\ disturbed' = FALSE
      /\ UNCHANGED <<configured, booting, picked, counts>>
  BY <1>3 DEF Landed
<1>5. /\ landed' \in Seq(BundledThemes) /\ landed' # <<>>
      /\ landed'[Len(landed')] = theme
  BY <1>2, <1>3, <1>4
<1>6. ResolveTheme' = theme
  BY <1>3, <1>4 DEF ResolveTheme
<1>7. TypeOK'
  BY <1>1, <1>3, <1>4, <1>5 DEF Inv, TypeOK, counts, Names
<1>8. Phases' /\ InStep'
  BY <1>2, <1>3, <1>4, <1>5, <1>6 DEF Phases, InStep
<1>. QED
  BY <1>7, <1>8 DEF Inv

LEMMA FailureKeepsInv ==
  ASSUME Inv, NEW i \in 1..Len(loading), NotPersisted(i) \/ NotLoaded(i)
  PROVE  Inv'
<1>1. /\ loading[i] \in BundledThemes /\ loading # <<>>
      /\ RemoveAt(loading, i) \in Seq(BundledThemes)
  BY SettledSwitch DEF Inv
<1>2. picked # Null /\ booting = Null
  BY <1>1 DEF Inv, Phases
<1>3. failures' \in 0..MaxFailures
  <2>1. failures < MaxFailures /\ failures' = failures + 1
    BY DEF NotPersisted, NotLoaded
  <2>. QED
    BY <2>1 DEF Inv, TypeOK
<1>4. CASE NotPersisted(i)
  <2>1. TypeOK'
    BY <1>1, <1>3, <1>4 DEF NotPersisted, Inv, TypeOK
  <2>2. Phases' /\ InStep'
    BY <1>1, <1>2, <1>4 DEF NotPersisted, Phases, InStep
  <2>. QED
    BY <2>1, <2>2 DEF Inv
<1>5. CASE NotLoaded(i)
  <2>1. TypeOK'
    BY <1>1, <1>3, <1>5 DEF NotLoaded, Inv, TypeOK
  <2>2. Phases' /\ InStep'
    BY <1>2, <1>5 DEF NotLoaded, Inv, Phases, InStep, ResolveTheme
  <2>. QED
    BY <2>1, <2>2 DEF Inv
<1>. QED
  BY <1>4, <1>5

LEMMA ResumedKeepsInv == Inv /\ Resumed => Inv'
<1>. SUFFICES ASSUME Inv, Resumed PROVE Inv'
  OBVIOUS
<1>1. /\ landed # <<>> /\ picked' = Head(landed) /\ landed' = Tail(landed)
      /\ UNCHANGED <<configured, stored, loaded, booting, applied, loading, disturbed, counts>>
  BY DEF Resumed
<1>2. landed \in Seq(BundledThemes)
  BY DEF Inv, TypeOK
<1>3. /\ Head(landed) \in BundledThemes /\ Tail(landed) \in Seq(BundledThemes)
      /\ Tail(landed) = <<>> => Head(landed) = landed[Len(landed)]
      /\ Tail(landed) # <<>> => Tail(landed)[Len(Tail(landed))] = landed[Len(landed)]
  <2>1. /\ Len(landed) \in Nat \ {0} /\ Head(landed) = landed[1]
        /\ Tail(landed) \in Seq(BundledThemes) /\ Len(Tail(landed)) = Len(landed) - 1
        /\ \A n \in 1..Len(Tail(landed)) : Tail(landed)[n] = landed[n + 1]
    BY <1>1, <1>2
  <2>2. Tail(landed) = <<>> <=> Len(Tail(landed)) = 0
    BY <2>1, EmptySeq
  <2>. QED
    BY <1>2, <2>1, <2>2
<1>4. picked # Null /\ applied # Null /\ booting = Null
  BY <1>1 DEF Inv, Phases
<1>5. TypeOK'
  BY <1>1, <1>3 DEF Inv, TypeOK, counts
<1>6. Phases' /\ InStep'
  BY <1>1, <1>3, <1>4 DEF Inv, Phases, InStep, ResolveTheme
<1>. QED
  BY <1>5, <1>6 DEF Inv

LEMMA NextKeepsInv == Inv /\ [Next]_vars => Inv'
<1>. SUFFICES ASSUME Inv, [Next]_vars PROVE Inv'
  OBVIOUS
<1>1. CASE BootLoaded \/ BootFails \/ Mount
  BY <1>1, BootKeepsInv
<1>2. ASSUME NEW next \in BundledThemes, Pick(next) PROVE Inv'
  <2>1. /\ picked # Null /\ loading' = Append(loading, next)
        /\ switches' \in 0..MaxSwitches
        /\ UNCHANGED <<configured, stored, loaded, booting, applied, picked, landed, disturbed,
                       reloads, failures, foreign>>
    BY <1>2 DEF Pick, Inv, TypeOK
  <2>2. TypeOK'
    BY <2>1 DEF Inv, TypeOK
  <2>3. Phases' /\ InStep'
    BY <2>1 DEF Inv, Phases, InStep, ResolveTheme
  <2>. QED
    BY <2>2, <2>3 DEF Inv
<1>3. CASE SwitchSettles
  BY <1>3, LandedKeepsInv, FailureKeepsInv DEF SwitchSettles
<1>4. CASE Resumed
  BY <1>4, ResumedKeepsInv
<1>5. CASE Reload
  <2>1. TypeOK'
    <3>1. loading' \in Seq(BundledThemes) /\ landed' \in Seq(BundledThemes)
      BY <1>5 DEF Reload
    <3>2. reloads' \in 0..MaxReloads
      BY <1>5 DEF Reload, Inv, TypeOK
    <3>. QED
      BY <1>5, <3>1, <3>2, ResolvedIsBundled DEF Reload, Inv, TypeOK
  <2>2. Phases' /\ InStep'
    BY <1>5 DEF Reload, Phases, InStep, ResolveTheme
  <2>. QED
    BY <2>1, <2>2 DEF Inv
<1>6. ASSUME NEW name \in BundledThemes \cup {Null}, OtherTab(name) PROVE Inv'
  <2>1. TypeOK'
    BY <1>6 DEF OtherTab, Inv, TypeOK, Names, page
  <2>2. Phases' /\ InStep'
    BY <1>6 DEF OtherTab, Inv, Phases, InStep, page
  <2>. QED
    BY <2>1, <2>2 DEF Inv
<1>7. CASE UNCHANGED vars
  BY <1>7 DEF vars, page, counts, Inv, TypeOK, Phases, InStep, ResolveTheme
<1>. QED
  BY <1>1, <1>2, <1>3, <1>4, <1>5, <1>6, <1>7 DEF Next

LEMMA InvHolds == Spec => []Inv
BY InitInv, NextKeepsInv, PTL DEF Spec

(* theme.ts: what the page boots with, applies and offers is always a      *)
(* theme it has a stylesheet for.                                          *)
THEOREM TypeCorrect == Spec => []TypeOK
<1>1. Inv => TypeOK
  BY DEF Inv
<1>. QED
  BY <1>1, InvHolds, PTL

(* theme.ts and App.tsx: once every switch has settled, the document, the  *)
(* picker and the next visit agree on the theme, however many switches     *)
(* overlapped and in whatever order their stylesheets came or failed.      *)
THEOREM OneThemeHolds == Spec => []OneTheme
<1>1. Inv => OneTheme
  <2>. SUFFICES ASSUME Inv, AtRest, disturbed = FALSE
                PROVE  applied = picked /\ picked = ResolveTheme
    BY Zenon DEF OneTheme, Inv, TypeOK
  <2>. QED
    BY DEF Inv, Phases, InStep, AtRest
<1>. QED
  BY <1>1, InvHolds, PTL
=============================================================================
