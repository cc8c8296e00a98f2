-------------------------------- MODULE Theme --------------------------------
(***************************************************************************)
(* The theme of one page: bootTheme and setTheme of theme.ts, the picker   *)
(* of App.tsx that calls them, and the localStorage they share with the    *)
(* browser's other tabs.                                                   *)
(*                                                                         *)
(* A stylesheet is fetched when its loader is first called, and its        *)
(* promise resolves once the stylesheet is in the page; the fetch may      *)
(* fail.  setTheme awaits it, then applies and persists in one step;       *)
(* handleThemeChange updates the picker in a later microtask, and          *)
(* microtasks run in the order they were queued.  The artwork's scheme     *)
(* (schemeOf) is a function of the theme and follows it.                   *)
(*                                                                         *)
(* Of localStorage only setItem may throw here.  Reading it is taken to    *)
(* work: resolveTheme reads outside the try of bootTheme, so where the     *)
(* browser forbids it nothing is mounted, and no model is needed to see it.*)
(***************************************************************************)
EXTENDS Naturals, Sequences, SequencesExt

CONSTANTS
  Null,
  BundledThemes,
  DefaultTheme,
  Unbundled,     \* a name without a stylesheet: a typo, or a theme since dropped
  MaxSwitches,   \* bound: picks
  MaxReloads,    \* bound: reloads of the page
  MaxFailures,   \* bound: fetches that fail and setItem calls that throw
  MaxForeign     \* bound: writes of other tabs

ASSUME ThemesAssumption ==
  /\ DefaultTheme \in BundledThemes
  /\ Unbundled \notin BundledThemes
  /\ Null \notin BundledThemes \cup {Unbundled}
  /\ MaxSwitches \in Nat /\ MaxReloads \in Nat
  /\ MaxFailures \in Nat /\ MaxForeign \in Nat

Names == BundledThemes \cup {Unbundled, Null}

VARIABLES
  configured,  \* VITE_KENZEN_THEME of the build, Null when unset
  stored,      \* localStorage's "kenzen.theme", Null when unset
  loaded,      \* the stylesheets in the page
  booting,     \* the theme bootTheme awaits, or Null
  applied,     \* data-rb-style of the document, Null when unset
  picked,      \* App's state, the picker's value; Null until App mounts
  loading,     \* the picks whose stylesheet setTheme awaits
  landed,      \* the picks persisted, whose handler has yet to resume
  disturbed,   \* history: a write of another tab, or a setItem that threw,
               \* came after the last pick that went through
  switches, reloads, failures, foreign

page == <<loaded, booting, applied, picked, loading, landed>>
counts == <<switches, reloads, failures, foreign>>
vars == <<configured, stored, page, disturbed, counts>>

(* Mutant: the deployment's name is not checked. *)
ResolveTheme_TrustsBuild ==
  IF stored \in BundledThemes THEN stored
  ELSE IF configured # Null THEN configured
  ELSE DefaultTheme

(* resolveTheme: the viewer's choice, else the build's, else the default. *)
ResolveTheme ==
  IF stored \in BundledThemes THEN stored
  ELSE IF configured \in BundledThemes THEN configured
  ELSE DefaultTheme

-----------------------------------------------------------------------------
(* Boot: main.tsx up to the first render. *)

BootLoaded ==
  /\ booting # Null
  /\ loaded' = loaded \cup {booting}
  /\ applied' = booting
  /\ booting' = Null
  /\ UNCHANGED <<configured, stored, picked, loading, landed, disturbed, counts>>

(* Mutant: the rejection reaches the top-level await of main.tsx. *)
BootFails_Rethrown ==
  /\ booting # Null
  /\ failures < MaxFailures
  /\ failures' = failures + 1
  /\ booting' = Null
  /\ UNCHANGED <<configured, stored, loaded, applied, picked, loading, landed, disturbed,
                 switches, reloads, foreign>>

(* The rejection is caught, and the theme applied without its stylesheet. *)
BootFails ==
  /\ booting # Null
  /\ failures < MaxFailures
  /\ failures' = failures + 1
  /\ applied' = booting
  /\ booting' = Null
  /\ UNCHANGED <<configured, stored, loaded, picked, loading, landed, disturbed,
                 switches, reloads, foreign>>

(* bootTheme returned: App mounts, and resolves the theme once more. *)
Mount ==
  /\ applied # Null
  /\ picked = Null
  /\ picked' = ResolveTheme
  /\ UNCHANGED <<configured, stored, loaded, booting, applied, loading, landed, disturbed,
                 counts>>

-----------------------------------------------------------------------------
(* The picker: handleThemeChange and setTheme. *)

(* Mutant: the choice is persisted before its stylesheet is loaded. *)
Pick_Persists(next) ==
  /\ picked # Null /\ next # picked
  /\ switches < MaxSwitches
  /\ switches' = switches + 1
  /\ loading' = Append(loading, next)
  /\ stored' = next
  /\ UNCHANGED <<configured, loaded, booting, applied, picked, landed, disturbed,
                 reloads, failures, foreign>>

Pick(next) ==
  /\ picked # Null /\ next # picked
  /\ switches < MaxSwitches
  /\ switches' = switches + 1
  /\ loading' = Append(loading, next)
  /\ UNCHANGED <<configured, stored, loaded, booting, applied, picked, landed, disturbed,
                 reloads, failures, foreign>>

(* The stylesheet is there: apply, then persist. *)
Landed(i) ==
  /\ loaded' = loaded \cup {loading[i]}
  /\ applied' = loading[i]
  /\ stored' = loading[i]
  /\ landed' = Append(landed, loading[i])
  /\ loading' = RemoveAt(loading, i)
  /\ disturbed' = FALSE
  /\ UNCHANGED <<configured, booting, picked, counts>>

(* The stylesheet is there and setItem throws: handleThemeChange logs it. *)
NotPersisted(i) ==
  /\ failures < MaxFailures
  /\ failures' = failures + 1
  /\ loaded' = loaded \cup {loading[i]}
  /\ applied' = loading[i]
  /\ loading' = RemoveAt(loading, i)
  /\ disturbed' = TRUE
  /\ UNCHANGED <<configured, stored, booting, picked, landed, switches, reloads, foreign>>

(* loadTheme rejects: handleThemeChange logs it. *)
NotLoaded(i) ==
  /\ loading[i] \notin loaded
  /\ failures < MaxFailures
  /\ failures' = failures + 1
  /\ loading' = RemoveAt(loading, i)
  /\ UNCHANGED <<configured, stored, loaded, booting, applied, picked, landed, disturbed,
                 switches, reloads, foreign>>

(* setThemeState, after setTheme resolved. *)
Resumed ==
  /\ landed # <<>>
  /\ picked' = Head(landed)
  /\ landed' = Tail(landed)
  /\ UNCHANGED <<configured, stored, loaded, booting, applied, loading, disturbed, counts>>

-----------------------------------------------------------------------------
(* The browser. *)

Reload ==
  /\ reloads < MaxReloads
  /\ reloads' = reloads + 1
  /\ loaded' = {} /\ loading' = <<>> /\ landed' = <<>>
  /\ applied' = Null /\ picked' = Null
  /\ booting' = ResolveTheme
  /\ disturbed' = FALSE
  /\ UNCHANGED <<configured, stored, switches, failures, foreign>>

(* Another tab persists a choice, or the viewer clears the site's data. *)
OtherTab(name) ==
  /\ foreign < MaxForeign
  /\ foreign' = foreign + 1
  /\ stored' = name
  /\ disturbed' = TRUE
  /\ UNCHANGED <<configured, page, switches, reloads, failures>>

Init ==
  /\ configured \in Names
  /\ stored \in Names
  /\ loaded = {} /\ loading = <<>> /\ landed = <<>>
  /\ applied = Null /\ picked = Null
  /\ booting = ResolveTheme
  /\ disturbed = FALSE
  /\ switches = 0 /\ reloads = 0 /\ failures = 0 /\ foreign = 0

SwitchSettles == \E i \in 1..Len(loading) : Landed(i) \/ NotPersisted(i) \/ NotLoaded(i)

Next ==
  \/ BootLoaded
  \/ BootFails
  \/ Mount
  \/ \E next \in BundledThemes : Pick(next)
  \/ SwitchSettles
  \/ Resumed
  \/ Reload
  \/ \E name \in BundledThemes \cup {Null} : OtherTab(name)

Spec == Init /\ [][Next]_vars

(* A fetch resolves or rejects, and the page's continuations run; nobody   *)
(* has to pick a theme or to reload.                                       *)
FairSpec ==
  /\ Spec
  /\ WF_vars(BootLoaded \/ BootFails)
  /\ WF_vars(Mount)
  /\ WF_vars(SwitchSettles)
  /\ WF_vars(Resumed)

-----------------------------------------------------------------------------
(* Properties. *)

(* What the page boots with, applies and shows is always a bundled theme   *)
(* ("fails safe ... instead of silently shipping an unstyled page").       *)
TypeOK ==
  /\ configured \in Names /\ stored \in Names
  /\ loaded \subseteq BundledThemes
  /\ {booting, applied, picked} \subseteq BundledThemes \cup {Null}
  /\ loading \in Seq(BundledThemes) /\ landed \in Seq(BundledThemes)
  /\ disturbed \in BOOLEAN
  /\ switches \in 0..MaxSwitches /\ reloads \in 0..MaxReloads
  /\ failures \in 0..MaxFailures /\ foreign \in 0..MaxForeign

AtRest == picked # Null /\ loading = <<>> /\ landed = <<>>

(* However many picks overlapped, and whichever of their fetches failed or *)
(* came last: once all is quiet the document, the picker (with the artwork *)
(* drawn for its scheme) and what the next visit boots with are the same   *)
(* theme.  Only a write of another tab, or a setItem that threw, may have  *)
(* parted them since the last pick that went through.                      *)
OneTheme ==
  (AtRest /\ ~disturbed) => applied = picked /\ picked = ResolveTheme

(* The page never stays blank: App mounts after every load of the page,    *)
(* with the stylesheet or without it.                                      *)
PageMounts == picked = Null ~> picked # Null
=============================================================================
