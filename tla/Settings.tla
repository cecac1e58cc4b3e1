------------------------------- MODULE Settings -------------------------------
(***************************************************************************)
(* Start-up and the theme.  main() waits for the 'settings' box before it  *)
(* runs the application with the theme stored there; the splash page gives *)
(* way to the bottom bar, whose drawer holds the theme's switch.  A tap on *)
(* the switch waits for the box again, then stores the other theme without *)
(* waiting for the write, and shows it.                                    *)
(*                                                                         *)
(* Hive is not part of the repository: writes of a box reach its file one  *)
(* at a time in the order of the puts, a write may fail, and what has not  *)
(* reached the file is lost with the process.                              *)
(***************************************************************************)
EXTENDS Naturals, Sequences

CONSTANT MaxToggles  \* Bound: toggles waiting for the box, and writes under way

ASSUME SettingsAssumption == MaxToggles \in Nat

VARIABLES
  stage,    \* how far the process is
  stored,   \* isLightTheme in the box's file
  theme,    \* EbookTheme.isLight
  toggles,  \* calls of toggleThemeData that wait for the box
  writing,  \* themes put whose write has not ended, oldest first
  failed,   \* the write that ended last failed; history
  left      \* the theme at the last stop, if nothing was under way; history

settingsVars == <<stage, stored, theme, toggles, writing, failed, left>>

Themes == {"light", "dark"}
NoTheme == "none"
Stages == {"stopped", "main", "locale", "splash", "bar"}
Showing == stage \in {"locale", "splash", "bar"}

SettingsTypeOK ==
  /\ stage \in Stages
  /\ stored \in Themes \union {NoTheme} /\ theme \in Themes
  /\ toggles \in Nat
  /\ writing \in Seq(Themes)
  /\ toggles + Len(writing) <= MaxToggles
  /\ failed \in BOOLEAN
  /\ left \in Themes \union {NoTheme}
  /\ stage # "bar" => toggles = 0 /\ writing = <<>>

SettingsInit ==
  /\ stage = "stopped" /\ stored = NoTheme /\ theme = "light"
  /\ toggles = 0 /\ writing = <<>> /\ failed = FALSE /\ left = NoTheme

Other(t) == IF t = "light" THEN "dark" ELSE "light"

\* Mutant of Restored: the default wins over what is stored.
RestoredDefault(s) == "light"

\* isLightTheme ?? true
Restored(s) == IF s = NoTheme THEN "light" ELSE s

Launch ==
  /\ stage = "stopped" /\ stage' = "main"
  /\ UNCHANGED <<stored, theme, toggles, writing, failed, left>>

\* The box is open: runApp with the theme it holds.
RunApp ==
  /\ stage = "main" /\ stage' = "locale"
  /\ theme' = Restored(stored)
  /\ UNCHANGED <<stored, toggles, writing, failed, left>>

\* The locale has been read; MaterialApp builds the splash page.
LocaleRead ==
  /\ stage = "locale" /\ stage' = "splash"
  /\ UNCHANGED <<stored, theme, toggles, writing, failed, left>>

ChangeScreen ==
  /\ stage = "splash" /\ stage' = "bar"
  /\ UNCHANGED <<stored, theme, toggles, writing, failed, left>>

TapSwitch ==
  /\ stage = "bar"
  /\ toggles + Len(writing) < MaxToggles
  /\ toggles' = toggles + 1
  /\ UNCHANGED <<stage, stored, theme, writing, failed, left>>

\* Mutant of toggleThemeData: the theme is stored after it was turned over.
toggleThemeDataLate ==
  /\ toggles > 0
  /\ toggles' = toggles - 1
  /\ theme' = Other(theme)
  /\ writing' = Append(writing, Other(Other(theme)))
  /\ left' = NoTheme
  /\ UNCHANGED <<stage, stored, failed>>

\* toggleThemeData from the open box on: nothing comes between put and flip.
toggleThemeData ==
  /\ toggles > 0
  /\ toggles' = toggles - 1
  /\ writing' = Append(writing, Other(theme))
  /\ theme' = Other(theme)
  /\ left' = NoTheme
  /\ UNCHANGED <<stage, stored, failed>>

\* Nobody awaits the put, so nobody hears of a write that failed.
WriteEnds ==
  /\ writing # <<>>
  /\ \/ stored' = Head(writing) /\ failed' = FALSE
     \/ stored' = stored /\ failed' = TRUE
  /\ writing' = Tail(writing)
  /\ UNCHANGED <<stage, theme, toggles, left>>

\* Nothing is under way, and the last write did not fail.
Calm == toggles = 0 /\ writing = <<>> /\ ~failed

\* The process ends, at any time.
Stop ==
  /\ stage # "stopped" /\ stage' = "stopped"
  /\ left' = IF ~Showing THEN left ELSE IF Calm THEN theme ELSE NoTheme
  /\ toggles' = 0 /\ writing' = <<>> /\ failed' = FALSE
  /\ UNCHANGED <<stored, theme>>

SettingsNext ==
  \/ Launch \/ RunApp \/ LocaleRead \/ ChangeScreen
  \/ TapSwitch \/ toggleThemeData \/ WriteEnds \/ Stop

SettingsSpec == SettingsInit /\ [][SettingsNext]_settingsVars

-----------------------------------------------------------------------------

\* However many taps on the switch overlapped: once every put has been written,
\* the file holds the theme the application shows, unless the last write failed.
ThemeIsKept == Showing /\ Calm => Restored(stored) = theme

\* A process that stopped with nothing under way is started with the theme it
\* showed last, however often it is stopped again before it has come up; from
\* main's read of the box and toggleThemeData's put.
RestartKeepsTheme == Showing /\ left # NoTheme => theme = left
=============================================================================
