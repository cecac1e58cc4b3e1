----------------------------- MODULE ScreenProofs -----------------------------
(***************************************************************************)
(* Three screens that show a state which something slower follows: the     *)
(* theme and the preferences file that each tap is written to, the counter *)
(* of a PDF document and the native view that turns its pages, and the     *)
(* books of the search page and the server that answers its queries.       *)
(*                                                                         *)
(* For every number of overlapping taps and pending writes, the theme is   *)
(* kept, while the process lives and over its restarts.  For documents of  *)
(* any number of pages, and any number of messages under way between the   *)
(* page and its view, the counter ends at the page shown, and no tap leads *)
(* off the document once everything has arrived.  For any queries, any     *)
(* lists the server may answer and any number of builds of the suggestions,*)
(* the books shown answer the query in the field, and the search page is a *)
(* RequestView: an earlier answer never replaces a later one.              *)
(***************************************************************************)
EXTENDS Settings, PdfPage, Search, SequenceTheorems, TLAPS

\* A sequence without its head.
LEMMA TailOf ==
  ASSUME NEW S, NEW s \in Seq(S), s # <<>>
  PROVE  /\ Head(s) = s[1] /\ Head(s) \in S /\ Tail(s) \in Seq(S)
         /\ Len(s) \in Nat \ {0} /\ Len(Tail(s)) = Len(s) - 1
         /\ \A i \in 1 .. Len(Tail(s)) : Tail(s)[i] = s[i + 1]
         /\ Tail(s) = <<>> <=> Len(s) = 1
<1>1. /\ Head(s) \in S /\ Tail(s) \in Seq(S) /\ Len(Tail(s)) = Len(s) - 1
      /\ \A i \in 1 .. Len(Tail(s)) : Tail(s)[i] = s[i + 1]
  BY HeadTailProperties
<1>2. Len(s) \in Nat \ {0}
  BY EmptySeq
<1>3. Tail(s) = <<>> <=> Len(s) = 1
  <2>1. \A t \in Seq(S) : t = <<>> <=> Len(t) = 0
    BY EmptySeq
  <2>2. Tail(s) = <<>> <=> Len(Tail(s)) = 0
    BY <1>1, <2>1
  <2> QED
    BY <1>1, <1>2, <2>2
<1>4. Head(s) = s[1]
  BY <1>2
<1> QED
  BY <1>1, <1>2, <1>3, <1>4

\* A sequence with one more element.
LEMMA AppendOf ==
  ASSUME NEW S, NEW s \in Seq(S), NEW e \in S
  PROVE  /\ Append(s, e) \in Seq(S) /\ Append(s, e) # <<>>
         /\ Len(s) \in Nat /\ Len(Append(s, e)) = Len(s) + 1
         /\ \A i \in 1 .. Len(s) : Append(s, e)[i] = s[i]
         /\ Append(s, e)[Len(s) + 1] = e
<1>1. /\ Append(s, e) \in Seq(S) /\ Len(Append(s, e)) = Len(s) + 1
      /\ \A i \in 1 .. Len(s) : Append(s, e)[i] = s[i]
      /\ Append(s, e)[Len(s) + 1] = e
  BY AppendProperties
<1>2. Len(s) \in Nat
  OBVIOUS
<1>3. Append(s, e) # <<>>
  BY <1>1, <1>2, EmptySeq
<1> QED
  BY <1>1, <1>2, <1>3

(*--------------------------- start-up and theme --------------------------*)

\* The youngest put under way is of the theme shown; with none under way the
\* file holds it, unless the last write failed.
LastPut ==
  Showing =>
    /\ writing # <<>> => writing[Len(writing)] = theme
    /\ writing = <<>> /\ ~failed => Restored(stored) = theme

\* A theme remembered at a calm stop stays in the file, and nothing is put over
\* it, until the switch has turned the theme over.
LeftIsStored ==
  left # NoTheme =>
    /\ writing = <<>> /\ ~failed /\ Restored(stored) = left
    /\ Showing => theme = left

\* A process that does not show anything yet has no failed write.
FailedIsShown == ~Showing => ~failed

SettingsInv == SettingsTypeOK /\ LastPut /\ LeftIsStored /\ FailedIsShown

\* The other theme is a theme.
LEMMA OtherIsTheme == ASSUME NEW t \in Themes PROVE Other(t) \in Themes
  BY DEF Other, Themes

\* Whatever the file holds, a theme is restored from it.
LEMMA RestoredIsTheme ==
  ASSUME NEW s \in Themes \union {NoTheme} PROVE Restored(s) \in Themes
  BY DEF Restored, Themes, NoTheme

\* No write under way.
LEMMA NoWrites == <<>> \in Seq(Themes) /\ Len(<<>>) = 0
  BY EmptySeq

\* The last element of a non-empty sequence without its head.
LEMMA TailOfWrites ==
  ASSUME NEW s \in Seq(Themes), s # <<>>
  PROVE  /\ Head(s) \in Themes /\ Tail(s) \in Seq(Themes)
         /\ Len(s) \in Nat \ {0} /\ Len(Tail(s)) = Len(s) - 1
         /\ Tail(s) # <<>> => Tail(s)[Len(Tail(s))] = s[Len(s)]
         /\ Tail(s) = <<>> => Head(s) = s[Len(s)]
  BY TailOf

\* The invariant holds before the first launch.
LEMMA SettingsInitInv == SettingsInit => SettingsInv
<1> SUFFICES ASSUME SettingsInit PROVE SettingsInv
  OBVIOUS
<1>1. SettingsTypeOK
  <2>1. writing \in Seq(Themes) /\ toggles + Len(writing) <= MaxToggles
    BY NoWrites, SettingsAssumption DEF SettingsInit
  <2> QED
    BY <2>1 DEF SettingsInit, SettingsTypeOK, Stages, Themes, NoTheme
<1> QED
  BY <1>1
  DEF SettingsInit, SettingsInv, LastPut, LeftIsStored, FailedIsShown, Showing

\* Every step keeps the types.
LEMMA SettingsTypeStep == SettingsTypeOK /\ [SettingsNext]_settingsVars => SettingsTypeOK'
<1> SUFFICES ASSUME SettingsTypeOK, [SettingsNext]_settingsVars PROVE SettingsTypeOK'
  OBVIOUS
<1> USE SettingsAssumption DEF SettingsTypeOK, Stages
<1>1. CASE Launch \/ LocaleRead \/ ChangeScreen
  BY <1>1 DEF Launch, LocaleRead, ChangeScreen
<1>2. CASE RunApp
  BY <1>2, RestoredIsTheme DEF RunApp
<1>3. CASE TapSwitch
  BY <1>3 DEF TapSwitch
<1>4. CASE toggleThemeData
  <2>1. Other(theme) \in Themes /\ NoTheme \in {NoTheme}
    BY OtherIsTheme
  <2>2. /\ writing' \in Seq(Themes) /\ Len(writing') = Len(writing) + 1
    BY <1>4, <2>1, AppendOf DEF toggleThemeData
  <2>3. toggles' = toggles - 1 /\ toggles' \in Nat /\ stage = "bar"
    BY <1>4 DEF toggleThemeData
  <2> QED
    BY <1>4, <2>1, <2>2, <2>3 DEF toggleThemeData
<1>5. CASE WriteEnds
  <2>1. /\ writing' \in Seq(Themes) /\ Len(writing') = Len(writing) - 1
        /\ Head(writing) \in Themes /\ stage = "bar"
    BY <1>5, TailOfWrites DEF WriteEnds
  <2>2. stored' \in Themes \union {NoTheme} /\ failed' \in BOOLEAN
    BY <1>5, <2>1 DEF WriteEnds
  <2> QED
    BY <1>5, <2>1, <2>2 DEF WriteEnds
<1>6. CASE Stop
  <2>1. writing' \in Seq(Themes) /\ toggles' + Len(writing') <= MaxToggles
    BY <1>6, NoWrites DEF Stop
  <2> QED
    BY <1>6, <2>1 DEF Stop, NoTheme
<1>7. CASE UNCHANGED settingsVars
  BY <1>7 DEF settingsVars
<1> QED
  BY <1>1, <1>2, <1>3, <1>4, <1>5, <1>6, <1>7 DEF SettingsNext

\* Every step keeps what is stored and what is shown together.
LEMMA SettingsStep == SettingsInv /\ [SettingsNext]_settingsVars => SettingsInv'
<1> SUFFICES ASSUME SettingsInv, [SettingsNext]_settingsVars
             PROVE  LastPut' /\ LeftIsStored' /\ FailedIsShown'
  BY SettingsTypeStep DEF SettingsInv
<1>1. /\ writing \in Seq(Themes) /\ theme \in Themes /\ stage \in Stages
      /\ stored \in Themes \union {NoTheme} /\ failed \in BOOLEAN
      /\ stage # "bar" => writing = <<>> /\ toggles = 0
  BY DEF SettingsInv, SettingsTypeOK
<1> USE DEF SettingsInv, LastPut, LeftIsStored, FailedIsShown, Showing, Stages
<1>2. CASE Launch
  BY <1>1, <1>2 DEF Launch
<1>3. CASE RunApp
  BY <1>1, <1>3 DEF RunApp
<1>4. CASE LocaleRead \/ ChangeScreen \/ TapSwitch
  BY <1>1, <1>4 DEF LocaleRead, ChangeScreen, TapSwitch
<1>5. CASE toggleThemeData
  <2>1. stage = "bar" /\ Other(theme) \in Themes
    BY <1>1, <1>5, OtherIsTheme DEF toggleThemeData
  <2>2. writing' # <<>> /\ writing'[Len(writing')] = Other(theme)
    BY <1>1, <1>5, <2>1, AppendOf DEF toggleThemeData
  <2> QED
    BY <1>5, <2>1, <2>2 DEF toggleThemeData
<1>6. CASE WriteEnds
  <2>1. stage = "bar" /\ left = NoTheme
    BY <1>1, <1>6 DEF WriteEnds
  <2>2. writing' # <<>> => writing'[Len(writing')] = theme'
    BY <1>1, <1>6, <2>1, TailOfWrites DEF WriteEnds
  <2>3. writing' = <<>> /\ ~failed' => Restored(stored') = theme'
    <3>1. Head(writing) \in Themes /\ (Tail(writing) = <<>> => Head(writing) = theme)
      BY <1>1, <1>6, <2>1, TailOfWrites DEF WriteEnds
    <3> QED
      BY <1>6, <3>1 DEF WriteEnds, Restored, Themes, NoTheme
  <2> QED
    BY <1>6, <2>1, <2>2, <2>3 DEF WriteEnds
<1>7. CASE Stop
  BY <1>1, <1>7 DEF Stop, Calm
<1>8. CASE UNCHANGED settingsVars
  BY <1>8 DEF settingsVars
<1> QED
  BY <1>2, <1>3, <1>4, <1>5, <1>6, <1>7, <1>8 DEF SettingsNext

\* SettingsInv is an inductive invariant of start-up and theme.
LEMMA SettingsInvariance == SettingsSpec => []SettingsInv
  BY SettingsInitInv, SettingsStep, PTL DEF SettingsSpec

\* Every variable keeps its type; the switch and its writes exist only while
\* the bottom bar is up.
THEOREM SettingsTypeCorrect == SettingsSpec => []SettingsTypeOK
<1>1. SettingsInv => SettingsTypeOK
  BY DEF SettingsInv
<1> QED
  BY <1>1, SettingsInvariance, PTL

\* However many taps on the switch overlap, the theme shown is the theme stored
\* once every put has been written.
THEOREM ThemeKept == SettingsSpec => []ThemeIsKept
<1>1. SettingsInv => ThemeIsKept
  BY DEF SettingsInv, LastPut, ThemeIsKept, Calm
<1> QED
  BY <1>1, SettingsInvariance, PTL

\* A restart after a calm stop shows the theme shown last.
THEOREM ThemeSurvivesRestart == SettingsSpec => []RestartKeepsTheme
<1>1. SettingsInv => RestartKeepsTheme
  BY DEF SettingsInv, LeftIsStored, RestartKeepsTheme
<1> QED
  BY <1>1, SettingsInvariance, PTL

(*--------------------------- the PDF reader ------------------------------*)

Counters == -MaxOver .. pages - 1 + MaxOver
AllReports == {Rendered} \union {Report(p) : p \in 0 .. pages - 1}

\* No report of a page is under way.
Quiet == reports = <<>> \/ reports[Len(reports)] = Rendered

\* onRender is reported first of all.
RenderedIsFirst == \A i \in 1 .. Len(reports) : reports[i] = Rendered => i = 1

\* The last report of a page is about the page shown.
LastReport == ~Quiet => reports[Len(reports)] = Report(turned)

\* With no report of a page under way, the counter is where the last command
\* goes, or the view shows the page nearest to it.
CounterIsSent ==
  Quiet => \/ Nearest(_currentPage) = turned
           \/ commands # <<>> /\ commands[Len(commands)] = _currentPage

\* So are the buttons, unless some command under way will turn the page and
\* have it reported.
ButtonsAreSent ==
  Quiet /\ ~dirty =>
    \/ Nearest(buttons.page) = turned
    \/ \E i \in 1 .. Len(commands) : Nearest(commands[i]) # turned

\* The only page of a document has no buttons.
OnePage == pages = 1 => _currentPage = 0 /\ buttons.page = 0

PdfInv ==
  /\ PdfTypeOK /\ RenderedIsFirst /\ LastReport
  /\ CounterIsSent /\ ButtonsAreSent /\ OnePage

\* The nearest page of a document is one of its pages, and p itself if p is.
LEMMA NearestIsPage ==
  ASSUME pages \in Nat \ {0}, NEW p \in Int
  PROVE  /\ Nearest(p) \in 0 .. pages - 1
         /\ p \in 0 .. pages - 1 => Nearest(p) = p
         /\ Nearest(p) > 0 => p >= Nearest(p)
         /\ Nearest(p) < pages - 1 => p <= Nearest(p)
  BY DEF Nearest

\* The first state.
LEMMA InitInv == PdfInit => PdfInv
<1> SUFFICES ASSUME PdfInit PROVE PdfInv
  OBVIOUS
<1> USE PdfAssumption DEF PdfInit
<1>1. <<>> \in Seq(Counters) /\ Len(<<>>) = 0
  BY EmptySeq
<1>2. reports \in Seq(AllReports) /\ Len(reports) = 1 /\ reports[1] = Rendered
  BY DEF AllReports
<1>3. pages \in Nat \ {0}
  OBVIOUS
<1>4. PdfTypeOK
  <2>1. 0 \in Counters /\ commands \in Seq(Counters) /\ Len(commands) <= MaxPending
    BY <1>1, <1>3 DEF Counters
  <2>2. Len(reports) <= MaxPending + 1
    BY <1>2
  <2>3. pages \in 1 .. MaxPdfPages /\ turned = 0 /\ totalpages = 0 /\ dirty \in BOOLEAN
    BY Zenon
  <2>4. _currentPage \in Counters
    BY <2>1, Zenon
  <2>5. [page |-> 0, total |-> 0] \in [page : Counters, total : {0, pages}]
    BY <2>1
  <2>6. buttons \in [page : Counters, total : {0, pages}]
    BY <2>5, Zenon
  <2>7. turned \in 0 .. pages - 1 /\ totalpages \in {0, pages}
    BY <1>3, <2>3
  <2> HIDE DEF PdfInit
  <2> QED
    BY <2>7, <1>2, <2>1, <2>2, <2>3, <2>4, <2>6 DEF PdfTypeOK, AllReports, Counters
<1>5. RenderedIsFirst /\ LastReport
  BY <1>2 DEF RenderedIsFirst, LastReport, Quiet
<1>6. Nearest(0) = 0
  BY <1>3 DEF Nearest
<1> QED
  BY <1>4, <1>5, <1>6 DEF PdfInv, CounterIsSent, ButtonsAreSent, OnePage

\* A tap: the counter is sent, the view and what it reports stay as they are.
LEMMA TapKeeps ==
  ASSUME PdfInv, NEW p \in Counters, pages # 1, SetPage(p)
  PROVE  PdfInv'
<1> USE PdfAssumption DEF SetPage
<1>0. /\ commands \in Seq(Counters) /\ pages \in Nat \ {0}
  BY DEF PdfInv, PdfTypeOK, Counters
<1>1. /\ commands' \in Seq(Counters) /\ commands' # <<>>
      /\ Len(commands) \in Nat /\ Len(commands') = Len(commands) + 1
      /\ \A i \in 1 .. Len(commands) : commands'[i] = commands[i]
      /\ commands'[Len(commands')] = p
  BY <1>0, AppendOf
<1>2. PdfTypeOK'
  BY <1>0, <1>1 DEF PdfInv, PdfTypeOK, Counters
<1>3. RenderedIsFirst' /\ LastReport' /\ OnePage'
  BY DEF PdfInv, RenderedIsFirst, LastReport, Quiet, OnePage
<1>4. CounterIsSent'
  BY <1>1 DEF CounterIsSent
<1>5. ButtonsAreSent'
  BY <1>0, <1>1 DEF PdfInv, ButtonsAreSent, Quiet, Nearest
<1> QED
  BY <1>2, <1>3, <1>4, <1>5 DEF PdfInv

\* A report arrives.
LEMMA ReportKeeps == PdfInv /\ onReport => PdfInv'
<1> SUFFICES ASSUME PdfInv, onReport PROVE PdfInv'
  OBVIOUS
<1> USE PdfAssumption DEF onReport
<1>0. /\ reports \in Seq(AllReports) /\ reports # <<>> /\ pages \in Nat \ {0}
      /\ turned \in 0 .. pages - 1 /\ _currentPage \in Counters
  BY DEF PdfInv, PdfTypeOK, AllReports, Counters
<1>1. /\ Head(reports) = reports[1] /\ Head(reports) \in AllReports
      /\ reports' \in Seq(AllReports)
      /\ Len(reports) \in Nat \ {0} /\ Len(reports') = Len(reports) - 1
      /\ \A i \in 1 .. Len(reports') : reports'[i] = reports[i + 1]
      /\ reports' = <<>> <=> Len(reports) = 1
  BY <1>0, TailOf
<1>2. Head(reports) # Rendered => Head(reports).page \in 0 .. pages - 1
  BY <1>1 DEF AllReports, Report, Rendered
<1>3. PdfTypeOK'
  <2>1. _currentPage' \in Counters
    BY <1>0, <1>2 DEF Counters
  <2>2. reports' \in Seq(AllReports') /\ Len(reports') <= MaxPending + 1
    BY <1>1 DEF PdfInv, PdfTypeOK, AllReports, Rendered, Report
  <2> QED
    BY <2>1, <2>2 DEF PdfInv, PdfTypeOK, AllReports, Counters
<1>4. RenderedIsFirst'
  BY <1>1 DEF PdfInv, RenderedIsFirst
<1>5. reports' # <<>> => ~Quiet /\ reports'[Len(reports')] = reports[Len(reports)]
  BY <1>1 DEF PdfInv, RenderedIsFirst, Quiet
<1>6. LastReport'
  BY <1>5 DEF PdfInv, LastReport, Quiet
<1>7. CounterIsSent'
  <2>1. CASE reports' # <<>>
    BY <2>1, <1>4, <1>1, <1>5 DEF Quiet, CounterIsSent
  <2>2. CASE reports' = <<>> /\ Head(reports) = Rendered
    BY <2>2, <1>1 DEF PdfInv, CounterIsSent, Quiet, Nearest
  <2>3. CASE reports' = <<>> /\ Head(reports) # Rendered
    <3>1. _currentPage' = turned
      BY <2>3, <1>1, <1>0 DEF PdfInv, LastReport, Quiet, Report
    <3> QED
      BY <3>1, <1>0, NearestIsPage DEF CounterIsSent, Nearest
  <2> QED
    BY <2>1, <2>2, <2>3
<1>8. ButtonsAreSent'
  BY DEF ButtonsAreSent
<1>9. OnePage'
  BY <1>2 DEF PdfInv, OnePage
<1> QED
  BY <1>3, <1>4, <1>6, <1>7, <1>8, <1>9 DEF PdfInv

\* A frame builds the buttons from the counter.
LEMMA BuildKeeps == PdfInv /\ Build => PdfInv'
<1> SUFFICES ASSUME PdfInv, Build PROVE PdfInv'
  OBVIOUS
<1> USE PdfAssumption DEF Build
<1>1. PdfTypeOK'
  BY DEF PdfInv, PdfTypeOK
<1>2. RenderedIsFirst' /\ LastReport' /\ CounterIsSent'
  BY DEF PdfInv, RenderedIsFirst, LastReport, CounterIsSent, Quiet, Nearest
<1>3. ButtonsAreSent'
  <2>1. commands \in Seq(Counters)
    BY DEF PdfInv, PdfTypeOK, Counters
  <2>2. commands # <<>> => Len(commands) \in 1 .. Len(commands)
    BY <2>1, EmptySeq
  <2> QED
    BY <2>2 DEF PdfInv, CounterIsSent, ButtonsAreSent, Quiet, Nearest
<1>4. OnePage'
  BY DEF PdfInv, OnePage
<1> QED
  BY <1>1, <1>2, <1>3, <1>4 DEF PdfInv

\* The view turns to another page, and reports it.
LEMMA TurnKeeps ==
  ASSUME PdfInv, NEW p \in 0 .. pages - 1, p # turned, Turn(p),
         UNCHANGED <<pages, totalpages, _currentPage, dirty, buttons>>,
         commands' \in Seq(Counters), Len(commands') <= MaxPending
  PROVE  PdfInv'
<1> USE PdfAssumption DEF Turn
<1>0. reports \in Seq(AllReports) /\ Report(p) \in AllReports /\ Len(reports) < MaxPending
  BY DEF PdfInv, PdfTypeOK, AllReports
<1>1. /\ reports' \in Seq(AllReports) /\ reports' # <<>>
      /\ Len(reports) \in Nat /\ Len(reports') = Len(reports) + 1
      /\ \A i \in 1 .. Len(reports) : reports'[i] = reports[i]
      /\ reports'[Len(reports) + 1] = Report(p)
  BY <1>0, AppendOf
<1>2. PdfTypeOK'
  BY <1>0, <1>1 DEF PdfInv, PdfTypeOK, AllReports, Counters
<1>3. Report(p) # Rendered
  BY DEF Report, Rendered
<1>4. RenderedIsFirst' /\ LastReport'
  BY <1>1, <1>3 DEF PdfInv, RenderedIsFirst, LastReport
<1>5. ~Quiet'
  BY <1>1, <1>3 DEF Quiet
<1> QED
  BY <1>2, <1>4, <1>5 DEF PdfInv, CounterIsSent, ButtonsAreSent, OnePage

\* A command reaches the view.
LEMMA ObeyKeeps == PdfInv /\ Obey => PdfInv'
<1> SUFFICES ASSUME PdfInv, Obey PROVE PdfInv'
  OBVIOUS
<1> USE PdfAssumption DEF Obey
<1>0. /\ commands \in Seq(Counters) /\ commands # <<>> /\ Len(commands) <= MaxPending
      /\ pages \in Nat \ {0}
  BY DEF PdfInv, PdfTypeOK, Counters
<1>1. /\ Head(commands) = commands[1] /\ Head(commands) \in Counters
      /\ commands' \in Seq(Counters)
      /\ Len(commands) \in Nat \ {0} /\ Len(commands') = Len(commands) - 1
      /\ \A i \in 1 .. Len(commands') : commands'[i] = commands[i + 1]
      /\ commands' = <<>> <=> Len(commands) = 1
  BY <1>0, TailOf
<1>2. Head(commands) \in Int
  BY <1>0, <1>1 DEF Counters
<1>3. Nearest(Head(commands)) \in 0 .. pages - 1
  BY <1>0, <1>2, NearestIsPage
<1>4. CASE Nearest(Head(commands)) # turned
  BY <1>0, <1>1, <1>3, <1>4, TurnKeeps
<1>5. CASE Nearest(Head(commands)) = turned
  <2>1. UNCHANGED <<pages, turned, totalpages, _currentPage, dirty, buttons, reports>>
    BY <1>5 DEF Turn
  <2>2. PdfTypeOK'
    BY <2>1, <1>0, <1>1 DEF PdfInv, PdfTypeOK, Counters
  <2>3. RenderedIsFirst' /\ LastReport' /\ OnePage'
    BY <2>1 DEF PdfInv, RenderedIsFirst, LastReport, Quiet, OnePage
  <2>4. CounterIsSent'
    BY <2>1, <1>0, <1>1, <1>5 DEF PdfInv, CounterIsSent, Quiet, Nearest
  <2>5. ButtonsAreSent'
    <3> SUFFICES ASSUME Quiet, ~dirty, NEW i \in 1 .. Len(commands), Nearest(commands[i]) # turned
                 PROVE  \E j \in 1 .. Len(commands') : Nearest(commands'[j]) # turned
      BY <2>1 DEF PdfInv, ButtonsAreSent, Quiet, Nearest
    <3>1. i # 1
      BY <1>1, <1>5
    <3>2. i - 1 \in 1 .. Len(commands') /\ commands'[i - 1] = commands[i]
      BY <3>1, <1>1
    <3> QED
      BY <3>2
  <2> QED
    BY <2>2, <2>3, <2>4, <2>5 DEF PdfInv
<1> QED
  BY <1>4, <1>5

\* The view is swiped.
LEMMA SwipeKeeps == PdfInv /\ SwipePdf => PdfInv'
<1> SUFFICES ASSUME PdfInv, NEW p \in {turned - 1, turned + 1} \intersect 0 .. pages - 1, Turn(p),
                    UNCHANGED <<pages, totalpages, _currentPage, dirty, buttons, commands>>
             PROVE  PdfInv'
  BY DEF SwipePdf
<1>1. p # turned /\ commands \in Seq(Counters) /\ Len(commands) <= MaxPending
  BY DEF PdfInv, PdfTypeOK, Counters
<1> QED
  BY <1>1, TurnKeeps

\* Every step.
LEMMA StepInv == PdfInv /\ [PdfNext]_pdfVars => PdfInv'
<1> SUFFICES ASSUME PdfInv, [PdfNext]_pdfVars PROVE PdfInv'
  OBVIOUS
<1>0. /\ _currentPage \in Counters /\ pages \in Nat \ {0} /\ MaxOver \in Nat
      /\ buttons.page \in Int /\ buttons.total \in {0, pages}
  BY PdfAssumption DEF PdfInv, PdfTypeOK, Counters
<1>1. CASE TapBack
  BY <1>0, <1>1, TapKeeps DEF TapBack, BackShown, PdfInv, OnePage, Counters
<1>2. CASE TapNext
  <2>1. pages # 1
    BY <1>0, <1>2 DEF TapNext, NextShown, PdfInv, OnePage
  <2> QED
    BY <1>0, <1>2, <2>1, TapKeeps DEF TapNext, Counters
<1>3. CASE onReport
  BY <1>3, ReportKeeps
<1>4. CASE Build
  BY <1>4, BuildKeeps
<1>5. CASE Obey
  BY <1>5, ObeyKeeps
<1>6. CASE SwipePdf
  BY <1>6, SwipeKeeps
<1>7. CASE UNCHANGED pdfVars
  BY <1>7 DEF pdfVars, PdfInv, PdfTypeOK, RenderedIsFirst, LastReport, CounterIsSent,
              ButtonsAreSent, OnePage, Quiet, Nearest
<1> QED
  BY <1>1, <1>2, <1>3, <1>4, <1>5, <1>6, <1>7 DEF PdfNext

\* The strengthened invariant holds in every state.
LEMMA PdfInvHolds == PdfSpec => []PdfInv
  BY InitInv, StepInv, PTL DEF PdfSpec

\* The variables of the PDF page have their types, and its queues their bounds.
THEOREM PdfTypeCorrect == PdfSpec => []PdfTypeOK
<1>1. PdfInv => PdfTypeOK
  BY DEF PdfInv
<1> QED
  BY <1>1, PdfInvHolds, PTL

\* When every command and report has arrived, the counter of the PDF page is at
\* the page shown or has run off the document, for documents of any length.
THEOREM CounterFollowsPage == PdfSpec => []CounterIsPage
<1>1. PdfInv => CounterIsPage
  <2> SUFFICES ASSUME PdfInv, commands = <<>>, reports = <<>>, _currentPage \in 0 .. pages - 1
               PROVE  _currentPage = turned
    BY DEF CounterIsPage
  <2>1. Nearest(_currentPage) = turned
    BY DEF PdfInv, CounterIsSent, Quiet
  <2> QED
    BY <2>1 DEF Nearest, PdfInv, PdfTypeOK
<1> QED
  BY <1>1, PdfInvHolds, PTL

\* With everything arrived and built, no tap on a button of the PDF page leads
\* off the document, for documents of any length.
THEOREM TapsInside == PdfSpec => TapsStayInside
<1>1. PdfInv /\ [PdfNext]_pdfVars =>
        [commands = <<>> /\ reports = <<>> /\ ~dirty /\ _currentPage \in 0 .. pages - 1
           => _currentPage' \in 0 .. pages - 1]_pdfVars
  <2> SUFFICES ASSUME PdfInv, PdfNext, commands = <<>>, reports = <<>>, ~dirty,
                      _currentPage \in 0 .. pages - 1
               PROVE  _currentPage' \in 0 .. pages - 1
    OBVIOUS
  <2>1. /\ pages \in Nat \ {0} /\ turned \in 0 .. pages - 1
        /\ buttons.page \in Int /\ buttons.total \in {0, pages}
    BY PdfAssumption DEF PdfInv, PdfTypeOK
  <2>2. Nearest(_currentPage) = turned /\ Nearest(buttons.page) = turned
    BY EmptySeq DEF PdfInv, CounterIsSent, ButtonsAreSent, Quiet
  <2>3. _currentPage = turned
    BY <2>1, <2>2 DEF Nearest
  <2>4. CASE TapBack
    BY <2>1, <2>2, <2>3, <2>4 DEF TapBack, SetPage, BackShown, Nearest, PdfInv, OnePage
  <2>5. CASE TapNext
    BY <2>1, <2>2, <2>3, <2>5 DEF TapNext, SetPage, NextShown, Nearest, PdfInv, OnePage
  <2>6. CASE onReport \/ Build \/ Obey \/ SwipePdf
    BY <2>6 DEF onReport, Build, Obey, SwipePdf
  <2> QED
    BY <2>4, <2>5, <2>6 DEF PdfNext
<1> QED
  BY <1>1, PdfInvHolds, PTL DEF PdfSpec, TapsStayInside

-----------------------------------------------------------------------------
(* The search page. *)

Typed == Queries \union {""}
SearchStates == [is : {"waiting", "loaded"}, of : Nat, books : Bodies]
BlocRecords == [events : Seq(Typed), begun : Nat, busy : BOOLEAN, state : SearchStates,
                open : BOOLEAN, offline : BOOLEAN]

\* The types, with the states named.
SearchTypes ==
  /\ query \in Typed \union {NoQuery} /\ search \in BlocRecords
  /\ search.begun <= Len(search.events)
  /\ query # NoQuery => search.open

\* What is shown answers the event begun last; nothing while it is mapped.
NewestIsShown ==
  /\ search.busy => search.state = Waiting /\ search.begun > 0
  /\ search.state # Waiting => search.state.of = search.begun /\ search.begun > 0

\* The query in the field is the event added last.
FieldIsNewest ==
  query # NoQuery => search.events # <<>> /\ search.events[Len(search.events)] = query

SearchInv == SearchTypes /\ NewestIsShown /\ FieldIsNewest

\* Builds of the suggestions are requests, and the bloc's state is the view.
View == INSTANCE RequestView
          WITH asked <- Len(search.events), newest <- search.begun, shown <- search.state.of

\* The spinner is a state of the bloc that shows no answer.
LEMMA WaitingIsState == Waiting \in SearchStates /\ Waiting.of = 0
  BY DEF Waiting, Bodies, SearchStates

\* What the request itself returns is books or an exception.
LEMMA DirectIsBooks ==
  ASSUME NEW r \in Replies, Direct(r) # "throws" PROVE Direct(r) \in Bodies
  BY DEF Direct, FromJson, Replies

\* A query that is asked comes last.
LEMMA BuildAdds ==
  ASSUME SearchInv, search.open, NEW q \in Typed, buildSuggestions(q)
  PROVE  /\ SearchInv' /\ Len(search'.events) = Len(search.events) + 1
         /\ search'.begun = search.begun /\ search'.state = search.state
<1>1. search \in BlocRecords
  BY DEF SearchInv, SearchTypes
<1>2. search' = [search EXCEPT !.events = Append(search.events, q)] /\ query' = q
  BY DEF buildSuggestions, Add
<1>3. /\ search.events \in Seq(Typed) /\ Len(search.events) \in Nat
      /\ Append(search.events, q) \in Seq(Typed)
      /\ Len(Append(search.events, q)) = Len(search.events) + 1
      /\ Append(search.events, q)[Len(search.events) + 1] = q
  BY <1>1, AppendProperties DEF BlocRecords
<1>4. Append(search.events, q) # <<>>
  BY <1>3, EmptySeq
<1>5. /\ search' \in BlocRecords /\ search'.events = Append(search.events, q)
      /\ search'.begun = search.begun /\ search'.state = search.state
      /\ (search'.busy <=> search.busy) /\ (search'.open <=> search.open)
  BY <1>1, <1>2, <1>3 DEF BlocRecords
<1>6. search.begun \in Nat /\ search.begun <= Len(search.events)
  BY <1>1 DEF BlocRecords, SearchInv, SearchTypes
<1>7. SearchTypes'
  <2>1. search'.begun <= Len(search'.events)
    BY <1>3, <1>5, <1>6
  <2>2. search'.open
    BY <1>5
  <2> QED
    BY <1>2, <1>5, <2>1, <2>2 DEF SearchTypes
<1>8. NewestIsShown'
  BY <1>5 DEF SearchInv, NewestIsShown
<1>9. FieldIsNewest'
  BY <1>2, <1>3, <1>4, <1>5 DEF FieldIsNewest
<1> QED
  BY <1>3, <1>5, <1>7, <1>8, <1>9 DEF SearchInv

\* The next query has its turn, and the answer before it is taken away.
LEMMA BeginTakesAway ==
  ASSUME SearchInv, BeginSearch
  PROVE  /\ SearchInv' /\ search'.events = search.events
         /\ search.begun < Len(search.events) /\ search'.begun = search.begun + 1
         /\ search'.state.of = 0
<1>1. search \in BlocRecords
  BY DEF SearchInv, SearchTypes
<1>2. /\ search' = [search EXCEPT !.begun = search.begun + 1, !.busy = TRUE, !.state = Waiting]
      /\ search.begun < Len(search.events) /\ query' = query
  BY DEF BeginSearch, CanBegin, Begin, Loading
<1>3. /\ search.begun \in Nat /\ search.begun + 1 \in Nat
      /\ search.events \in Seq(Typed) /\ Len(search.events) \in Nat
  BY <1>1 DEF BlocRecords
<1>4. /\ search' \in BlocRecords /\ search'.events = search.events
      /\ search'.begun = search.begun + 1 /\ search'.state = Waiting
      /\ (search'.open <=> search.open)
  BY <1>1, <1>2, <1>3, WaitingIsState DEF BlocRecords
<1>5. SearchTypes'
  <2>1. search'.begun <= Len(search'.events)
    BY <1>2, <1>3, <1>4
  <2> QED
    BY <1>2, <1>4, <2>1 DEF SearchInv, SearchTypes
<1>6. NewestIsShown'
  <2>1. search'.begun > 0
    BY <1>3, <1>4
  <2> QED
    BY <1>4, <2>1 DEF NewestIsShown
<1>7. FieldIsNewest'
  BY <1>2, <1>4 DEF SearchInv, FieldIsNewest
<1> QED
  BY <1>2, <1>4, <1>5, <1>6, <1>7, WaitingIsState DEF SearchInv

\* A request ends: its books are shown, or nothing still is.
LEMMA EndShows ==
  ASSUME SearchInv, NEW r \in Replies, EndSearch(r)
  PROVE  /\ SearchInv' /\ search'.events = search.events /\ search'.begun = search.begun
         /\ \/ search'.state = search.state
            \/ search.begun > 0 /\ search'.state.of = search.begun
<1> DEFINE s == SearchBloc(search.state, search.begun, r)
<1>1. search \in BlocRecords
  BY DEF SearchInv, SearchTypes
<1>2. /\ search' = [search EXCEPT !.busy = FALSE, !.state = s, !.offline = (r.body = "garbled")]
      /\ search.busy /\ query' = query
  BY DEF EndSearch, End
<1>3. search.state = Waiting
  BY <1>2 DEF SearchInv, NewestIsShown
<1>4. s = Waiting \/ (s = Loaded(search.begun, Direct(r)) /\ Direct(r) \in Bodies)
  BY <1>3, DirectIsBooks DEF SearchBloc
<1>5. search.begun \in Nat
  BY <1>1 DEF BlocRecords
<1>6. s \in SearchStates
  BY <1>4, <1>5, WaitingIsState DEF Loaded, SearchStates
<1>7. /\ search' \in BlocRecords /\ search'.events = search.events
      /\ search'.begun = search.begun /\ search'.state = s
      /\ (search'.open <=> search.open) /\ ~search'.busy
  BY <1>1, <1>2, <1>6 DEF BlocRecords
<1> HIDE DEF s
<1>8. SearchTypes'
  BY <1>2, <1>7 DEF SearchInv, SearchTypes, BlocRecords, Typed
<1>9. FieldIsNewest'
  BY <1>2, <1>7 DEF SearchInv, FieldIsNewest
<1>10. NewestIsShown'
  BY <1>2, <1>4, <1>7 DEF SearchInv, NewestIsShown, Loaded
<1>11. s = search.state \/ (search.begun > 0 /\ s.of = search.begun)
  BY <1>2, <1>3, <1>4 DEF SearchInv, NewestIsShown, Loaded
<1> QED
  BY <1>7, <1>8, <1>9, <1>10, <1>11 DEF SearchInv

\* A step keeps the invariant, and is a step of the view or none.
LEMMA SearchStep ==
  ASSUME SearchInv, [SearchNext]_searchVars
  PROVE  SearchInv' /\ [View!ViewNext]_View!view
<1>1. search \in BlocRecords
  BY DEF SearchInv, SearchTypes
<1>2. /\ search.begun \in Nat /\ search.events \in Seq(Typed) /\ Len(search.events) \in Nat
      /\ search.begun <= Len(search.events)
  BY <1>1 DEF BlocRecords, SearchInv, SearchTypes
<1>3. ASSUME NEW q \in Typed, search.open, buildSuggestions(q)
      PROVE  SearchInv' /\ [View!ViewNext]_View!view
  BY <1>3, BuildAdds DEF View!ViewNext, View!Ask, View!view
<1>4. CASE ShowSearch
  BY <1>3, <1>4 DEF ShowSearch, Typed
<1>5. CASE Type
  BY <1>3, <1>5 DEF Type, Typed, SearchInv, SearchTypes
<1>6. CASE CloseSearch
  <2>1. SearchInv'
    BY <1>6 DEF CloseSearch, SearchInv, SearchTypes, NewestIsShown, FieldIsNewest
  <2> QED
    BY <2>1, <1>6 DEF CloseSearch, View!view
<1>7. CASE LeavePage
  <2>1. search' = [search EXCEPT !.open = FALSE] /\ query' = query /\ query = NoQuery
    BY <1>7 DEF LeavePage, Close
  <2>2. /\ search' \in BlocRecords /\ search'.events = search.events
        /\ search'.begun = search.begun /\ search'.state = search.state
        /\ (search'.busy <=> search.busy)
    BY <1>1, <2>1 DEF BlocRecords
  <2>3. SearchInv'
    BY <1>2, <2>1, <2>2
    DEF SearchInv, SearchTypes, NewestIsShown, FieldIsNewest, BlocRecords, Typed
  <2> QED
    BY <2>2, <2>3 DEF View!view
<1>8. CASE BeginSearch
  <2>1. /\ SearchInv' /\ search'.events = search.events
        /\ search.begun < Len(search.events) /\ search'.begun = search.begun + 1
        /\ search'.state.of = 0
    BY <1>8, BeginTakesAway
  <2>2. View!Advance
    BY <1>2, <2>1 DEF View!Advance
  <2> QED
    BY <2>1, <2>2 DEF View!ViewNext
<1>9. ASSUME NEW r \in Replies, EndSearch(r)
      PROVE  SearchInv' /\ [View!ViewNext]_View!view
  <2>1. /\ SearchInv' /\ search'.events = search.events /\ search'.begun = search.begun
        /\ \/ search'.state = search.state
           \/ search.begun > 0 /\ search'.state.of = search.begun
    BY <1>9, EndShows
  <2>2. CASE search'.state = search.state
    BY <2>1, <2>2 DEF View!view
  <2>3. CASE search.begun > 0 /\ search'.state.of = search.begun
    <3>1. View!Show
      BY <1>2, <2>1, <2>3 DEF View!Show
    <3> QED
      BY <2>1, <3>1 DEF View!ViewNext
  <2> QED
    BY <2>1, <2>2, <2>3
<1>10. CASE UNCHANGED searchVars
  BY <1>10 DEF searchVars, SearchInv, SearchTypes, NewestIsShown, FieldIsNewest, View!view
<1> QED
  BY <1>4, <1>5, <1>6, <1>7, <1>8, <1>9, <1>10 DEF SearchNext

\* The first state: no query was asked and nothing is shown.
LEMMA SearchStart == SearchInit => SearchInv /\ View!ViewInit
<1> SUFFICES ASSUME SearchInit PROVE SearchInv /\ View!ViewInit
  OBVIOUS
<1>1. <<>> \in Seq(Typed) /\ Len(<<>>) = 0
  BY EmptySeq
<1>2. /\ search = Bloc /\ query = NoQuery
      /\ Bloc.events = <<>> /\ Bloc.begun = 0 /\ Bloc.busy = FALSE /\ Bloc.state = Waiting
  BY DEF SearchInit, Bloc
<1>3. Bloc \in BlocRecords
  BY <1>1, WaitingIsState DEF Bloc, BlocRecords
<1>4. SearchInv
  <2>1. SearchTypes
    BY <1>1, <1>2, <1>3 DEF SearchTypes
  <2>2. NewestIsShown /\ FieldIsNewest
    BY <1>2 DEF NewestIsShown, FieldIsNewest
  <2> QED
    BY <2>1, <2>2 DEF SearchInv
<1>5. View!ViewInit
  BY <1>1, <1>2, WaitingIsState DEF View!ViewInit
<1> QED
  BY <1>4, <1>5

\* The strengthened invariant holds in every state.
LEMMA SearchInvHolds == SearchSpec => []SearchInv
<1>1. SearchInit => SearchInv
  BY SearchStart
<1>2. SearchInv /\ [SearchNext]_searchVars => SearchInv'
  BY SearchStep
<1> QED
  BY <1>1, <1>2, PTL DEF SearchSpec

\* The bloc of the search page and the query in its field have their types.
THEOREM SearchTypeCorrect == SearchSpec => []SearchTypeOK
<1>1. SearchInv => SearchTypeOK
  BY DEF SearchInv, SearchTypes, SearchTypeOK, BlocRecords, SearchStates, Typed
<1> QED
  BY <1>1, SearchInvHolds, PTL

\* The books the search page shows when nothing is under way are those of the
\* query in its field, however many queries were typed, failed or abandoned.
THEOREM AnswersQuery == SearchSpec => []SearchAnswersQuery
<1>1. SearchInv => SearchAnswersQuery
  BY DEF SearchInv, SearchAnswersQuery, NewestIsShown, FieldIsNewest, Settled
<1> QED
  BY <1>1, SearchInvHolds, PTL

\* The search page implements RequestView: once the answer to a query is shown,
\* the answer to an earlier one never replaces it.
THEOREM SearchIsView == SearchSpec => View!ViewSpec
<1>1. SearchInit => View!ViewInit
  BY SearchStart
<1>2. SearchInv /\ [SearchNext]_searchVars => [View!ViewNext]_View!view
  BY SearchStep
<1> QED
  BY <1>1, <1>2, SearchInvHolds, PTL DEF SearchSpec, View!ViewSpec
=============================================================================
