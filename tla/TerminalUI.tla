----------------------------- MODULE TerminalUI -----------------------------
(***************************************************************************)
(* The models behind the two live screens of pkg/tui, LiveModel and         *)
(* TerminalModel: the log pane with its filter, its scrolling and its       *)
(* dialogs, and the sidebar of the terminal screen.  Update handles one     *)
(* message at a time, a key, a log line, a new window size or a tick, and   *)
(* View draws after each; what blocks the loop is in AppLifecycle.          *)
(***************************************************************************)
EXTENDS Integers, Sequences, SequencesExt

CONSTANTS Messages,     \* the texts that are logged
          Matching,     \* those the filter text occurs in
          Long,         \* those that wrap onto a second line where the pane is narrow
          MaxLogs,      \* maxLogs, a thousand
          PaneHeight,   \* of each window size: the lines the pane has
          ScreenHeight, \* and the terminal screen, which gives the pane all but four,
                        \* and five if there are fewer
          SidebarSizes, \* lines the sidebar's content may have
          Reports       \* bound on the reports of commands under way

ASSUME TerminalAssumption ==
    /\ Matching \subseteq Messages /\ Long \subseteq Messages
    /\ MaxLogs \in Nat \ {0} /\ Reports \in Nat
    /\ PaneHeight \in [{"small", "large"} -> Nat \ 0..2] \* never under three lines
    /\ ScreenHeight \in [{"small", "large"} -> Nat \ {0}]
    /\ \A size \in {"small", "large"} : ScreenHeight[size] <= PaneHeight[size] + 4
    /\ SidebarSizes \subseteq Nat \ {0}

VARIABLES screen,       \* LiveModel or TerminalModel
          window,       \* the size of the window
          allLogs, filteredLogs,
          filtering,    \* filterText is not empty
          scrollOffset, autoScroll,
          open,         \* the dialog or input that takes the keys
          result,       \* the result each dialog holds
          isQuitting,
          reports       \* commands whose message is on its way to the loop

VARIABLES sidebarOffset,
          content,      \* lines of the sidebar's content, as of the last tick
          manual,       \* sidebarManualHidden
          forced,       \* sidebarForced
          isSidebarHidden

logVars == <<allLogs, filteredLogs, filtering>>
scrollVars == <<scrollOffset, autoScroll>>
dialogVars == <<open, result, isQuitting, reports>>
sidebarVars == <<sidebarOffset, content, manual, forced, isSidebarHidden>>
uiVars == <<screen, window, logVars, scrollVars, dialogVars, sidebarVars>>

Dialogs == IF screen = "live" THEN {"exit", "filter", "query"} ELSE {"exit", "filter"}
Unset == "unset"

TerminalTypeOK ==
    /\ screen \in {"live", "terminal"} /\ window \in {"small", "large"}
    /\ allLogs \in BoundedSeq(Messages, MaxLogs)
    /\ filteredLogs \in BoundedSeq(Messages, MaxLogs)
    /\ filtering \in BOOLEAN /\ autoScroll \in BOOLEAN /\ isQuitting \in BOOLEAN
    /\ scrollOffset \in 0..(2 * MaxLogs)
    /\ open \in Dialogs \cup {"none", "command"}
    /\ result \in [Dialogs -> {"none", "confirmed", "cancelled"}]
    /\ reports \in 0..Reports
    /\ sidebarOffset \in Nat /\ content \in SidebarSizes
    /\ manual \in {Unset, "hidden", "shown"} /\ forced \in {Unset, "hidden", "shown"}
    /\ isSidebarHidden \in BOOLEAN

Maximum(i, j) == IF i > j THEN i ELSE j
Minimum(i, j) == IF i < j THEN i ELSE j

\* A terminal of the default size is too small for the sidebar.
TerminalInit ==
    /\ screen \in {"live", "terminal"} /\ window = "small"
    /\ allLogs = <<>> /\ filteredLogs = <<>> /\ filtering = FALSE
    /\ scrollOffset = 0 /\ autoScroll = TRUE
    /\ open = "none" /\ result = [d \in Dialogs |-> "none"]
    /\ isQuitting = FALSE /\ reports = 0
    /\ sidebarOffset = 0 /\ content \in SidebarSizes
    /\ manual = Unset /\ forced = Unset /\ isSidebarHidden = TRUE
-----------------------------------------------------------------------------
\* The logs that match, of the first, of the first two, ...
TakeMatching(filtered, log) == IF log \in Matching THEN Append(filtered, log) ELSE filtered
MatchingOf(logs) ==
    LET filtered[n \in 0..Len(logs)] ==
            IF n = 0 THEN <<>> ELSE TakeMatching(filtered[n - 1], logs[n])
    IN  filtered

\* updateFilteredLogs; without a filter the slice is an alias.
Filtered(logs, text) == IF text THEN MatchingOf(logs)[Len(logs)] ELSE logs

\* The pane is narrow in a small window and beside the sidebar, which only the
\* terminal screen has.
NarrowIn(size, hidden) == size = "small" \/ ~ hidden
Narrow == NarrowIn(window, isSidebarHidden)

\* The physical lines of the shown logs: a long one takes two in a narrow
\* pane, and an empty pane says that it waits.
LinesOf(log, narrow) == IF log \in Long /\ narrow THEN <<log, log>> ELSE <<log>>
LinesUpTo(logs, narrow) ==
    LET lines[n \in 0..Len(logs)] ==
            IF n = 0 THEN <<>> ELSE lines[n - 1] \o LinesOf(logs[n], narrow)
    IN  lines
Rendered(logs, narrow) ==
    IF logs = <<>> THEN <<"waiting">> ELSE LinesUpTo(logs, narrow)[Len(logs)]

Shown == IF filtering THEN filteredLogs ELSE allLogs
LogLineCount == Len(Rendered(Shown, Narrow))
MaxVisible == PaneHeight[window]

\* The window View cuts out of the lines.
Drawn ==
    LET lines == Rendered(Shown, Narrow)
        from  == IF autoScroll THEN LogLineCount - MaxVisible ELSE scrollOffset
        start == Maximum(0, Minimum(from, LogLineCount - 1))
    IN  IF LogLineCount <= MaxVisible THEN lines
        ELSE SubSeq(lines, start + 1, Minimum(start + MaxVisible, LogLineCount))

\* The case logMsg: the oldest go when there are too many.
TakeLog(log) ==
    /\ allLogs' = LET logs == Append(allLogs, log)
                  IN  IF Len(logs) > MaxLogs THEN Tail(logs) ELSE logs
    /\ filteredLogs' = Filtered(allLogs', filtering)
    /\ UNCHANGED filtering

LogArrives(log) ==
    /\ TakeLog(log)
    /\ UNCHANGED <<screen, window, scrollVars, dialogVars, sidebarVars>>

\* A command's report comes back through the loop as a log line.
ReportArrives(log) ==
    /\ reports > 0 /\ reports' = reports - 1
    /\ TakeLog(log)
    /\ UNCHANGED <<screen, window, scrollVars, open, result, isQuitting, sidebarVars>>

Report == reports < Reports /\ reports' = reports + 1

ClearLogs ==
    /\ allLogs' = <<>> /\ filteredLogs' = <<>> /\ filtering' = FALSE
    /\ scrollOffset' = 0 /\ UNCHANGED autoScroll
-----------------------------------------------------------------------------
\* Bug: the last result is left in the dialog.
ShowKeepsResult(d) == open' = d /\ UNCHANGED result

\* DialogModel.Show clears the last result.
Show(d) ==
    /\ open' = d
    /\ result' = [result EXCEPT ![d] = "none"]

OpenDialog(d) ==
    /\ open = "none" /\ d \in Dialogs
    /\ Show(d)
    /\ UNCHANGED <<screen, window, logVars, scrollVars, isQuitting, reports, sidebarVars>>

\* DialogModel.Update: a key confirms, cancels or edits.
DialogTakesKey(d, answer) ==
    /\ open = d /\ d \in Dialogs
    /\ IF answer = "edited" THEN UNCHANGED <<open, result>>
       ELSE open' = "none" /\ result' = [result EXCEPT ![d] = answer]

\* What Update makes of the result, which it looks at after every key.
ExitKey(answer) ==
    /\ DialogTakesKey("exit", answer)
    /\ isQuitting' = (result'["exit"] = "confirmed")
    /\ UNCHANGED <<screen, window, logVars, scrollVars, reports, sidebarVars>>

ApplyFilter(text) ==
    /\ filtering' = text
    /\ filteredLogs' = Filtered(allLogs, text)
    /\ UNCHANGED allLogs

FilterKey(answer) ==
    /\ DialogTakesKey("filter", answer)
    /\ \/ /\ result'["filter"] = "confirmed"
          /\ \E text \in BOOLEAN : ApplyFilter(text)
          /\ scrollOffset' = 0 /\ autoScroll' = FALSE
       \/ /\ result'["filter"] = "cancelled"
          /\ ApplyFilter(FALSE) /\ UNCHANGED scrollVars
       \/ /\ result'["filter"] = "none"
          /\ UNCHANGED <<logVars, scrollVars>>
    /\ UNCHANGED <<screen, window, isQuitting, reports, sidebarVars>>

QueryKey(answer) ==
    /\ DialogTakesKey("query", answer)
    /\ \/ result'["query"] = "confirmed" /\ Report
       \/ UNCHANGED reports
    /\ UNCHANGED <<screen, window, logVars, scrollVars, isQuitting, sidebarVars>>

\* The command line of the terminal screen: enter runs the command, which
\* clears the logs or returns a report, and esc leaves.
OpenCommand ==
    /\ screen = "terminal" /\ open = "none"
    /\ open' = "command"
    /\ UNCHANGED <<screen, window, logVars, scrollVars, result, isQuitting, reports,
                   sidebarVars>>

LeaveCommand ==
    /\ open = "command" /\ open' = "none"
    /\ UNCHANGED <<screen, window, logVars, scrollVars, result, isQuitting, reports,
                   sidebarVars>>

ExecuteCommand ==
    /\ open = "command" /\ open' = "none"
    /\ \/ ClearLogs /\ UNCHANGED reports
       \/ Report /\ UNCHANGED <<logVars, scrollVars>>
    /\ UNCHANGED <<screen, window, result, isQuitting, sidebarVars>>
-----------------------------------------------------------------------------
ScrollTo(offset, follow) == scrollOffset' = offset /\ autoScroll' = follow

ScrollDown == /\ scrollOffset < LogLineCount - MaxVisible
              /\ ScrollTo(scrollOffset + 1, FALSE)
ScrollUp   == scrollOffset > 0 /\ ScrollTo(scrollOffset - 1, FALSE)
PageDown   == ScrollTo(Maximum(0, Minimum(scrollOffset + MaxVisible,
                                          LogLineCount - MaxVisible)), FALSE)
PageUp     == ScrollTo(Maximum(0, scrollOffset - MaxVisible), FALSE)
ScrollToTop    == ScrollTo(0, FALSE)
ScrollToBottom == ScrollTo(Maximum(0, LogLineCount - MaxVisible), TRUE)
ToggleFollow   == IF autoScroll THEN ScrollTo(scrollOffset, FALSE) ELSE ScrollToBottom

ScrollKey ==
    /\ open = "none"
    /\ \/ ScrollDown \/ ScrollUp \/ PageDown \/ PageUp
       \/ ScrollToTop \/ ScrollToBottom \/ ToggleFollow
    /\ UNCHANGED <<screen, window, logVars, dialogVars, sidebarVars>>

\* The wheel scrolls the pane under it, also while a dialog is open.
Wheel ==
    /\ screen = "terminal"
    /\ ScrollDown \/ ScrollUp
    /\ UNCHANGED <<screen, window, logVars, dialogVars, sidebarVars>>

ClearKey ==
    /\ open = "none"
    /\ ClearLogs
    /\ UNCHANGED <<screen, window, dialogVars, sidebarVars>>

-----------------------------------------------------------------------------
\* calculateWidths.
Hides(size, byHand, byForce) ==
    IF byForce # Unset THEN byForce = "hidden" ELSE size = "small" \/ byHand = "hidden"

SidebarMaxOffset == Maximum(0, content - ScreenHeight[window] + 4)
HalfPage == ScreenHeight[window] \div 2

\* The terminal screen clamps its offsets to the new size; the live one does not.
ResizeTerminal(size) ==
    /\ isSidebarHidden' = Hides(size, manual, forced)
    /\ scrollOffset' =
          LET lines == Rendered(Shown, NarrowIn(size, isSidebarHidden'))
          IN  Minimum(scrollOffset, Maximum(0, Len(lines) - PaneHeight[size]))
    /\ sidebarOffset' = Minimum(sidebarOffset, ScreenHeight[size])
    /\ UNCHANGED <<content, manual, forced>>

Resize(size) ==
    /\ size # window /\ window' = size
    /\ \/ screen = "live" /\ UNCHANGED <<scrollOffset, sidebarVars>>
       \/ screen = "terminal" /\ ResizeTerminal(size)
    /\ UNCHANGED <<screen, logVars, autoScroll, dialogVars>>

\* The focus is on the sidebar.
SidebarKey ==
    /\ sidebarOffset' \in
          (IF sidebarOffset < SidebarMaxOffset THEN {sidebarOffset + 1} ELSE {})
          \cup {Maximum(0, sidebarOffset - 1), Maximum(0, sidebarOffset - HalfPage),
                Minimum(sidebarOffset + HalfPage, SidebarMaxOffset),
                0, SidebarMaxOffset}
    /\ UNCHANGED <<content, manual, forced, isSidebarHidden>>

\* The commands sidebar, sidebar force-show and sidebar force-hide.
ToggleSidebar ==
    /\ manual' = IF isSidebarHidden THEN "shown" ELSE "hidden"
    /\ forced' = Unset
    /\ isSidebarHidden' = Hides(window, manual', forced')
    /\ UNCHANGED <<sidebarOffset, content>>

ForceSidebar(how) ==
    /\ forced' = how
    /\ isSidebarHidden' = Hides(window, manual, forced')
    /\ UNCHANGED <<sidebarOffset, content, manual>>

\* refreshStats, on a tick: more or fewer components and services to list.
RefreshStats ==
    /\ content' \in SidebarSizes
    /\ UNCHANGED <<sidebarOffset, manual, forced, isSidebarHidden>>

\* The lines renderSidebar cuts out of the content.
SidebarFrom == Maximum(0, Minimum(sidebarOffset, content - ScreenHeight[window]))
SidebarTo   == Minimum(SidebarFrom + ScreenHeight[window], content)
-----------------------------------------------------------------------------
\* The loop ends with the message that follows a confirmed exit.
PaneNext ==
    /\ ~ isQuitting
    /\ \/ \E log \in Messages : LogArrives(log) \/ ReportArrives(log)
       \/ \E d \in Dialogs : OpenDialog(d)
       \/ \E answer \in {"confirmed", "cancelled", "edited"} :
             ExitKey(answer) \/ FilterKey(answer) \/ QueryKey(answer)
       \/ OpenCommand \/ LeaveCommand \/ ExecuteCommand
       \/ ScrollKey \/ Wheel \/ ClearKey
       \/ \E size \in {"small", "large"} : Resize(size)

\* What the sidebar of the terminal screen is about.
SidebarNext ==
    /\ screen = "terminal"
    /\ \/ /\ \/ SidebarKey \/ ToggleSidebar \/ RefreshStats
             \/ \E how \in {"hidden", "shown"} : ForceSidebar(how)
          /\ UNCHANGED <<window, scrollVars>>
       \/ \E size \in {"small", "large"} : Resize(size)
    /\ UNCHANGED <<screen, logVars, dialogVars>>

TerminalSpec == TerminalInit /\ [][PaneNext \/ SidebarNext]_uiVars
-----------------------------------------------------------------------------
\* The filtered view is that of the logs and of the filter text, in order;
\* following shows the newest lines; the pane is never blank, and it is full
\* wherever the offset leaves enough lines.
PaneIsTrue ==
    /\ filteredLogs = Filtered(allLogs, filtering)
    /\ Drawn # <<>> /\ Len(Drawn) <= MaxVisible
    /\ autoScroll => IsSuffix(Drawn, Rendered(filteredLogs, Narrow))
    /\ autoScroll \/ scrollOffset <= LogLineCount - MaxVisible
         => Len(Drawn) = Minimum(MaxVisible, LogLineCount)

\* The sidebar shows as many lines as it can and hides when it should.
SidebarIsTrue ==
    /\ SidebarTo - SidebarFrom = Minimum(content, ScreenHeight[window])
    /\ screen = "terminal" => isSidebarHidden = Hides(window, manual, forced)

\* While a dialog stays open its keys change nothing, and lines that arrive
\* do not move what somebody who has scrolled up is reading, wherever the offset
\* leaves enough lines and unless the oldest have to go.
NobodyDisturbed ==
    /\ open \in Dialogs /\ open' = open /\ UNCHANGED <<screen, window, allLogs, reports>>
         => UNCHANGED <<logVars, isQuitting>> /\ (screen = "live" => UNCHANGED scrollVars)
    /\ ~ autoScroll /\ scrollOffset <= LogLineCount - MaxVisible
         /\ UNCHANGED <<window, isSidebarHidden, filtering, scrollVars>>
         /\ Len(allLogs') > Len(allLogs)
         => Drawn' = Drawn

(* What is on the screen is what has been logged, filtered and asked for:   *)
(* after any sequence of lines, keys, dialogs, commands and window sizes.   *)
ScreenIsTrue ==
    /\ [](PaneIsTrue /\ SidebarIsTrue)
    /\ [][NobodyDisturbed]_uiVars
=============================================================================
