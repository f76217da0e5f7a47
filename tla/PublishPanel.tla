---------------------------- MODULE PublishPanel ----------------------------
(***************************************************************************)
(* The panel that publishes a finished agent post.  It reads the item every*)
(* five seconds without waiting for the last answer, lets a person approve *)
(* the draft, shows a preview of what would be scheduled, and sends what   *)
(* was confirmed.  Answers arrive late, out of order or not at all, while  *)
(* other people edit the item and fill the account's calendar.             *)
(***************************************************************************)
EXTENDS Naturals, FiniteSets

CONSTANTS Accounts,      \* connected accounts for the draft's platform
          Nothing,
          Later,         \* the times a person may choose
          MaxItem,       \* bound: versions of the content item
          MaxCalendar,   \* bound: changes of the conflicts
          MaxOptions,    \* bound: versions of the Instagram publishing options
          MaxNow,        \* bound: the last minute
          MaxReads       \* bound: answers on their way

VARIABLES item,          \* the content item: version, the decision on the draft, its targets
          calendar,      \* digest of the conflicts of a schedule; 0 is none
          options,       \* the latest publishing options of draft and account, and whether a person approved them
          now,
          panel,         \* the state of the React component
          reads,         \* answers on their way to the effect that is live
          call,          \* the action under way: at most one, because it makes the panel busy
          late,          \* a confirmation that was given up by the browser and may still arrive
          made           \* history: the targets that were scheduled, with the click that asked for them

panelVars == <<item, calendar, options, now, panel, reads, call, late, made>>

Time == 1..MaxNow + 1

\* pending: the options that wait for an approval, 0 if none do.
Detail == [version : 1..MaxItem, approved : BOOLEAN, pending : 0..MaxOptions]

Soon == 0   \* "Publish next"

Form == [account : Accounts \cup {Nothing}, when : Later \cup {Soon}]

Preview == [account : Accounts, when : Later \cup {Soon}, time : Time, version : 1..MaxItem, conflicts : 0..MaxCalendar,
            options : 0..MaxOptions]

\* A confirmed preview; ticked: the conflicts on the screen when the box was ticked, 0 if it was not.
Click == [account : Accounts, time : Time, version : 1..MaxItem, conflicts : 0..MaxCalendar,
          options : 0..MaxOptions, ticked : 0..MaxCalendar]

Calls == [kind : {"approve"}, at : {"sent", "done"}, version : 1..MaxItem] 
         \cup [kind : {"load"}, at : {"sent"}] \cup [kind : {"load"}, at : {"done"}, detail : Detail]
         \cup [kind : {"options"}, at : {"sent", "done"}, pending : 0..MaxOptions]
         \cup [kind : {"prepare"}, at : {"sent"}, form : Form, time : Time]
         \cup [kind : {"prepare"}, at : {"done"}, preview : Preview \cup {Nothing}]
         \cup [kind : {"confirm"}, at : {"sent", "done"}, click : Click]

Item == [version : 1..MaxItem, approved : BOOLEAN, targets : [Accounts -> Time \cup {0}]]

Options == [number : 0..MaxOptions, approved : BOOLEAN]

Panel == [open : BOOLEAN, detail : Detail \cup {Nothing}, form : Form, preview : Preview \cup {Nothing},
          ticked : 0..MaxCalendar]

Receipt == [click : Click, version : 1..MaxItem, conflicts : 0..MaxCalendar, options : 0..MaxOptions]

\* Every variable has its type.
PanelTypeOK ==
  /\ item \in Item /\ calendar \in 0..MaxCalendar /\ options \in Options /\ now \in 0..MaxNow
  /\ panel \in Panel /\ reads \subseteq Detail /\ call \in Calls \cup {Nothing} /\ late \in Click \cup {Nothing}
  /\ made \subseteq Receipt

PanelInit ==
  /\ item \in [version : {1}, approved : BOOLEAN, targets : {[a \in Accounts |-> 0]}]
  /\ calendar = 0 /\ options = [number |-> 0, approved |-> FALSE] /\ now = 0
  /\ panel = [open |-> FALSE, detail |-> Nothing, form |-> [account |-> Nothing, when |-> Soon],
              preview |-> Nothing, ticked |-> 0]
  /\ reads = {} /\ call = Nothing /\ late = Nothing /\ made = {}

busy == call # Nothing

-----------------------------------------------------------------------------
(* Other people, and the clock. *)

\* Any other change of the item, a new decision on the draft among them.
editItem ==
  /\ item.version < MaxItem
  /\ \E approved \in BOOLEAN : item' = [item EXCEPT !.version = @ + 1, !.approved = approved]
  /\ UNCHANGED <<calendar, options, now, panel, reads, call, late, made>>

fillCalendar ==
  /\ calendar < MaxCalendar /\ calendar' = calendar + 1
  /\ UNCHANGED <<item, options, now, panel, reads, call, late, made>>

newOptions ==
  /\ options.number < MaxOptions /\ options' = [number |-> options.number + 1, approved |-> FALSE]
  /\ UNCHANGED item

\* The approval of the options is one more approval of the item.
approveOptions(n) ==
  /\ n > 0 /\ n = options.number /\ ~options.approved /\ item.version < MaxItem
  /\ options' = [options EXCEPT !.approved = TRUE] /\ item' = [item EXCEPT !.version = @ + 1]

\* The same options are proposed and approved in the content studio.
editOptions ==
  /\ newOptions \/ (item.approved /\ approveOptions(options.number))
  /\ UNCHANGED <<calendar, now, panel, reads, call, late, made>>

timePasses ==
  /\ now < MaxNow /\ now' = now + 1
  /\ UNCHANGED <<item, calendar, options, panel, reads, call, late, made>>

-----------------------------------------------------------------------------
(* Reading the item. *)

\* Mutant: whatever arrives last is shown.
latestArrived(old, new) == new

newest(old, new) == IF old # Nothing /\ old.version > new.version THEN old ELSE new

\* The effect on account, time, publishSoon and the item's version: the preview goes, and its acknowledgement with it.
forgetPreview(p) == [p EXCEPT !.preview = Nothing, !.ticked = 0]

setDetail(p, new) ==
  LET shown == newest(p.detail, new)
      next == [p EXCEPT !.detail = shown] IN
    IF p.detail = Nothing \/ p.detail.version # shown.version THEN forgetPreview(next) ELSE next

publication ==
  [version |-> item.version, approved |-> item.approved, pending |-> IF options.approved THEN 0 ELSE options.number]

\* Opening starts the effect; closing ends it, and what it asked for is not used.
toggle ==
  /\ panel' = [panel EXCEPT !.open = ~@] /\ reads' = {}
  /\ UNCHANGED <<item, calendar, options, now, call, late, made>>

\* The timer asks whether or not earlier answers have arrived.
refresh ==
  /\ panel.open /\ Cardinality(reads) < MaxReads
  /\ reads' = reads \cup {publication}
  /\ UNCHANGED <<item, calendar, options, now, panel, call, late, made>>

refreshed(r) ==
  /\ panel' = setDetail(panel, r) /\ reads' = reads \ {r}
  /\ UNCHANGED <<item, calendar, options, now, call, late, made>>

-----------------------------------------------------------------------------
(* The form. *)

\* Mutant: the fields stay enabled during an action.
fieldsAlwaysEnabled == panel.open /\ panel.detail # Nothing

fieldsEnabled == panel.open /\ panel.detail # Nothing /\ ~busy

setForm(form) ==
  /\ fieldsEnabled /\ form # panel.form /\ form.account # Nothing
  /\ panel' = forgetPreview([panel EXCEPT !.form = form])
  /\ UNCHANGED <<item, calendar, options, now, reads, call, late, made>>

setAcknowledged ==
  /\ panel.open /\ panel.preview # Nothing /\ panel.preview.conflicts > 0
  /\ panel' = [panel EXCEPT !.ticked = IF @ = 0 THEN panel.preview.conflicts ELSE 0]
  /\ UNCHANGED <<item, calendar, options, now, reads, call, late, made>>

approve ==
  /\ fieldsEnabled /\ ~panel.detail.approved
  /\ call' = [kind |-> "approve", at |-> "sent", version |-> panel.detail.version]
  /\ UNCHANGED <<item, calendar, options, now, panel, reads, late, made>>

\* A new choice for approval, or the approval of the choice on the screen.
setOptions(pending) ==
  /\ fieldsEnabled /\ panel.form.account # Nothing
  /\ pending # 0 => pending = panel.detail.pending /\ panel.detail.approved
  /\ call' = [kind |-> "options", at |-> "sent", pending |-> pending]
  /\ UNCHANGED <<item, calendar, options, now, panel, reads, late, made>>

\* Mutant: the present minute, which has passed when the preview is confirmed.
scheduledNow(form) == IF form.when = Soon THEN now ELSE form.when

scheduledFor(form) == IF form.when = Soon THEN now + 1 ELSE form.when

prepare ==
  /\ fieldsEnabled /\ panel.form.account # Nothing /\ panel.detail.approved
  /\ panel' = [panel EXCEPT !.preview = Nothing]
  /\ call' = [kind |-> "prepare", at |-> "sent", form |-> panel.form, time |-> scheduledFor(panel.form)]
  /\ UNCHANGED <<item, calendar, options, now, reads, late, made>>

\* A preview whose time has passed, or whose conflicts were not acknowledged, cannot be confirmed.
confirm ==
  LET p == panel.preview
      click == [account |-> p.account, time |-> p.time, version |-> p.version, conflicts |-> p.conflicts,
                options |-> p.options, ticked |-> panel.ticked] IN
    /\ fieldsEnabled /\ p # Nothing /\ p.time > now /\ (p.conflicts > 0 => panel.ticked # 0)
    /\ call' = [kind |-> "confirm", at |-> "sent", click |-> click]
    /\ UNCHANGED <<item, calendar, options, now, panel, reads, late, made>>

-----------------------------------------------------------------------------
(* The API.  A refusal ends the action at once: until it arrives nothing but the person's form waits. *)

approvals ==
  /\ call # Nothing /\ call.kind = "approve" /\ call.at = "sent"
  /\ IF item.version = call.version /\ item.version < MaxItem
       THEN item' = [item EXCEPT !.version = @ + 1, !.approved = TRUE] /\ call' = [call EXCEPT !.at = "done"]
       ELSE item' = item /\ call' = Nothing
  /\ UNCHANGED <<calendar, options, now, panel, reads, late, made>>

candidates ==
  /\ call # Nothing /\ call.kind = "options" /\ call.at = "sent"
  /\ IF call.pending = 0 THEN newOptions ELSE approveOptions(call.pending)
  /\ call' = [call EXCEPT !.at = "done"]
  /\ UNCHANGED <<calendar, now, panel, reads, late, made>>

previewAllowed(account, time) ==
  /\ item.approved /\ time > now /\ item.targets[account] = 0
  /\ options.number > 0 => options.approved

preview ==
  /\ call # Nothing /\ call.kind = "prepare" /\ call.at = "sent"
  /\ LET account == call.form.account IN
       call' = [kind |-> "prepare", at |-> "done", preview |->
                  IF previewAllowed(account, call.time)
                    THEN [account |-> account, when |-> call.form.when, time |-> call.time, version |-> item.version,
                          conflicts |-> calendar, options |-> options.number]
                    ELSE Nothing]
  /\ UNCHANGED <<item, calendar, options, now, panel, reads, late, made>>

\* The preview is made again and has the same hash.
samePreview(c) ==
  previewAllowed(c.account, c.time) /\ c.version = item.version /\ c.conflicts = calendar /\ c.options = options.number

\* The acknowledgement that schedule compares with the conflicts under the account's lock.
acknowledges(c) == calendar > 0 => c.ticked > 0 /\ c.conflicts = calendar

receipt(c) == [click |-> c, version |-> item.version, conflicts |-> calendar, options |-> options.number]

\* A repeated request finds the target that its first one made.
schedule(c) ==
  IF item.targets[c.account] = 0 /\ samePreview(c) /\ acknowledges(c) /\ item.version < MaxItem
    THEN /\ item' = [item EXCEPT !.version = @ + 1, !.targets[c.account] = c.time]
         /\ made' = made \cup {receipt(c)}
    ELSE UNCHANGED <<item, made>>

publish ==
  /\ call # Nothing /\ call.kind = "confirm" /\ call.at = "sent"
  /\ schedule(call.click)
  /\ call' = IF item'.targets[call.click.account] = call.click.time THEN [call EXCEPT !.at = "done"] ELSE Nothing
  /\ UNCHANGED <<calendar, options, now, panel, reads, late>>

publishLate ==
  /\ late # Nothing /\ schedule(late) /\ late' = Nothing
  /\ UNCHANGED <<calendar, options, now, panel, reads, call>>

-----------------------------------------------------------------------------
(* Answers. *)

\* Mutant: the acknowledgement of the last preview stays.
prepareKeeps(p, result) == [p EXCEPT !.preview = result]

showPreview(p, result) == [p EXCEPT !.preview = result, !.ticked = 0]

prepared ==
  /\ call # Nothing /\ call.kind = "prepare" /\ call.at = "done" /\ call' = Nothing
  /\ panel' = IF call.preview = Nothing THEN panel ELSE showPreview(panel, call.preview)
  /\ UNCHANGED <<item, calendar, options, now, reads, late, made>>

\* A change was answered: the preview goes, unless it was an approval, and the item is read again.
answered ==
  /\ call # Nothing /\ call.kind \in {"approve", "confirm", "options"} /\ call.at = "done"
  /\ call' = [kind |-> "load", at |-> "sent"]
  /\ panel' = IF call.kind = "approve" THEN panel ELSE [panel EXCEPT !.preview = Nothing]
  /\ UNCHANGED <<item, calendar, options, now, reads, late, made>>

load ==
  /\ call # Nothing /\ call.kind = "load" /\ call.at = "sent"
  /\ call' = [kind |-> "load", at |-> "done", detail |-> publication]
  /\ UNCHANGED <<item, calendar, options, now, panel, reads, late, made>>

loaded ==
  /\ call # Nothing /\ call.kind = "load" /\ call.at = "done" /\ call' = Nothing
  /\ panel' = setDetail(panel, call.detail)
  /\ UNCHANGED <<item, calendar, options, now, reads, late, made>>

\* The answer is lost, or there is none: the action ends with an error and the preview stays on the screen.
actionFails ==
  /\ busy /\ call' = Nothing
  /\ late' = IF call.kind = "confirm" /\ call.at = "sent" THEN call.click ELSE late
  /\ UNCHANGED <<item, calendar, options, now, panel, reads, made>>

PanelNext ==
  \/ editItem \/ editOptions \/ fillCalendar \/ timePasses
  \/ toggle \/ refresh \/ \E r \in reads : refreshed(r)
  \/ \E form \in Form : setForm(form)
  \/ \E pending \in 0..MaxOptions : setOptions(pending)
  \/ setAcknowledged \/ approve \/ prepare \/ confirm
  \/ approvals \/ candidates \/ preview \/ publish \/ publishLate
  \/ prepared \/ answered \/ load \/ loaded \/ actionFails

PanelSpec == PanelInit /\ [][PanelNext]_panelVars

-----------------------------------------------------------------------------
(* Properties. *)

\* The preview on the screen is of the account and the time in the form, although it was asked for earlier: the button
\* below it says "this post", and the person reads the form.
PreviewIsOfTheForm ==
  panel.preview # Nothing => panel.preview.account = panel.form.account /\ panel.preview.when = panel.form.when

\* Every target was confirmed by a person who had its account, its time, the item's version, the publishing options and
\* the conflicts of that moment on the screen, and who ticked these very conflicts; previews, reads and edits may
\* overtake each other.  A confirmation whose answer was lost may be repeated, also from a new preview: an account gets
\* one target.
ScheduledAsShown ==
  \A m \in made : /\ m.click.version = m.version /\ m.click.conflicts = m.conflicts /\ m.click.options = m.options
                  /\ m.conflicts > 0 => m.click.ticked = m.conflicts
                  /\ \A n \in made : m.click.account = n.click.account => m = n

\* The item that the panel shows never becomes older, in whichever order the answers arrive.
DetailNeverOlder == panel.detail # Nothing => panel'.detail # Nothing /\ panel'.detail.version >= panel.detail.version

-----------------------------------------------------------------------------
(* The inductive invariant. *)

\* The preview on the screen is of the form, and the box was ticked under its conflicts or not at all.
ScreenFits(p) ==
  /\ p \in Panel
  /\ p.preview # Nothing => /\ p.preview.account = p.form.account /\ p.preview.when = p.form.when
                           /\ p.ticked \in {0, p.preview.conflicts}

ClickFits(c) == c \in Click /\ c.ticked \in {0, c.conflicts}

\* The preview that is asked for, or answered, is of the form, which nobody can change meanwhile.
CallFits(c, form) ==
  /\ c \in Calls \cup {Nothing}
  /\ c # Nothing /\ c.kind = "prepare" /\ c.at = "sent" => c.form = form /\ form.account # Nothing
  /\ c # Nothing /\ c.kind = "prepare" /\ c.at = "done" /\ c.preview # Nothing =>
       c.preview.account = form.account /\ c.preview.when = form.when
  /\ c # Nothing /\ c.kind = "confirm" => ClickFits(c.click)

\* A target that was made is still there: an account with a target gets no other.
MadeFits(targets, done) ==
  /\ done \subseteq Receipt
  /\ \A m \in done : /\ m.click.version = m.version /\ m.click.conflicts = m.conflicts /\ m.click.options = m.options
                     /\ m.conflicts > 0 => m.click.ticked = m.conflicts
                     /\ targets[m.click.account] # 0
                     /\ \A n \in done : m.click.account = n.click.account => m = n

PanelInv ==
  /\ item \in Item /\ calendar \in 0..MaxCalendar /\ options \in Options /\ now \in 0..MaxNow /\ reads \subseteq Detail
  /\ ScreenFits(panel) /\ CallFits(call, panel.form) /\ MadeFits(item.targets, made)
  /\ late # Nothing => ClickFits(late)
=============================================================================
