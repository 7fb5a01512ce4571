--------------------------------- MODULE Gui ---------------------------------
(***************************************************************************)
(* The window, src/cmd/dual-vpn-gui/main.go, with the calls it makes       *)
(* through the client and the routes of src/internal/api/api.go to a       *)
(* daemon that serves one request at a time.                               *)
(*                                                                         *)
(* Of the daemon's state the list of DNS rules is kept, a rule being its   *)
(* tunnel and whether it is enabled: the tunnels, the routing rules and    *)
(* the master switch are shown and sent the same way, and a routing rule   *)
(* that is dropped sends its new target and nothing else.  A goroutine of  *)
(* `call`, `refresh` or `fetchProfiles` is a slot of `calls`; what it      *)
(* leaves to glib.IdleAdd runs on the UI thread in any order.              *)
(***************************************************************************)
EXTENDS Naturals, FiniteSets

CONSTANTS
  Domain,   \* domains of DNS rules
  Via,      \* targets of a rule: tunnels and "direct"
  Slot,     \* bound on the calls under way
  MaxOrphans, \* bound on the edits whose caller gave up
  Pending,  \* a call has no answer yet
  Failed    \* a call ended in an error

Entry == [via : Via, enabled : BOOLEAN]
State == UNION {[S -> Entry] : S \in SUBSET Domain}

ASSUME RepliesAssumption == Pending # Failed /\ {Pending, Failed} \cap State = {}

VARIABLES
  served,        \* the rules in the daemon
  orphans,       \* edits the daemon still has to serve and whose caller gave up
  calls,         \* the calls under way
  inFlight,      \* ui.inFlight
  shown,         \* ui.state
  switches,      \* the switch of each row
  disconnected,  \* the banner says that the daemon cannot be reached
  calm           \* nothing fails, and nobody edits, from now on

window == <<inFlight, shown, switches, disconnected>>
guiVars == <<served, orphans, calls, inFlight, shown, switches, disconnected, calm>>

NoEdit == [op |-> "none"]
Edit == [op : {"enable"}, domain : Domain, on : BOOLEAN]
          \cup [op : {"upsert"}, domain : Domain, rule : Entry]
          \cup [op : {"delete"}, domain : Domain]

Free == [what |-> "none", edit |-> NoEdit, stage |-> "answered", reply |-> Pending]
Sent(what, edit) == [what |-> what, edit |-> edit, stage |-> "waiting", reply |-> Pending]

Switches(st) == [d \in DOMAIN st |-> st[d].enabled]

\* activate: the window is empty and its first poll is under way.
GuiInit ==
  /\ served \in State
  /\ orphans = {}
  /\ \E first \in Slot :
       calls = [k \in Slot |-> IF k = first THEN Sent("poll", NoEdit) ELSE Free]
  /\ inFlight = TRUE
  /\ shown = [d \in {} |-> NoEdit] /\ switches = [d \in {} |-> FALSE]
  /\ disconnected = FALSE
  /\ calm = FALSE

-----------------------------------------------------------------------------
(* The daemon. *)

Known(e, st) == e.op = "upsert" \/ e.domain \in DOMAIN st

Do(e, st) ==
  CASE e.op = "enable" -> [st EXCEPT ![e.domain].enabled = e.on]
    [] e.op = "upsert" -> [d \in DOMAIN st \cup {e.domain} |->
                             IF d = e.domain THEN e.rule ELSE st[d]]
    [] e.op = "delete" -> [d \in DOMAIN st \ {e.domain} |-> st[d]]

\* An edit takes effect and succeeds; or it fails, before or after it took effect.
Execute(k) ==
  LET c == calls[k] IN
  /\ c.what = "edit" /\ c.stage = "waiting"
  /\ \/ /\ Known(c.edit, served)
        /\ served' = Do(c.edit, served)
        /\ calls' = [calls EXCEPT ![k].stage = "executed"]
     \/ /\ ~calm \/ ~Known(c.edit, served)
        /\ \/ UNCHANGED served
           \/ Known(c.edit, served) /\ served' = Do(c.edit, served)
        /\ calls' = [calls EXCEPT ![k].stage = "answered", ![k].reply = Failed]
  /\ UNCHANGED <<orphans, window, calm>>

\* The reply of every route is the state, read after the edit under a lock of its own.
ReadState(k) ==
  /\ \/ calls[k].what \in {"poll", "profiles"} /\ calls[k].stage = "waiting"
     \/ calls[k].what = "edit" /\ calls[k].stage = "executed"
  /\ calls' = [calls EXCEPT ![k].stage = "answered", ![k].reply = served]
  /\ UNCHANGED <<served, orphans, window, calm>>

\* The handler of a caller that gave up still waits for the mutex and edits.
ServeOrphan ==
  /\ \E e \in orphans :
       /\ orphans' = orphans \ {e}
       /\ \/ Known(e, served) /\ served' = Do(e, served)
          \/ (~calm \/ ~Known(e, served)) /\ UNCHANGED served
  /\ UNCHANGED <<calls, window, calm>>

\* Another client, or the configuration file and a reload.
OtherClient ==
  /\ ~calm
  /\ \E e \in Edit : Known(e, served) /\ served' = Do(e, served)
  /\ UNCHANGED <<orphans, calls, window, calm>>

\* callTimeout, a daemon that is gone, or one that cannot answer.
GiveUp(k) ==
  /\ ~calm
  /\ calls[k].what # "none" /\ calls[k].reply = Pending
  /\ calls' = [calls EXCEPT ![k].stage = "answered", ![k].reply = Failed]
  /\ \/ UNCHANGED orphans
     \/ /\ calls[k].what = "edit" /\ calls[k].stage = "waiting"
        /\ orphans' = orphans \cup {calls[k].edit}
        /\ Cardinality(orphans') <= MaxOrphans
  /\ UNCHANGED <<served, window, calm>>

-----------------------------------------------------------------------------
(* The UI thread. *)

\* (Mutant: the rows are not rebuilt when entries come or go.)
RenderInPlace(st) ==
  /\ shown' = st
  /\ switches' = [d \in DOMAIN switches |-> IF d \in DOMAIN st THEN st[d].enabled ELSE FALSE]
  /\ disconnected' = FALSE

\* render: the rows are those of the state, each with its switch as the state has it;
\* `updating` keeps the switches from sending anything.
Render(st) ==
  /\ shown' = st
  /\ switches' = Switches(st)
  /\ disconnected' = FALSE

\* refresh, with the poll in slot k.
Poll(k) ==
  IF inFlight THEN calls' = [calls EXCEPT ![k] = Free] /\ UNCHANGED inFlight
              ELSE calls' = [calls EXCEPT ![k] = Sent("poll", NoEdit)] /\ inFlight' = TRUE

\* The timer and the refresh button.
Refresh(k) ==
  /\ calls[k] = Free
  /\ ~inFlight
  /\ Poll(k)
  /\ UNCHANGED <<served, orphans, shown, switches, disconnected, calm>>

\* (Mutant: the flag is cleared once the reply has been rendered.)
PollDoneIfRendered(k) ==
  /\ calls[k].what = "poll" /\ calls[k].reply # Pending
  /\ calls' = [calls EXCEPT ![k] = Free]
  /\ inFlight' = (calls[k].reply = Failed)
  /\ IF calls[k].reply = Failed THEN disconnected' = TRUE /\ UNCHANGED <<shown, switches>>
                                ELSE Render(calls[k].reply)
  /\ UNCHANGED <<served, orphans, calm>>

PollDone(k) ==
  /\ calls[k].what = "poll" /\ calls[k].reply # Pending
  /\ calls' = [calls EXCEPT ![k] = Free]
  /\ inFlight' = FALSE
  /\ IF calls[k].reply = Failed THEN disconnected' = TRUE /\ UNCHANGED <<shown, switches>>
                                ELSE Render(calls[k].reply)
  /\ UNCHANGED <<served, orphans, calm>>

\* (Mutant: a reply clears the flag of the poll.)
CallDoneResets(k) ==
  /\ calls[k].what \in {"edit", "profiles"} /\ calls[k].reply \notin {Pending, Failed}
  /\ calls' = [calls EXCEPT ![k] = Free] /\ inFlight' = FALSE
  /\ Render(calls[k].reply)
  /\ UNCHANGED <<served, orphans, calm>>

\* The end of a call: the state in its reply, or an error and a refresh; the dialog for
\* a tunnel says nothing when only the state could not be read.
CallDone(k) ==
  /\ calls[k].what \in {"edit", "profiles"} /\ calls[k].reply # Pending
  /\ IF calls[k].reply = Failed
       THEN /\ \/ Poll(k)
               \/ /\ calls[k].what = "profiles"
                  /\ calls' = [calls EXCEPT ![k] = Free] /\ UNCHANGED inFlight
            /\ UNCHANGED <<shown, switches, disconnected>>
       ELSE /\ calls' = [calls EXCEPT ![k] = Free] /\ UNCHANGED inFlight
            /\ Render(calls[k].reply)
  /\ UNCHANGED <<served, orphans, calm>>

Send(k, edit) ==
  /\ ~calm /\ calls[k] = Free
  /\ calls' = [calls EXCEPT ![k] = Sent("edit", edit)]
  /\ UNCHANGED <<served, orphans, inFlight, shown, disconnected, calm>>

Toggle(k, d) ==
  /\ d \in DOMAIN switches
  /\ switches' = [switches EXCEPT ![d] = ~@]
  /\ Send(k, [op |-> "enable", domain |-> d, on |-> ~switches[d]])

\* The dialog that confirms it may be older than the rows.
Delete(k, d) == Send(k, [op |-> "delete", domain |-> d]) /\ UNCHANGED switches

Add(k, d, via) ==
  /\ Send(k, [op |-> "upsert", domain |-> d, rule |-> [via |-> via, enabled |-> TRUE]])
  /\ UNCHANGED switches

\* handleDrop: the whole rule is sent again, from the state last rendered.
DropDNS(k, d, target) ==
  /\ d \in DOMAIN shown
  /\ Send(k, [op |-> "upsert", domain |-> d, rule |-> [shown[d] EXCEPT !.via = target]])
  /\ UNCHANGED switches

\* The dialog for a new tunnel reads the profiles and the state.
AddTunnel(k) ==
  /\ ~calm /\ calls[k] = Free
  /\ calls' = [calls EXCEPT ![k] = Sent("profiles", NoEdit)]
  /\ UNCHANGED <<served, orphans, window, calm>>

Settle ==
  /\ ~calm
  /\ calm' = TRUE
  /\ UNCHANGED <<served, orphans, calls, window>>

User(k) ==
  \/ \E d \in Domain : Toggle(k, d) \/ Delete(k, d)
  \/ \E d \in Domain, t \in Via : Add(k, d, t) \/ DropDNS(k, d, t)
  \/ AddTunnel(k)

CallStep(k) == Execute(k) \/ ReadState(k) \/ PollDone(k) \/ CallDone(k)

GuiNext ==
  \/ \E k \in Slot : CallStep(k) \/ Refresh(k) \/ GiveUp(k) \/ User(k)
  \/ ServeOrphan
  \/ OtherClient
  \/ Settle

GuiSpec == GuiInit /\ [][GuiNext]_guiVars

\* The daemon serves every request, the main loop runs what is queued, the timer ticks.
FairGuiSpec ==
  /\ GuiSpec
  /\ \A k \in Slot : WF_guiVars(CallStep(k))
  /\ WF_guiVars(\E k \in Slot : Refresh(k))
  /\ WF_guiVars(ServeOrphan)

-----------------------------------------------------------------------------
(* Properties. *)

\* Type invariant of the window and its calls: a call without an answer is waiting for
\* the daemon, and the rows are those of the state that was rendered last.
GuiTypeOK ==
  /\ served \in State /\ shown \in State
  /\ orphans \in SUBSET Edit
  /\ calls \in [Slot -> [what : {"none", "poll", "profiles", "edit"}, edit : Edit \cup {NoEdit},
                         stage : {"waiting", "executed", "answered"},
                         reply : State \cup {Pending, Failed}]]
  /\ \A k \in Slot :
       /\ calls[k].what = "edit" <=> calls[k].edit # NoEdit
       /\ calls[k].stage = "executed" => calls[k].what = "edit"
       /\ calls[k] # Free => (calls[k].reply = Pending <=> calls[k].stage # "answered")
  /\ switches \in [DOMAIN shown -> BOOLEAN]
  /\ {inFlight, disconnected, calm} \subseteq BOOLEAN

\* refresh skips the poll "if one is already outstanding so a slow daemon cannot queue
\* up requests": the flag is up exactly while one poll is outstanding, whatever became
\* of the polls before and of the calls beside it.
OnePoll ==
  Cardinality({k \in Slot : calls[k].what = "poll"}) = IF inFlight THEN 1 ELSE 0

Shows == shown = served /\ switches = Switches(served) /\ ~disconnected

\* Nothing fails, no edit has still to be served, and no answer is older than the daemon.
Quiet ==
  /\ calm /\ orphans = {}
  /\ \A k \in Slot : /\ calls[k].what = "edit" => calls[k].stage # "waiting"
                     /\ calls[k].reply \in {Pending, served}

\* From then on the poll that ends next makes the window right, in whatever order the
\* replies are rendered, and nothing makes it wrong again.
PollShows ==
  [][Quiet => /\ Quiet'
              /\ (Shows \/ \E k \in Slot : PollDone(k)) => Shows'
    ]_guiVars

\* Once nobody edits and nothing fails, the window comes to show what the daemon has,
\* switches included, and stays there: replies that arrive out of order, edits served
\* after their caller gave up and switches set by hand are all made good by the poll.
Settles ==
  <>calm => <>[]Shows

=============================================================================
