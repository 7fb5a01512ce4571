------------------------------ MODULE GuiProofs -------------------------------
(***************************************************************************)
(* What the window of Gui keeps, for every number of calls under way: the  *)
(* type invariant, one poll at a time, and that once the daemon is quiet a *)
(* single poll makes the window right for good.                            *)
(***************************************************************************)
EXTENDS Gui, FiniteSetTheorems, TLAPS

-----------------------------------------------------------------------------
(* States of the daemon and edits of them. *)

\* A state maps some domains to rules.
LEMMA StateMaps ==
  ASSUME NEW st \in State
  PROVE  /\ DOMAIN st \subseteq Domain
         /\ st \in [DOMAIN st -> Entry]
         /\ \A d \in DOMAIN st : st[d] \in Entry
BY DEF State

LEMMA MapIsState ==
  ASSUME NEW S \in SUBSET Domain, NEW st \in [S -> Entry]
  PROVE  st \in State
BY DEF State

LEMMA NoEditIsNone ==
  /\ NoEdit \notin Edit
  /\ \A e \in Edit : e.op \in {"enable", "upsert", "delete"} /\ e.domain \in Domain
BY DEF NoEdit, Edit

\* An edit the daemon accepts makes a state of a state.
LEMMA DoIsState ==
  ASSUME NEW e \in Edit, NEW st \in State, Known(e, st)
  PROVE  Do(e, st) \in State
<1>1. /\ DOMAIN st \subseteq Domain /\ st \in [DOMAIN st -> Entry]
      /\ \A d \in DOMAIN st : st[d] \in Entry
  BY StateMaps
<1>2. e.domain \in Domain /\ e.op \in {"enable", "upsert", "delete"}
  BY NoEditIsNone
<1>3. CASE e.op = "enable"
  <2>1. e.on \in BOOLEAN /\ e.domain \in DOMAIN st
    BY <1>3 DEF Edit, Known
  <2>2. [st[e.domain] EXCEPT !.enabled = e.on] \in Entry
    BY <1>1, <2>1 DEF Entry
  <2>3. Do(e, st) = [st EXCEPT ![e.domain] = [st[e.domain] EXCEPT !.enabled = e.on]]
    BY <1>3 DEF Do
  <2>4. Do(e, st) \in [DOMAIN st -> Entry]
    BY <1>1, <2>1, <2>2, <2>3
  <2> QED
    BY <1>1, <2>4, MapIsState
<1>4. CASE e.op = "upsert"
  <2>1. e.rule \in Entry
    BY <1>4 DEF Edit
  <2>2. Do(e, st) = [d \in DOMAIN st \cup {e.domain} |-> IF d = e.domain THEN e.rule
                                                                        ELSE st[d]]
    BY <1>4 DEF Do
  <2>3. Do(e, st) \in [DOMAIN st \cup {e.domain} -> Entry]
    BY <1>1, <2>1, <2>2
  <2> QED
    BY <1>1, <1>2, <2>3, MapIsState
<1>5. CASE e.op = "delete"
  <2>1. Do(e, st) = [d \in DOMAIN st \ {e.domain} |-> st[d]]
    BY <1>5 DEF Do
  <2>2. Do(e, st) \in [DOMAIN st \ {e.domain} -> Entry]
    BY <1>1, <2>1
  <2> QED
    BY <1>1, <2>2, MapIsState
<1> QED
  BY <1>2, <1>3, <1>4, <1>5

-----------------------------------------------------------------------------
(* The calls. *)

CallRecord == [what : {"none", "poll", "profiles", "edit"}, edit : Edit \cup {NoEdit},
               stage : {"waiting", "executed", "answered"},
               reply : State \cup {Pending, Failed}]

\* One call is as it may be.
CallOK(c) ==
  /\ c \in CallRecord
  /\ c.what = "edit" <=> c.edit # NoEdit
  /\ c.stage = "executed" => c.what = "edit"
  /\ c # Free => (c.reply = Pending <=> c.stage # "answered")

\* The flag is up exactly while there is a poll, and there is one at most.
PollInv ==
  /\ \A k \in Slot : calls[k].what = "poll" => inFlight
  /\ inFlight => \E k \in Slot : calls[k].what = "poll"
  /\ \A k, l \in Slot : calls[k].what = "poll" /\ calls[l].what = "poll" => k = l

\* A step changes one slot at most, and into a call that is as it may be.
OneSlot ==
  \/ calls' = calls
  \/ \E k \in Slot, c \in CallRecord : CallOK(c) /\ calls' = [calls EXCEPT ![k] = c]

CallsOK == calls \in [Slot -> CallRecord] /\ \A k \in Slot : CallOK(calls[k])

LEMMA OneSlotKeepsCalls ==
  ASSUME CallsOK, OneSlot
  PROVE  CallsOK'
<1>1. CASE calls' = calls
  BY <1>1 DEF CallsOK
<1>2. ASSUME NEW k \in Slot, NEW c \in CallRecord, CallOK(c), calls' = [calls EXCEPT ![k] = c]
      PROVE  CallsOK'
  <2>1. calls' \in [Slot -> CallRecord]
    BY <1>2 DEF CallsOK
  <2>2. \A l \in Slot : calls'[l] = calls[l] \/ calls'[l] = c
    BY <1>2 DEF CallsOK
  <2>3. \A l \in Slot : CallOK(calls'[l])
    BY <1>2, <2>2 DEF CallsOK
  <2> QED
    BY <2>1, <2>3 DEF CallsOK
<1> QED
  BY <1>1, <1>2 DEF OneSlot

\* The calls that are made.
LEMMA NewCalls ==
  /\ CallOK(Free)
  /\ CallOK(Sent("poll", NoEdit)) /\ CallOK(Sent("profiles", NoEdit))
  /\ \A e \in Edit : CallOK(Sent("edit", e))
BY NoEditIsNone, RepliesAssumption DEF CallOK, CallRecord, Free, Sent

\* The daemon has it in hand, or it is answered.
LEMMA CallGoesOn ==
  ASSUME NEW c, CallOK(c), c.what # "none"
  PROVE  /\ \A r \in State \cup {Failed} :
              CallOK([c EXCEPT !.stage = "answered", !.reply = r])
         /\ c.what = "edit" /\ c.stage = "waiting"
              => CallOK([c EXCEPT !.stage = "executed"])
<1>1. c \in CallRecord /\ c # Free
  BY DEF CallOK, Free
<1>2. ASSUME NEW r \in State \cup {Failed}
      PROVE  CallOK([c EXCEPT !.stage = "answered", !.reply = r])
  BY <1>1, <1>2, RepliesAssumption DEF CallOK, CallRecord
<1>3. ASSUME c.what = "edit", c.stage = "waiting"
      PROVE  CallOK([c EXCEPT !.stage = "executed"])
  BY <1>1, <1>3 DEF CallOK, CallRecord
<1> QED
  BY <1>2, <1>3

\* A call that is and stays a poll, or is and stays none, concerns no other.
LEMMA KindKept ==
  ASSUME CallsOK, PollInv, NEW k \in Slot, NEW c, calls' = [calls EXCEPT ![k] = c],
         c.what = "poll" <=> calls[k].what = "poll", inFlight' = inFlight
  PROVE  PollInv'
<1>1. \A l \in Slot : calls'[l].what = "poll" <=> calls[l].what = "poll"
  BY DEF CallsOK
<1> QED
  BY <1>1 DEF PollInv

LEMMA PollUnchanged == PollInv /\ UNCHANGED <<calls, inFlight>> => PollInv'
BY DEF PollInv

\* A refresh in place of a call that was no poll starts one, or is skipped.
LEMMA PollStarts ==
  ASSUME CallsOK, PollInv, NEW k \in Slot, calls[k].what # "poll", Poll(k)
  PROVE  OneSlot /\ PollInv' /\ inFlight' = TRUE
<1>1. CASE inFlight
  <2>1. calls' = [calls EXCEPT ![k] = Free] /\ inFlight' = inFlight
    BY <1>1 DEF Poll
  <2>2. OneSlot
    BY <2>1, NewCalls DEF OneSlot, CallOK
  <2>3. PollInv'
    BY <2>1, KindKept DEF Free
  <2>4. inFlight' = TRUE
    <3>1. \E l \in Slot : calls'[l].what = "poll"
      BY <1>1, <2>1, <2>3 DEF PollInv
    <3> QED
      BY <1>1, <2>1
  <2> QED
    BY <2>2, <2>3, <2>4
<1>2. CASE ~inFlight
  <2>1. calls' = [calls EXCEPT ![k] = Sent("poll", NoEdit)] /\ inFlight' = TRUE
    BY <1>2 DEF Poll
  <2>2. OneSlot
    BY <2>1, NewCalls DEF OneSlot, CallOK
  <2>3. \A l \in Slot : calls'[l].what = "poll" <=> l = k
    BY <1>2, <2>1 DEF CallsOK, PollInv, Sent
  <2> QED
    BY <2>1, <2>2, <2>3 DEF PollInv
<1> QED
  BY <1>1, <1>2

-----------------------------------------------------------------------------
(* The invariant. *)

\* What is typed beside the calls.
RestOK ==
  /\ served \in State /\ shown \in State
  /\ orphans \in SUBSET Edit
  /\ switches \in [DOMAIN shown -> BOOLEAN]
  /\ {inFlight, disconnected, calm} \subseteq BOOLEAN

\* The type invariant and the one poll.
GuiInv == CallsOK /\ PollInv /\ RestOK

LEMMA RenderOK ==
  ASSUME NEW st \in State, Render(st)
  PROVE  /\ shown' \in State /\ switches' \in [DOMAIN shown' -> BOOLEAN]
         /\ disconnected' \in BOOLEAN
<1>1. \A d \in DOMAIN st : st[d].enabled \in BOOLEAN
  BY StateMaps DEF Entry
<1> QED
  BY <1>1 DEF Render, Switches

LEMMA InitGui == GuiInit => GuiInv
<1> SUFFICES ASSUME GuiInit
             PROVE  GuiInv
  OBVIOUS
<1>1. PICK first \in Slot :
        calls = [k \in Slot |-> IF k = first THEN Sent("poll", NoEdit) ELSE Free]
  BY DEF GuiInit
<1>2. CallsOK
  BY <1>1, NewCalls DEF CallsOK, CallOK
<1>3. \A k \in Slot : calls[k].what = "poll" <=> k = first
  BY <1>1 DEF Sent, Free
<1>4. PollInv
  BY <1>3 DEF PollInv, GuiInit
<1>5. RestOK
  <2>1. shown \in [{} -> Entry] /\ switches \in [{} -> BOOLEAN]
    BY DEF GuiInit
  <2>2. shown \in State
    BY <2>1, MapIsState
  <2> QED
    BY <2>1, <2>2 DEF RestOK, GuiInit
<1> QED
  BY <1>2, <1>4, <1>5 DEF GuiInv

\* The daemon answers, or does not.
LEMMA DaemonGui ==
  ASSUME GuiInv, NEW k \in Slot, Execute(k) \/ ReadState(k) \/ GiveUp(k)
  PROVE  GuiInv'
<1>1. CallsOK /\ PollInv /\ RestOK /\ CallOK(calls[k])
  BY DEF GuiInv, CallsOK
<1>2. ASSUME NEW c, CallOK(c), c.what = calls[k].what, calls' = [calls EXCEPT ![k] = c],
             UNCHANGED window
      PROVE  CallsOK' /\ PollInv'
  <2>1. inFlight' = inFlight
    BY <1>2 DEF window
  <2>2. PollInv'
    BY <1>1, <1>2, <2>1, KindKept
  <2>3. OneSlot
    BY <1>2 DEF OneSlot, CallOK
  <2> QED
    BY <1>1, <2>2, <2>3, OneSlotKeepsCalls
<1>3. ASSUME calls[k].what # "none", NEW r \in State \cup {Failed},
             calls' = [calls EXCEPT ![k].stage = "answered", ![k].reply = r],
             UNCHANGED window
      PROVE  CallsOK' /\ PollInv'
  <2> DEFINE c == [calls[k] EXCEPT !.stage = "answered", !.reply = r]
  <2>1. calls' = [calls EXCEPT ![k] = c]
    BY <1>3
  <2>2. CallOK(c)
    BY <1>1, <1>3, CallGoesOn
  <2>3. c.what = calls[k].what
    BY <1>1 DEF CallOK, CallRecord
  <2> QED
    BY <1>2, <1>3, <2>1, <2>2, <2>3
<1>4. ASSUME served' \in State, orphans' \in SUBSET Edit, UNCHANGED <<window, calm>>
      PROVE  RestOK'
  BY <1>1, <1>4 DEF RestOK, window
<1>5. ASSUME Known(calls[k].edit, served), calls[k].what = "edit"
      PROVE  Do(calls[k].edit, served) \in State
  BY <1>1, <1>5, DoIsState DEF CallOK, CallRecord, RestOK
<1>6. CASE Execute(k)
  <2>1. served' \in State /\ orphans' \in SUBSET Edit
    BY <1>1, <1>5, <1>6 DEF Execute, RestOK
  <2>2. calls[k].what = "edit" /\ calls[k].stage = "waiting" /\ UNCHANGED <<window, calm>>
    BY <1>6 DEF Execute
  <2>3. CASE calls' = [calls EXCEPT ![k].stage = "executed"]
    <3> DEFINE c == [calls[k] EXCEPT !.stage = "executed"]
    <3>1. calls' = [calls EXCEPT ![k] = c]
      BY <2>3
    <3>2. CallOK(c) /\ c.what = calls[k].what
      BY <1>1, <2>2, CallGoesOn DEF CallOK, CallRecord
    <3> QED
      BY <1>2, <1>4, <2>1, <2>2, <3>1, <3>2 DEF GuiInv
  <2>4. CASE calls' = [calls EXCEPT ![k].stage = "answered", ![k].reply = Failed]
    BY <1>3, <1>4, <2>1, <2>2, <2>4 DEF GuiInv
  <2> QED
    BY <1>6, <2>3, <2>4 DEF Execute
<1>7. CASE ReadState(k)
  <2>1. /\ calls' = [calls EXCEPT ![k].stage = "answered", ![k].reply = served]
        /\ calls[k].what # "none" /\ UNCHANGED <<served, orphans, window, calm>>
    BY <1>7 DEF ReadState
  <2>2. served \in State /\ orphans \in SUBSET Edit
    BY <1>1 DEF RestOK
  <2> QED
    BY <1>3, <1>4, <2>1, <2>2 DEF GuiInv
<1>8. CASE GiveUp(k)
  <2>1. /\ calls' = [calls EXCEPT ![k].stage = "answered", ![k].reply = Failed]
        /\ calls[k].what # "none" /\ UNCHANGED <<served, window, calm>>
    BY <1>8 DEF GiveUp
  <2>2. orphans' \in SUBSET Edit
    <3>1. calls[k].what = "edit" => calls[k].edit \in Edit
      BY <1>1 DEF CallOK, CallRecord
    <3> QED
      BY <1>1, <1>8, <3>1 DEF GiveUp, RestOK
  <2> QED
    BY <1>1, <1>3, <1>4, <2>1, <2>2 DEF GuiInv, RestOK
<1> QED
  BY <1>6, <1>7, <1>8

\* The window renders, asks again or sends.
LEMMA WindowGui ==
  ASSUME GuiInv, NEW k \in Slot, PollDone(k) \/ CallDone(k) \/ Refresh(k) \/ AddTunnel(k)
  PROVE  GuiInv'
<1>1. CallsOK /\ PollInv /\ RestOK /\ CallOK(calls[k])
  BY DEF GuiInv, CallsOK
<1>2. ASSUME calls' = [calls EXCEPT ![k] = Free], calls[k].what # "poll", inFlight' = inFlight
      PROVE  CallsOK' /\ PollInv'
  BY <1>1, <1>2, NewCalls, KindKept, OneSlotKeepsCalls DEF OneSlot, CallOK, Free
<1>3. ASSUME UNCHANGED <<served, orphans, calm>>, inFlight' \in BOOLEAN,
             \/ Render(calls[k].reply) /\ calls[k].reply \notin {Pending, Failed}
             \/ UNCHANGED <<shown, switches>> /\ disconnected' \in BOOLEAN
      PROVE  RestOK'
  <2>1. calls[k].reply \in State \cup {Pending, Failed}
    BY <1>1 DEF CallOK, CallRecord
  <2> QED
    BY <1>1, <1>3, <2>1, RenderOK DEF RestOK
<1>4. CASE PollDone(k)
  <2>1. /\ calls[k].what = "poll" /\ calls' = [calls EXCEPT ![k] = Free] /\ inFlight' = FALSE
    BY <1>4 DEF PollDone
  <2>2. RestOK'
    BY <1>3, <1>4 DEF PollDone
  <2>3. CallsOK'
    BY <1>1, <2>1, NewCalls, OneSlotKeepsCalls DEF OneSlot, CallOK
  <2>4. \A l \in Slot : calls'[l].what # "poll"
    BY <1>1, <2>1 DEF CallsOK, PollInv, Free
  <2> QED
    BY <2>1, <2>2, <2>3, <2>4 DEF GuiInv, PollInv
<1>5. CASE CallDone(k)
  <2>1. calls[k].what # "poll" /\ calls[k].reply # Pending /\ UNCHANGED <<served, orphans, calm>>
    BY <1>5 DEF CallDone
  <2>2. CASE Poll(k) /\ UNCHANGED <<shown, switches, disconnected>>
    <3>1. OneSlot /\ PollInv' /\ inFlight' = TRUE
      BY <1>1, <2>1, <2>2, PollStarts
    <3>2. disconnected' \in BOOLEAN
      BY <1>1, <2>2 DEF RestOK
    <3>3. RestOK'
      BY <1>3, <2>1, <2>2, <3>1, <3>2
    <3> QED
      BY <1>1, <3>1, <3>3, OneSlotKeepsCalls DEF GuiInv
  <2>3. CASE /\ calls' = [calls EXCEPT ![k] = Free] /\ UNCHANGED inFlight
             /\ \/ Render(calls[k].reply) /\ calls[k].reply # Failed
                \/ UNCHANGED <<shown, switches, disconnected>>
    <3>1. inFlight' \in BOOLEAN /\ disconnected \in BOOLEAN
      BY <1>1, <2>3 DEF RestOK
    <3>2. RestOK'
      BY <1>3, <2>1, <2>3, <3>1
    <3> QED
      BY <1>2, <2>1, <2>3, <3>2 DEF GuiInv
  <2> QED
    BY <1>5, <2>2, <2>3 DEF CallDone
<1>6. CASE Refresh(k)
  <2>1. calls[k].what # "poll" /\ Poll(k)
    BY <1>6 DEF Refresh, Free
  <2>2. OneSlot /\ PollInv' /\ inFlight' = TRUE
    BY <1>1, <2>1, PollStarts
  <2>3. RestOK'
    BY <1>1, <1>6, <2>2 DEF Refresh, RestOK
  <2> QED
    BY <1>1, <2>2, <2>3, OneSlotKeepsCalls DEF GuiInv
<1>7. CASE AddTunnel(k)
  <2>1. calls' = [calls EXCEPT ![k] = Sent("profiles", NoEdit)] /\ calls[k] = Free
        /\ UNCHANGED <<served, orphans, window, calm>>
    BY <1>7 DEF AddTunnel
  <2>2. RestOK' /\ inFlight' = inFlight
    BY <1>1, <2>1 DEF RestOK, window
  <2>3. CallsOK'
    BY <1>1, <2>1, NewCalls, OneSlotKeepsCalls DEF OneSlot, CallOK
  <2>4. calls[k].what # "poll" /\ Sent("profiles", NoEdit).what # "poll"
    BY <2>1 DEF Free, Sent
  <2>5. PollInv'
    BY <1>1, <2>1, <2>2, <2>4, KindKept
  <2> QED
    BY <2>2, <2>3, <2>5 DEF GuiInv
<1> QED
  BY <1>4, <1>5, <1>6, <1>7

\* The user edits.
LEMMA UserGui ==
  ASSUME GuiInv, NEW k \in Slot, User(k)
  PROVE  GuiInv'
<1>1. CallsOK /\ PollInv /\ RestOK
  BY DEF GuiInv
<1>2. ASSUME NEW e \in Edit, Send(k, e), switches' \in [DOMAIN shown -> BOOLEAN]
      PROVE  GuiInv'
  <2>1. /\ calls[k] = Free /\ calls' = [calls EXCEPT ![k] = Sent("edit", e)]
        /\ UNCHANGED <<served, orphans, inFlight, shown, disconnected, calm>>
    BY <1>2 DEF Send
  <2>2. CallOK(Sent("edit", e)) /\ Sent("edit", e).what = "edit"
    BY NewCalls DEF Sent
  <2>3. CallsOK'
    BY <1>1, <2>1, <2>2, OneSlotKeepsCalls DEF OneSlot, CallOK
  <2>4. PollInv'
    <3>1. calls[k].what # "poll" /\ Sent("edit", e).what # "poll"
      BY <2>1, <2>2 DEF Free
    <3> QED
      BY <1>1, <2>1, <3>1, KindKept
  <2>5. RestOK'
    BY <1>1, <1>2, <2>1 DEF RestOK
  <2> QED
    BY <2>3, <2>4, <2>5 DEF GuiInv
<1>3. switches \in [DOMAIN shown -> BOOLEAN] /\ shown \in State
  BY <1>1 DEF RestOK
<1>4. ASSUME NEW d \in Domain, Toggle(k, d)
      PROVE  GuiInv'
  <2> DEFINE e == [op |-> "enable", domain |-> d, on |-> ~switches[d]]
  <2>1. e \in Edit
    BY <1>3 DEF Edit
  <2>2. switches' \in [DOMAIN shown -> BOOLEAN]
    BY <1>3, <1>4 DEF Toggle
  <2> QED
    BY <1>2, <1>4, <2>1, <2>2 DEF Toggle
<1>5. ASSUME NEW d \in Domain, Delete(k, d)
      PROVE  GuiInv'
  <2>1. [op |-> "delete", domain |-> d] \in Edit
    BY DEF Edit
  <2> QED
    BY <1>2, <1>3, <1>5, <2>1 DEF Delete
<1>6. ASSUME NEW d \in Domain, NEW t \in Via, Add(k, d, t)
      PROVE  GuiInv'
  <2>1. [op |-> "upsert", domain |-> d, rule |-> [via |-> t, enabled |-> TRUE]] \in Edit
    BY DEF Edit, Entry
  <2> QED
    BY <1>2, <1>3, <1>6, <2>1 DEF Add
<1>7. ASSUME NEW d \in Domain, NEW t \in Via, DropDNS(k, d, t)
      PROVE  GuiInv'
  <2>1. d \in DOMAIN shown /\ shown[d] \in Entry
    BY <1>3, <1>7, StateMaps DEF DropDNS
  <2>2. [op |-> "upsert", domain |-> d, rule |-> [shown[d] EXCEPT !.via = t]] \in Edit
    BY <2>1 DEF Edit, Entry
  <2> QED
    BY <1>2, <1>3, <1>7, <2>2 DEF DropDNS
<1> QED
  BY <1>4, <1>5, <1>6, <1>7, WindowGui DEF User

LEMMA GuiStep == GuiInv /\ [GuiNext]_guiVars => GuiInv'
<1> SUFFICES ASSUME GuiInv, [GuiNext]_guiVars
             PROVE  GuiInv'
  OBVIOUS
<1>1. CallsOK /\ PollInv /\ RestOK
  BY DEF GuiInv
<1>2. ASSUME UNCHANGED <<calls, window>>, served' \in State, orphans' \in SUBSET Edit,
             calm' \in BOOLEAN
      PROVE  GuiInv'
  <2>1. CallsOK' /\ PollInv'
    BY <1>1, <1>2, OneSlotKeepsCalls, PollUnchanged DEF OneSlot, window
  <2>2. RestOK'
    BY <1>1, <1>2 DEF RestOK, window
  <2> QED
    BY <2>1, <2>2 DEF GuiInv
<1>3. ASSUME NEW e \in Edit, Known(e, served) PROVE Do(e, served) \in State
  BY <1>1, <1>3, DoIsState DEF RestOK
<1>4. CASE ServeOrphan
  <2>1. served' \in State /\ orphans' \in SUBSET Edit
    BY <1>1, <1>3, <1>4 DEF ServeOrphan, RestOK
  <2> QED
    BY <1>1, <1>2, <1>4, <2>1 DEF ServeOrphan, RestOK
<1>5. CASE OtherClient
  BY <1>1, <1>2, <1>3, <1>5 DEF OtherClient, RestOK
<1>6. CASE Settle \/ UNCHANGED guiVars
  BY <1>1, <1>2, <1>6 DEF Settle, guiVars, window, RestOK
<1>7. ASSUME NEW k \in Slot, CallStep(k) \/ Refresh(k) \/ GiveUp(k) \/ User(k)
      PROVE  GuiInv'
  BY <1>7, DaemonGui, WindowGui, UserGui DEF CallStep
<1> QED
  BY <1>4, <1>5, <1>6, <1>7 DEF GuiNext

LEMMA GuiInvariance == GuiSpec => []GuiInv
BY InitGui, GuiStep, PTL DEF GuiSpec

\* The state of the window and of its calls is well typed, whatever the daemon answers or
\* leaves unanswered.
THEOREM GuiType == GuiSpec => []GuiTypeOK
<1>1. GuiInv => GuiTypeOK
  BY DEF GuiInv, RestOK, CallsOK, CallOK, CallRecord, GuiTypeOK
<1> QED
  BY <1>1, GuiInvariance, PTL

\* However many calls are under way, one poll at most is among them, and the flag that
\* keeps a second from being sent tells exactly whether there is one.
THEOREM GuiPollsOnce == GuiSpec => []OnePoll
<1>1. GuiInv => OnePoll
  <2> SUFFICES ASSUME GuiInv
               PROVE  OnePoll
    OBVIOUS
  <2> DEFINE polls == {k \in Slot : calls[k].what = "poll"}
  <2>1. PollInv /\ inFlight \in BOOLEAN
    BY DEF GuiInv, RestOK
  <2>2. CASE inFlight
    <3>1. \E k \in Slot : polls = {k}
      BY <2>1, <2>2 DEF PollInv
    <3>2. Cardinality(polls) = 1
      BY <3>1, FS_Singleton
    <3> QED
      BY <2>2, <3>2 DEF OnePoll
  <2>3. CASE ~inFlight
    <3>1. polls = {}
      BY <2>1, <2>3 DEF PollInv
    <3>2. Cardinality(polls) = 0
      BY <3>1, FS_EmptySet
    <3> QED
      BY <2>3, <3>2 DEF OnePoll
  <2> QED
    BY <2>1, <2>2, <2>3
<1> QED
  BY <1>1, GuiInvariance, PTL

-----------------------------------------------------------------------------
(* Once the daemon is quiet. *)

\* Nothing stirs the daemon any more, and every answer is its state.
LEMMA QuietStep ==
  ASSUME GuiInv, Quiet, [GuiNext]_guiVars
  PROVE  /\ Quiet'
         /\ (Shows \/ \E k \in Slot : PollDone(k)) => Shows'
<1>1. /\ CallsOK /\ RestOK /\ calm /\ orphans = {}
      /\ served \in State /\ served \notin {Pending, Failed}
  BY RepliesAssumption DEF GuiInv, Quiet, RestOK
<1>2. ASSUME UNCHANGED <<served, orphans, calm>>, NEW k \in Slot, NEW c,
             calls' = [calls EXCEPT ![k] = c], c.reply \in {Pending, served},
             c.what = "edit" => c.stage # "waiting"
      PROVE  Quiet'
  <2>1. \A l \in Slot : calls'[l] = IF l = k THEN c ELSE calls[l]
    BY <1>1, <1>2 DEF CallsOK
  <2> QED
    BY <1>1, <1>2, <2>1 DEF Quiet
<1>3. Free.what # "edit" /\ Free.reply = Pending /\ Sent("poll", NoEdit).what # "edit"
      /\ Sent("poll", NoEdit).reply = Pending
  BY DEF Free, Sent
<1>4. ASSUME NEW k \in Slot, PollDone(k) \/ CallDone(k)
      PROVE  Quiet' /\ Shows'
  <2>1. calls[k].reply = served /\ UNCHANGED <<served, orphans, calm>>
    BY <1>4 DEF Quiet, PollDone, CallDone
  <2>2. calls' = [calls EXCEPT ![k] = Free] /\ Render(served)
    BY <1>1, <1>4, <2>1 DEF PollDone, CallDone
  <2>3. Quiet'
    BY <1>2, <1>3, <2>1, <2>2
  <2>4. Shows'
    BY <2>1, <2>2 DEF Shows, Render, Switches
  <2> QED
    BY <2>3, <2>4
<1>5. ASSUME UNCHANGED <<served, shown, switches, disconnected>>
      PROVE  Shows => Shows'
  BY <1>5 DEF Shows, Switches
<1>6. ASSUME NEW k \in Slot, ReadState(k)
      PROVE  Quiet' /\ UNCHANGED <<served, shown, switches, disconnected>>
  <2> DEFINE c == [calls[k] EXCEPT !.stage = "answered", !.reply = served]
  <2>1. calls' = [calls EXCEPT ![k] = c] /\ UNCHANGED <<served, orphans, window, calm>>
    BY <1>6 DEF ReadState
  <2>2. calls[k] \in CallRecord
    BY <1>1 DEF CallsOK
  <2>3. c.reply = served /\ c.stage = "answered"
    BY <2>2 DEF CallRecord
  <2>4. Quiet'
    BY <1>2, <2>1, <2>3
  <2> QED
    BY <2>1, <2>4 DEF window
<1>7. ASSUME NEW k \in Slot, Refresh(k)
      PROVE  Quiet' /\ UNCHANGED <<served, shown, switches, disconnected>>
  <2>1. UNCHANGED <<served, orphans, shown, switches, disconnected, calm>>
        /\ (\/ calls' = [calls EXCEPT ![k] = Free]
            \/ calls' = [calls EXCEPT ![k] = Sent("poll", NoEdit)])
    BY <1>7 DEF Refresh, Poll
  <2> QED
    BY <1>2, <1>3, <2>1
<1>8. ASSUME NEW k \in Slot
      PROVE  ~(Execute(k) \/ GiveUp(k) \/ User(k))
  BY <1>1 DEF Quiet, Execute, GiveUp, User, Toggle, Delete, Add, DropDNS, Send, AddTunnel
<1>9. ~(ServeOrphan \/ OtherClient \/ Settle)
  BY <1>1 DEF ServeOrphan, OtherClient, Settle
<1>10. CASE UNCHANGED guiVars
  <2>1. Quiet' /\ UNCHANGED <<served, shown, switches, disconnected, calls>>
    BY <1>10 DEF Quiet, guiVars, window
  <2>2. ASSUME NEW k \in Slot PROVE ~PollDone(k)
    BY <1>1, <2>1, <1>3 DEF PollDone, CallsOK, Free
  <2> QED
    BY <1>5, <2>1, <2>2
<1>11. CASE GuiNext
  <2>1. PICK k \in Slot : PollDone(k) \/ CallDone(k) \/ ReadState(k) \/ Refresh(k)
    BY <1>8, <1>9, <1>11 DEF GuiNext, CallStep
  <2>2. CASE PollDone(k) \/ CallDone(k)
    BY <1>4, <2>2
  <2>3. CASE ReadState(k) \/ Refresh(k)
    <3>1. Quiet' /\ (Shows => Shows')
      BY <1>5, <1>6, <1>7, <2>3
    <3>2. ASSUME NEW l \in Slot, PollDone(l) PROVE Shows'
      BY <1>4, <3>2
    <3> QED
      BY <3>1, <3>2
  <2> QED
    BY <2>1, <2>2, <2>3
<1> QED
  BY <1>10, <1>11

\* For every number of calls under way: once nothing fails and no edit has still to be
\* served, the first poll that ends makes the window right, and it stays right.
THEOREM GuiPollShows == GuiSpec => PollShows
<1>1. GuiInv /\ [GuiNext]_guiVars
        => [Quiet => /\ Quiet'
                     /\ (Shows \/ \E k \in Slot : PollDone(k)) => Shows'
           ]_guiVars
  BY QuietStep
<1> QED
  BY <1>1, GuiInvariance, PTL DEF GuiSpec, PollShows

=============================================================================
