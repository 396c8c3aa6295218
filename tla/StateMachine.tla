----------------------------- MODULE StateMachine ------------------------------
(***************************************************************************)
(* etl::smach, the machine of states that a canvas view has for its tools, *)
(* with the states of the tree as far as they use the machine again: a     *)
(* drawing tool pushes the stroke state from its handler of a press of the *)
(* button, the stroke state pops itself, any tool changes to the normal    *)
(* state when it is stopped, and the destructor of a stroke's context      *)
(* sends the stroke as an event to the machine that is just leaving it.    *)
(*                                                                         *)
(* Everything runs in the GUI thread.  What calls what is on a stack of    *)
(* calls, so that a handler can be seen running while the machine, further *)
(* down, is in the middle of a transition.  enter_state never fails here:  *)
(* no state of the tree returns 0.                                         *)
(***************************************************************************)
EXTENDS Integers, Sequences, SequencesExt

CONSTANTS
    Tools,          \* the states that draw strokes
    StackSize,      \* SMACH_STATE_STACK_SIZE
    MaxContexts     \* bound: contexts ever made

ASSUME MachineAssumption ==
    /\ StackSize \in Nat \ {0}
    /\ MaxContexts \in Nat
    /\ Tools \cap {"normal", "stroke", "none"} = {}

VARIABLES
    \* the machine: a state together with its context
    curr_state,
    state_stack,
    default_state,
    \* the contexts
    made,           \* how many have been made
    live,           \* those that have not been deleted
    stroke_data,    \* points of the stroke that is being drawn, 2 for more
    \* the calls that have not returned, the innermost last
    calls,
    \* the view, the user and the toolbox
    listed,         \* the document's list of views has a handle to the view
    asked,          \* the tool asked for last
    active          \* the button that is down

machine == <<curr_state, state_stack, default_state>>
contexts == <<made, live>>
gui == <<listed, asked, active>>
vars == <<machine, contexts, stroke_data, calls, gui>>

Events == {"down", "drag", "up", "stop", "refresh"}

\* A context: its state, a number, and the one that was current when it was pushed.
None == [state |-> "none", id |-> 0, by |-> 0]
New(s, by) == [state |-> s, id |-> made + 1, by |-> by]

\* What a call does next.
Handling(c, e) == [op |-> "handle", ctx |-> c, event |-> e]
Leaving(c) == [op |-> "leave", ctx |-> c, sent |-> FALSE]
LeavingSent(c) == [op |-> "leave", ctx |-> c, sent |-> TRUE]
Egressing == [op |-> "egress"]
Entering(s) == [op |-> "enter", state |-> s]
Closing(at) == [op |-> "close", at |-> at]

Running(op) == calls # <<>> /\ Last(calls).op = op
Call(f) == calls' = Append(calls, f)
Return == calls' = Front(calls)
GoOn(fs) == calls' = Front(calls) \o fs

\* get_state_name(), for the buttons of the toolbox: stroke has none.
Shown ==
    LET c == IF curr_state # None THEN curr_state ELSE default_state
    IN  IF c.state = "stroke" THEN "none" ELSE c.state

\* The state whose handler process_event calls first.
Receiver == IF curr_state # None THEN curr_state ELSE default_state

Init ==
    /\ curr_state = None
    /\ state_stack = <<>>
    /\ default_state = [state |-> "normal", id |-> 1, by |-> 0]
    /\ made = 1
    /\ live = {1}
    /\ stroke_data = 0
    /\ calls = <<>>
    /\ listed = TRUE
    /\ asked = "none"
    /\ active = "normal"

-----------------------------------------------------------------------------
\* Fault: the current state is left, not the ones below it.
EnterCallsTop(s) ==
    IF curr_state # None /\ state_stack = <<>> THEN <<Entering(s), Egressing>> ELSE <<Entering(s)>>

\* enter(s) and what it calls first, for a caller that has nothing left to do.
EnterCalls(s) == IF curr_state # None THEN <<Entering(s), Egressing>> ELSE <<Entering(s)>>

\* Fault: the stack keeps what it has given back.
PoppedKept ==
    /\ curr_state' = Last(state_stack)
    /\ UNCHANGED <<state_stack, default_state>>

\* pop_state() with something on the stack; the caller leaves the old state.
Popped ==
    /\ curr_state' = Last(state_stack)
    /\ state_stack' = Front(state_stack)
    /\ UNCHANGED default_state

Idle == calls = <<>> /\ listed
Room == made < MaxContexts

\* The main loop: a button of the toolbox,
ToolClick(s) ==
    /\ Idle
    /\ Room
    /\ asked' = s
    /\ calls' = EnterCalls(s)
    /\ UNCHANGED <<machine, contexts, stroke_data, listed, active>>

\* an event of the work area,
Event(e) ==
    /\ Idle
    /\ Room
    /\ Call(Handling(Receiver, e))
    /\ UNCHANGED <<machine, contexts, stroke_data, gui>>

\* update_tools() after a change of the history,
UpdateTools ==
    /\ Idle
    /\ active' = Shown
    /\ UNCHANGED <<machine, contexts, stroke_data, calls, listed, asked>>

\* the view hidden,
Hide ==
    /\ Idle
    /\ asked' = "none"
    /\ Call(Egressing)
    /\ UNCHANGED <<machine, contexts, stroke_data, listed, active>>

\* Fault: a document that is closed does not hide its views.
CloseShown ==
    /\ Idle
    /\ asked' = "none"
    /\ calls' = <<Closing("list")>>
    /\ UNCHANGED <<machine, contexts, stroke_data, listed, active>>

\* and the document closed, which hides its views and then lets them go.
Close ==
    /\ Idle
    /\ asked' = "none"
    /\ calls' = <<Closing("list"), Egressing>>
    /\ UNCHANGED <<machine, contexts, stroke_data, listed, active>>

-----------------------------------------------------------------------------
\* A handler runs: whose, and on which event.
Handles(states, events) ==
    /\ Running("handle")
    /\ Last(calls).ctx.state \in states
    /\ Last(calls).event \in events

OnlyCalls == UNCHANGED <<machine, contexts, stroke_data, gui>>

\* It returns RESULT_ACCEPT,
Accept ==
    /\ \/ Handles({"normal"}, Events \cup {"stroke"})
       \/ Handles(Tools, {"refresh", "stroke"})
       \/ Handles({"stroke"}, {"refresh"})
    /\ Return
    /\ OnlyCalls

\* or RESULT_OK, or there is none: then the default state handles the event.
HandledOK ==
    /\ \/ Handles({"normal"}, Events \cup {"stroke"})
       \/ Handles(Tools, {"down", "drag", "up", "stroke"})
       \/ Handles({"stroke"}, {"down", "drag", "up"})
    /\ IF Last(calls).ctx # default_state
       THEN GoOn(<<Handling(default_state, Last(calls).event)>>)
       ELSE Return
    /\ OnlyCalls

\* push_state(&state_stroke) by a tool, which then accepts the event.
PushStroke ==
    /\ Handles(Tools, {"down"})
    /\ Len(state_stack) < StackSize
    /\ state_stack' = Append(state_stack, curr_state)
    /\ curr_state' = New("stroke", curr_state.id)
    /\ made' = made + 1
    /\ live' = live \cup {made + 1}
    /\ stroke_data' = 0
    /\ Return
    /\ UNCHANGED <<default_state, gui>>

StrokeDrag ==
    /\ Handles({"stroke"}, {"drag"})
    /\ stroke_data' = IF stroke_data < 2 THEN stroke_data + 1 ELSE 2
    /\ Return
    /\ UNCHANGED <<machine, contexts, gui>>

\* Fault: the handler pops its own state and goes on.
PopInside ==
    /\ Handles({"stroke"}, {"up", "stop"})
    /\ Popped
    /\ Call(Leaving(curr_state))
    /\ UNCHANGED <<contexts, stroke_data, gui>>

\* Fault: the stroke state is left while it is current, and not popped.
LeftUnpopped ==
    /\ Handles({"stroke"}, {"up", "stop"})
    /\ GoOn(<<Leaving(curr_state)>>)
    /\ UNCHANGED <<machine, contexts, stroke_data, gui>>

\* throw pop_exception: pop_state() when the handler is gone.
ThrowPop ==
    /\ Handles({"stroke"}, {"up", "stop"})
    /\ Popped
    /\ GoOn(<<Leaving(curr_state)>>)
    /\ UNCHANGED <<contexts, stroke_data, gui>>

\* Fault: a stopped tool throws egress_exception.
ThrowEgress ==
    /\ Handles(Tools, {"stop"})
    /\ asked' = "normal"
    /\ GoOn(<<Egressing>>)
    /\ UNCHANGED <<machine, contexts, stroke_data, listed, active>>

\* throw &state_normal: enter() when the handler is gone.
ThrowState ==
    /\ Handles(Tools, {"stop"})
    /\ asked' = "normal"
    /\ GoOn(EnterCalls("normal"))
    /\ UNCHANGED <<machine, contexts, stroke_data, listed, active>>

-----------------------------------------------------------------------------
\* leave_state() of a long stroke sends it to the machine before it returns.
HasStroke(f) == f.ctx.state = "stroke" /\ ~f.sent /\ stroke_data = 2

SendStroke ==
    /\ Running("leave")
    /\ HasStroke(Last(calls))
    /\ active' = Shown
    /\ GoOn(<<LeavingSent(Last(calls).ctx), Handling(Receiver, "stroke")>>)
    /\ UNCHANGED <<machine, contexts, stroke_data, listed, asked>>

\* Each destructor lets the toolbox show the state of the machine.
Left ==
    /\ Running("leave")
    /\ ~HasStroke(Last(calls))
    /\ active' = IF Last(calls).sent THEN active ELSE Shown
    /\ live' = live \ {Last(calls).ctx.id}
    /\ Return
    /\ UNCHANGED <<machine, made, stroke_data, listed, asked>>

\* egress(): the states on the stack, then the last one, with no state current.
EgressPop ==
    /\ Running("egress")
    /\ state_stack # <<>>
    /\ Popped
    /\ Call(Leaving(curr_state))
    /\ UNCHANGED <<contexts, stroke_data, gui>>

EgressLast ==
    /\ Running("egress")
    /\ state_stack = <<>>
    /\ curr_state # None
    /\ curr_state' = None
    /\ GoOn(<<Leaving(curr_state)>>)
    /\ UNCHANGED <<state_stack, default_state, contexts, stroke_data, gui>>

EgressNothing ==
    /\ Running("egress")
    /\ state_stack = <<>>
    /\ curr_state = None
    /\ Return
    /\ OnlyCalls

\* Fault: the state is current when it has been entered.
EnteredLate ==
    /\ Running("enter")
    /\ curr_state' = New(Last(calls).state, 0)
    /\ made' = made + 1
    /\ live' = live \cup {made + 1}
    /\ active' = Shown
    /\ Return
    /\ UNCHANGED <<state_stack, default_state, stroke_data, listed, asked>>

\* The rest of enter(): the constructor shows the state that is current already.
Entered ==
    /\ Running("enter")
    /\ curr_state' = New(Last(calls).state, 0)
    /\ made' = made + 1
    /\ live' = live \cup {made + 1}
    /\ active' = Last(calls).state
    /\ Return
    /\ UNCHANGED <<state_stack, default_state, stroke_data, listed, asked>>

\* The contexts of the machine, and those whose destructors run.  (The pointer to
\* the default state's context is reset after it has been left.)
Held ==
    {curr_state} \cup Range(state_stack)
    \cup (IF Running("close") /\ Last(calls).at = "forget" THEN {} ELSE {default_state})
BeingLeft == {calls[i].ctx : i \in {j \in 1..Len(calls) : calls[j].op = "leave"}}

\* The contexts of tools and strokes hold handles to the view; a normal one does not.
ViewHandles == {c \in Held \cup BeingLeft : c.state \in Tools \cup {"stroke"}}

\* The list of views is cleared: ~CanvasView, if that was the last handle.
Unlisted ==
    /\ Running("close")
    /\ Last(calls).at = "list"
    /\ listed' = FALSE
    /\ IF ViewHandles = {} THEN GoOn(<<Closing("default"), Egressing>>) ELSE Return
    /\ UNCHANGED <<machine, contexts, stroke_data, asked, active>>

\* set_default_state(0): the state is left, then forgotten.
LeaveDefault ==
    /\ Running("close")
    /\ Last(calls).at = "default"
    /\ GoOn(<<Closing("forget"), Leaving(default_state)>>)
    /\ OnlyCalls

Closed ==
    /\ Running("close")
    /\ Last(calls).at = "forget"
    /\ default_state' = None
    /\ Return
    /\ UNCHANGED <<curr_state, state_stack, contexts, stroke_data, gui>>

-----------------------------------------------------------------------------
Outside ==
    \/ \E s \in Tools \cup {"normal"} : ToolClick(s)
    \/ \E e \in Events : Event(e)
    \/ UpdateTools \/ Hide \/ Close

Inside ==
    \/ Accept \/ HandledOK \/ PushStroke \/ StrokeDrag \/ ThrowPop \/ ThrowState
    \/ SendStroke \/ Left \/ EgressPop \/ EgressLast \/ EgressNothing \/ Entered
    \/ Unlisted \/ LeaveDefault \/ Closed

Next == Outside \/ Inside

\* A call that has begun goes on; nobody need do anything.
Spec == Init /\ [][Next]_vars /\ WF_vars(Inside)

-----------------------------------------------------------------------------
\* Every context that was entered is left once: the ones that exist are those
\* of the machine and those that are being left at this moment.
ContextsPaired == live = {c.id : c \in (Held \cup BeingLeft) \ {None}}

\* No handler runs, or returns into, a context that has been deleted: a handler
\* that changes its own state throws, and the transition begins when it is gone.
HandlerAlive ==
    \A i \in 1..Len(calls) : calls[i].op = "handle" => calls[i].ctx.id \in live

\* A stroke is sent "to whatever previously called this state" (state_stroke),
\* however the stroke ends: the tool is current again when it is left.
StrokeHeard ==
    [][Len(calls') > Len(calls) /\ Last(calls').op = "handle" /\ Last(calls').event = "stroke"
       => Last(calls').ctx.id = Last(calls).ctx.by]_vars

\* With no call under way the tool in use is the one asked for last, or a
\* stroke is being drawn with it.
ToolAskedFor ==
    calls = <<>> =>
        IF asked = "none" THEN curr_state = None /\ state_stack = <<>>
        ELSE \/ curr_state.state = asked /\ state_stack = <<>>
             \/ /\ curr_state.state = "stroke"
                /\ Len(state_stack) = 1
                /\ state_stack[1].state = asked

\* The toolbox, which each state tells only that it has been entered or is being
\* left, has the button of the tool in use down, when it is not drawing.
ToolboxShows ==
    calls = <<>> /\ default_state # None /\ curr_state.state # "stroke" =>
        active = IF asked = "none" THEN "normal" ELSE asked

\* A closed view is gone, with all its contexts, though the contexts of its tools
\* hold handles to it: what is left of the machine does not keep the view alive.
ViewGone == calls = <<>> /\ ~listed => default_state = None /\ live = {}

\* Every transition comes to its end, the events sent from inside it too.
CallsReturn == calls # <<>> ~> calls = <<>>
=============================================================================
