-------------------------- MODULE StateMachineProofs --------------------------
(***************************************************************************)
(* What holds of the machine of states for every set of tools, every size  *)
(* of its stack and any number of contexts.  A property of the states with *)
(* no call under way is a property of what the calls that are under way    *)
(* will leave behind, so the inductive invariant says, of every call on    *)
(* the stack of calls, what it counts on and what it is bound to do.       *)
(***************************************************************************)
EXTENDS StateMachine, SequenceTheorems, TLAPS

\* The contexts of some states; ids count from 1, so None is none of them.
Context(states) == [state : states, id : Nat \ {0}, by : Nat]

\* A call that has not returned.
Frame ==
         [op : {"handle"}, ctx : Context(Tools \cup {"normal", "stroke"}),
          event : Events \cup {"stroke"}]
    \cup [op : {"leave"}, ctx : Context(Tools \cup {"normal", "stroke"}), sent : BOOLEAN]
    \cup [op : {"egress"}]
    \cup [op : {"enter"}, state : Tools \cup {"normal"}]
    \cup [op : {"close"}, at : {"list", "default", "forget"}]

\* The machine has no state, a tool or the normal state, or a stroke on its tool.
Empty == curr_state = None /\ state_stack = <<>>

Single == curr_state \in Context(Tools \cup {"normal"}) /\ state_stack = <<>>

Drawing ==
    /\ curr_state \in Context({"stroke"})
    /\ state_stack # <<>>
    /\ state_stack = <<state_stack[1]>>
    /\ state_stack[1] \in Context(Tools)
    /\ curr_state.by = state_stack[1].id

TypeOK ==
    /\ made \in Nat
    /\ live \subseteq 1..made
    /\ stroke_data \in 0..2
    /\ calls \in Seq(Frame)
    /\ listed \in BOOLEAN
    /\ asked \in Tools \cup {"normal", "none"}
    /\ active \in Tools \cup {"normal", "none"}
    /\ default_state \in Context({"normal"}) \cup {None}
    /\ default_state # None => default_state.id <= made /\ default_state # curr_state
    /\ Empty \/ Single \/ Drawing

\* A transition calls from left to right in this order, never twice the same.
Rank(op) ==
    IF op \in {"enter", "close"} THEN 1
    ELSE IF op = "egress" THEN 2 ELSE IF op = "leave" THEN 3 ELSE 4

Nested ==
    \A i, j \in 1..Len(calls) : i < j => Rank(calls[i].op) < Rank(calls[j].op)

\* What the call number i counts on.
HandleOK(i) ==
    calls[i].op = "handle" =>
        /\ default_state # None
        /\ calls[i].ctx \in {curr_state, default_state} \ {None}
        /\ IF i = 1 THEN calls[i].event \in Events
           ELSE calls[i].event = "stroke" /\ calls[i - 1].op = "leave"

LeaveOK(i) ==
    calls[i].op = "leave" =>
        /\ default_state # None
        /\ i < Len(calls) => calls[i].sent
        /\ calls[i].sent => calls[i].ctx.state = "stroke"
        /\ calls[i].ctx.state = "stroke" =>
               /\ Single
               /\ curr_state.state \in Tools
               /\ calls[i].ctx.by = curr_state.id
               /\ i = 1 \/ calls[i - 1].op = "egress"
        /\ calls[i].ctx.state # "stroke" => Empty /\ (i = 1 \/ calls[i - 1].op # "egress")
        /\ \/ i = 2 /\ calls[1].op = "close" /\ calls[1].at = "forget"
           \/ calls[i].ctx # default_state

EnterOK(i) ==
    calls[i].op = "enter" =>
        /\ default_state # None
        /\ asked = calls[i].state
        /\ i = Len(calls) => Empty

CloseOK(i) ==
    calls[i].op = "close" =>
        /\ default_state # None
        /\ asked = "none"
        /\ i = Len(calls) => Empty
        /\ calls[i].at # "list" => ~listed
        /\ calls[i].at = "forget" =>
               /\ Empty
               /\ i < Len(calls) => /\ Len(calls) = 2
                                    /\ calls[2].op = "leave"
                                    /\ calls[2].ctx = default_state

FramesOK ==
    \A i \in 1..Len(calls) : HandleOK(i) /\ LeaveOK(i) /\ EnterOK(i) /\ CloseOK(i)

\* The tool in use is the one asked for last, or a stroke is drawn with it.
InUse ==
    IF asked = "none" THEN Empty
    ELSE \/ curr_state.state = asked /\ state_stack = <<>>
         \/ Drawing /\ state_stack[1].state = asked

\* What will be true when the outermost call has returned is true below it.
BottomOK ==
    IF calls = <<>> THEN InUse
    ELSE /\ calls[1].op = "handle" => InUse
         /\ calls[1].op = "egress" => asked = "none"
         /\ calls[1].op = "leave" =>
                IF calls[1].ctx.state = "stroke" THEN InUse ELSE asked = "none"

\* Without its default state the machine is at its end.
EndOK ==
    /\ default_state = None => calls = <<>> /\ Empty /\ ~listed
    /\ default_state # None /\ ~listed => calls # <<>> /\ calls[1].op = "close"

\* The toolbox shows the machine, but for a stroke and until a context tells it.
ShownOK ==
    /\ default_state # None
    /\ curr_state.state # "stroke"
    /\ calls # <<>> => Last(calls).op # "leave" \/ Last(calls).sent
    => active = Shown

Contexts == (Held \cup BeingLeft) \ {None}

Distinct == \A c, d \in Contexts : c.id = d.id => c = d

Discipline == TypeOK /\ Nested /\ FramesOK /\ BottomOK /\ EndOK

IInv == Discipline /\ ShownOK /\ ContextsPaired /\ Distinct

-----------------------------------------------------------------------------
(***************************************************************************)
(* The stack of calls.                                                     *)
(***************************************************************************)

\* The innermost call is one, and the calls below it are calls.
LEMMA Innermost ==
    ASSUME NEW S, NEW s \in Seq(S), s # <<>>
    PROVE  /\ Len(s) \in Nat \ {0}
           /\ Last(s) = s[Len(s)]
           /\ Last(s) \in S
           /\ Front(s) \in Seq(S)
           /\ Len(Front(s)) = Len(s) - 1
           /\ \A i \in 1..(Len(s) - 1) : Front(s)[i] = s[i]
<1>1. Len(s) \in Nat \ {0}
    BY EmptySeq
<1>2. Last(s) = s[Len(s)] /\ s[Len(s)] \in S
    BY <1>1, ElementOfSeq DEF Last
<1>3. \A i \in 1..(Len(s) - 1) : s[i] \in S
    BY <1>1, ElementOfSeq
<1> DEFINE m == Len(s) - 1
<1>4. m \in Int /\ \A i \in 1..m : s[i] \in S
    BY <1>1, <1>3
<1>5. /\ SubSeq(s, 1, m) \in Seq(S)
      /\ Len(SubSeq(s, 1, m)) = IF 1 <= m THEN m - 1 + 1 ELSE 0
      /\ \A i \in 1..(m - 1 + 1) : SubSeq(s, 1, m)[i] = s[1 + i - 1]
    <2> HIDE DEF m
    <2>1. QED
        BY <1>4, SubSeqProperties
<1>6. Front(s) = SubSeq(s, 1, m)
    BY DEF Front
<1> HIDE DEF m
<1>7. m = Len(s) - 1
    BY DEF m
<1>8. /\ Front(s) \in Seq(S)
      /\ Len(Front(s)) = m
      /\ \A i \in 1..m : Front(s)[i] = s[i]
    <2>1. /\ Front(s) \in Seq(S)
          /\ Len(Front(s)) = IF 1 <= m THEN m - 1 + 1 ELSE 0
          /\ \A i \in 1..(m - 1 + 1) : Front(s)[i] = s[1 + i - 1]
        BY <1>5, <1>6
    <2>2. \A i \in 1..m : i \in 1..(m - 1 + 1) /\ 1 + i - 1 = i
        BY <1>4
    <2>3. \A i \in 1..m : Front(s)[i] = s[i]
        BY <2>1, <2>2
    <2>4. QED
        BY <1>1, <1>4, <1>7, <2>1, <2>3
<1>9. QED
    BY <1>1, <1>2, <1>7, <1>8

\* A call that calls another stays where it is.
LEMMA CallFacts ==
    ASSUME calls \in Seq(Frame), NEW f \in Frame, Call(f)
    PROVE  /\ calls' \in Seq(Frame)
           /\ calls' # <<>>
           /\ Len(calls') = Len(calls) + 1
           /\ Len(calls) \in Nat
           /\ \A i \in 1..Len(calls) : calls'[i] = calls[i]
           /\ calls'[Len(calls) + 1] = f
           /\ Last(calls') = f
<1>1. calls' = Append(calls, f)
    BY DEF Call
<1>2. QED
    BY <1>1, AppendProperties, EmptySeq, LenProperties DEF Last

\* A call that returns goes back to the one that made it.
LEMMA ReturnFacts ==
    ASSUME calls \in Seq(Frame), calls # <<>>, Return
    PROVE  /\ calls' \in Seq(Frame)
           /\ Len(calls) \in Nat \ {0}
           /\ Len(calls') = Len(calls) - 1
           /\ \A i \in 1..(Len(calls) - 1) : calls'[i] = calls[i]
           /\ calls' = <<>> <=> Len(calls) = 1
           /\ calls' # <<>> => Last(calls') = calls[Len(calls) - 1]
<1>1. calls' = Front(calls)
    BY DEF Return
<1>2. /\ calls' \in Seq(Frame) /\ Len(calls) \in Nat \ {0}
      /\ Len(calls') = Len(calls) - 1
      /\ \A i \in 1..(Len(calls) - 1) : calls'[i] = calls[i]
    BY <1>1, Innermost
<1>3. QED
    BY <1>2, EmptySeq DEF Last

\* A call that goes on with another in its place,
LEMMA GoOnFacts ==
    ASSUME calls \in Seq(Frame), calls # <<>>, NEW f \in Frame, GoOn(<<f>>)
    PROVE  /\ calls' \in Seq(Frame)
           /\ calls' # <<>>
           /\ Len(calls) \in Nat \ {0}
           /\ Len(calls') = Len(calls)
           /\ \A i \in 1..(Len(calls) - 1) : calls'[i] = calls[i]
           /\ calls'[Len(calls)] = f
           /\ Last(calls') = f
<1>1. calls' = Front(calls) \o <<f>>
    BY DEF GoOn
<1>2. <<f>> \in Seq(Frame) /\ Len(<<f>>) = 1 /\ <<f>>[1] = f
    OBVIOUS
<1>3. /\ Front(calls) \in Seq(Frame) /\ Len(calls) \in Nat \ {0}
      /\ Len(Front(calls)) = Len(calls) - 1
      /\ \A i \in 1..(Len(calls) - 1) : Front(calls)[i] = calls[i]
    BY Innermost
<1> HIDE DEF GoOn
<1>4. /\ calls' \in Seq(Frame) /\ Len(calls') = Len(calls)
      /\ \A i \in 1..(Len(calls) - 1) : calls'[i] = calls[i]
      /\ calls'[Len(calls)] = f
    <2> DEFINE front == Front(calls)
    <2> HIDE DEF front
    <2>1. front \in Seq(Frame) /\ Len(front) = Len(calls) - 1 /\ calls' = front \o <<f>>
        BY <1>1, <1>3 DEF front
    <2>2. /\ front \o <<f>> \in Seq(Frame)
          /\ Len(front \o <<f>>) = Len(front) + 1
          /\ \A i \in 1..(Len(front) + 1) :
                (front \o <<f>>)[i] = IF i <= Len(front) THEN front[i] ELSE <<f>>[i - Len(front)]
        BY <1>2, <2>1, ConcatProperties
    <2>3. \A i \in 1..(Len(calls) - 1) : front[i] = calls[i]
        BY <1>3 DEF front
    <2>4. \A i \in 1..(Len(calls) - 1) : calls'[i] = calls[i]
        BY <1>3, <2>1, <2>2, <2>3
    <2>5. calls'[Len(calls)] = f
        BY <1>2, <1>3, <2>1, <2>2
    <2>6. QED
        BY <1>3, <2>1, <2>2, <2>4, <2>5
<1>5. QED
    BY <1>3, <1>4, EmptySeq DEF Last

\* or with one that it lets another call precede.
LEMMA GoOnTwiceFacts ==
    ASSUME calls \in Seq(Frame), calls # <<>>, NEW f \in Frame, NEW g \in Frame, GoOn(<<f, g>>)
    PROVE  /\ calls' \in Seq(Frame)
           /\ calls' # <<>>
           /\ Len(calls) \in Nat \ {0}
           /\ Len(calls') = Len(calls) + 1
           /\ \A i \in 1..(Len(calls) - 1) : calls'[i] = calls[i]
           /\ calls'[Len(calls)] = f
           /\ calls'[Len(calls) + 1] = g
           /\ Last(calls') = g
<1>1. calls' = Front(calls) \o <<f, g>>
    BY DEF GoOn
<1>2. <<f, g>> \in Seq(Frame) /\ Len(<<f, g>>) = 2 /\ <<f, g>>[1] = f /\ <<f, g>>[2] = g
    OBVIOUS
<1>3. /\ Front(calls) \in Seq(Frame) /\ Len(calls) \in Nat \ {0}
      /\ Len(Front(calls)) = Len(calls) - 1
      /\ \A i \in 1..(Len(calls) - 1) : Front(calls)[i] = calls[i]
    BY Innermost
<1>4. /\ calls' \in Seq(Frame) /\ Len(calls') = Len(calls) + 1
      /\ \A i \in 1..(Len(calls) - 1) : calls'[i] = calls[i]
      /\ calls'[Len(calls)] = f
      /\ calls'[Len(calls) + 1] = g
    <2> DEFINE front == Front(calls)
    <2> DEFINE pair == <<f, g>>
    <2>1. /\ front \in Seq(Frame) /\ Len(front) = Len(calls) - 1 /\ calls' = front \o pair
          /\ pair \in Seq(Frame) /\ Len(pair) = 2 /\ pair[1] = f /\ pair[2] = g
        BY <1>1, <1>2, <1>3
    <2>2. \A i \in 1..(Len(calls) - 1) : front[i] = calls[i]
        BY <1>3
    <2> HIDE DEF front, pair
    <2>3. /\ front \o pair \in Seq(Frame)
          /\ Len(front \o pair) = Len(front) + 2
          /\ \A i \in 1..(Len(front) + 2) :
                (front \o pair)[i] = IF i <= Len(front) THEN front[i] ELSE pair[i - Len(front)]
        <3>1. front \in Seq(Frame) /\ pair \in Seq(Frame)
            BY <2>1
        <3>2. /\ front \o pair \in Seq(Frame)
              /\ Len(front \o pair) = Len(front) + Len(pair)
              /\ \A i \in 1..(Len(front) + Len(pair)) :
                    (front \o pair)[i] = IF i <= Len(front) THEN front[i] ELSE pair[i - Len(front)]
            BY ONLY <3>1, ConcatProperties
        <3>3. QED
            BY <2>1, <3>2
    <2>4. \A i \in 1..(Len(calls) - 1) : calls'[i] = calls[i]
        BY <1>3, <2>1, <2>2, <2>3
    <2>5. calls'[Len(calls)] = f /\ calls'[Len(calls) + 1] = g
        BY <1>3, <2>1, <2>3
    <2>6. QED
        BY <1>3, <2>1, <2>3, <2>4, <2>5
<1>5. QED
    BY <1>3, <1>4, EmptySeq DEF Last

\* The innermost call is one that may be there.
LEMMA TopFacts ==
    ASSUME Discipline, calls # <<>>
    PROVE  /\ calls \in Seq(Frame)
           /\ Len(calls) \in Nat \ {0}
           /\ Len(calls) \in 1..Len(calls)
           /\ Last(calls) = calls[Len(calls)]
           /\ Last(calls) \in Frame
           /\ \A i \in 1..Len(calls) : calls[i] \in Frame
<1>1. calls \in Seq(Frame)
    BY DEF Discipline, TypeOK
<1>2. Len(calls) \in Nat \ {0} /\ Last(calls) = calls[Len(calls)] /\ Last(calls) \in Frame
    BY <1>1, Innermost
<1>3. QED
    BY <1>1, <1>2, ElementOfSeq

\* A handler that runs was called by the main loop or by the destructor of a stroke.
LEMMA HandlerFacts ==
    ASSUME Discipline, Running("handle")
    PROVE  /\ default_state # None
           /\ Last(calls).ctx \in Context(Tools \cup {"normal", "stroke"})
           /\ Last(calls).event \in Events \cup {"stroke"}
           /\ Last(calls).ctx \in {curr_state, default_state} \ {None}
           /\ Last(calls).event \in Events => Len(calls) = 1
           /\ Len(calls) = 1 => Last(calls).event \in Events /\ InUse
           /\ Len(calls) # 1 => /\ Last(calls).event = "stroke"
                                /\ Len(calls) \in Nat /\ Len(calls) > 1
                                /\ calls[Len(calls) - 1].op = "leave"
<1>1. calls # <<>> /\ Last(calls).op = "handle"
    BY DEF Running
<1>2. HandleOK(Len(calls))
    BY <1>1, TopFacts DEF Discipline, FramesOK
<1>3. calls[1].op = "handle" => InUse
    BY <1>1 DEF Discipline, BottomOK
<1> DEFINE n == Len(calls)
<1>4. n \in Nat \ {0} /\ Last(calls) = calls[n] /\ calls[n] \in Frame
    BY <1>1, TopFacts
<1>5. /\ default_state # None
      /\ calls[n].ctx \in {curr_state, default_state} \ {None}
      /\ IF n = 1 THEN calls[n].event \in Events
         ELSE calls[n].event = "stroke" /\ calls[n - 1].op = "leave"
    BY <1>1, <1>2, <1>4 DEF HandleOK
<1>6. /\ calls[n].ctx \in Context(Tools \cup {"normal", "stroke"})
      /\ calls[n].event \in Events \cup {"stroke"}
    <2> HIDE DEF n
    <2>1. calls[n].op = "handle"
        BY <1>1, <1>4
    <2>2. QED
        BY <1>4, <2>1 DEF Frame
<1>7. "stroke" \notin Events
    BY DEF Events
<1>8. n = 1 => InUse
    BY <1>1, <1>3, <1>4
<1>9. n = 1 => Last(calls).event \in Events /\ InUse
    BY <1>4, <1>5, <1>8
<1>10. n # 1 => /\ Last(calls).event = "stroke"
                /\ n \in Nat /\ n > 1
                /\ calls[n - 1].op = "leave"
    <2>1. n # 1 => n \in Nat /\ n > 1
        BY <1>4
    <2>2. n # 1 => calls[n].event = "stroke" /\ calls[n - 1].op = "leave"
        BY <1>5
    <2>3. QED
        BY <1>4, <2>1, <2>2
<1>11. Last(calls).event \in Events => n = 1
    BY <1>7, <1>10, Zenon
<1>12. /\ Last(calls).ctx \in Context(Tools \cup {"normal", "stroke"})
       /\ Last(calls).event \in Events \cup {"stroke"}
       /\ Last(calls).ctx \in {curr_state, default_state} \ {None}
    BY <1>4, <1>5, <1>6
<1>13. QED
    BY <1>5, <1>9, <1>10, <1>11, <1>12

-----------------------------------------------------------------------------
(***************************************************************************)
(* The discipline of the calls: one lemma for each step.                   *)
(***************************************************************************)

\* The machine begins with its default state alone.
LEMMA DisciplineInit == Init => Discipline
<1> SUFFICES ASSUME Init PROVE Discipline
    OBVIOUS
<1>1. calls = <<>> /\ Len(calls) = 0 /\ calls \in Seq(Frame)
    BY DEF Init
<1>2. default_state \in Context({"normal"}) /\ default_state # None
    BY DEF Init, Context, None
<1>3. TypeOK
    BY <1>1, <1>2 DEF Init, TypeOK, Empty
<1>4. QED
    BY <1>1, <1>2, <1>3 DEF Init, Discipline, Nested, FramesOK, BottomOK, EndOK, InUse, Empty

\* A button of the toolbox begins with the states that are current.
LEMMA DisciplineToolClick ==
    ASSUME Discipline, NEW s \in Tools \cup {"normal"}, ToolClick(s)
    PROVE  Discipline'
<1>1. /\ calls = <<>> /\ Len(calls) = 0 /\ listed /\ asked' = s
      /\ UNCHANGED <<curr_state, state_stack, default_state, made, live, stroke_data, listed, active>>
    BY DEF ToolClick, Idle, machine, contexts
<1>2. Entering(s) \in Frame /\ Egressing \in Frame
    BY DEF Frame, Entering, Egressing
<1>3. default_state # None
    BY <1>1 DEF Discipline, EndOK
<1>4. CASE curr_state = None
    <2>1. calls' = <<Entering(s)>>
        BY <1>4 DEF ToolClick, EnterCalls
    <2>2. /\ calls' \in Seq(Frame) /\ calls' # <<>> /\ Len(calls') = 1
          /\ calls'[1] = Entering(s)
        BY <1>2, <2>1
    <2>3. Empty
        BY <1>4, MachineAssumption DEF Discipline, TypeOK, Single, Drawing, Context, None
    <2>4. TypeOK'
        BY <1>1, <2>2 DEF Discipline, TypeOK, Empty, Single, Drawing
    <2>5. Nested' /\ BottomOK' /\ EndOK'
        BY <1>1, <1>3, <2>2 DEF Nested, BottomOK, EndOK, Entering
    <2>6. FramesOK'
        BY <1>1, <1>3, <2>2, <2>3 DEF FramesOK, HandleOK, LeaveOK, EnterOK, CloseOK, Entering, Empty
    <2>7. QED
        BY <2>4, <2>5, <2>6 DEF Discipline
<1>5. CASE curr_state # None
    <2>1. calls' = <<Entering(s), Egressing>>
        BY <1>5 DEF ToolClick, EnterCalls
    <2>2. /\ calls' \in Seq(Frame) /\ calls' # <<>> /\ Len(calls') = 2
          /\ calls'[1] = Entering(s) /\ calls'[2] = Egressing
        BY <1>2, <2>1
    <2>3. TypeOK'
        BY <1>1, <2>2 DEF Discipline, TypeOK, Empty, Single, Drawing
    <2>4. Nested' /\ BottomOK' /\ EndOK'
        BY <1>1, <1>3, <2>2 DEF Nested, BottomOK, EndOK, Entering, Egressing, Rank
    <2>5. FramesOK'
        BY <1>1, <1>3, <2>2 DEF FramesOK, HandleOK, LeaveOK, EnterOK, CloseOK, Entering, Egressing
    <2>6. QED
        BY <2>3, <2>4, <2>5 DEF Discipline
<1>6. QED
    BY <1>4, <1>5

\* An event goes to the state that is current, or to the default state.
LEMMA DisciplineEvent ==
    ASSUME Discipline, NEW e \in Events, Event(e)
    PROVE  Discipline'
<1>1. /\ calls = <<>> /\ Len(calls) = 0 /\ listed /\ Call(Handling(Receiver, e))
      /\ UNCHANGED <<curr_state, state_stack, default_state, made, live, stroke_data, listed, active, asked>>
    BY DEF Event, Idle, machine, contexts, gui
<1>2. default_state # None
    BY <1>1 DEF Discipline, EndOK
<1>3. Receiver \in {curr_state, default_state} \ {None}
    BY <1>2 DEF Receiver
<1>4. Receiver \in Context(Tools \cup {"normal", "stroke"})
    BY <1>2 DEF Receiver, Discipline, TypeOK, Empty, Single, Drawing, Context
<1>5. Handling(Receiver, e) \in Frame
    BY <1>4 DEF Frame, Handling
<1>6. /\ calls' \in Seq(Frame) /\ Len(calls') = 1 /\ calls' # <<>>
      /\ calls'[1] = Handling(Receiver, e)
    BY <1>1, <1>5, CallFacts DEF Discipline, TypeOK
<1>7. TypeOK'
    BY <1>1, <1>6 DEF Discipline, TypeOK, Empty, Single, Drawing
<1>8. InUse'
    BY <1>1 DEF Discipline, BottomOK, InUse, Empty, Drawing
<1>9. Nested' /\ BottomOK' /\ EndOK'
    BY <1>1, <1>2, <1>6, <1>8 DEF Nested, BottomOK, EndOK, Handling
<1>10. FramesOK'
    BY <1>1, <1>2, <1>3, <1>6 DEF FramesOK, HandleOK, LeaveOK, EnterOK, CloseOK, Handling
<1>11. QED
    BY <1>7, <1>9, <1>10 DEF Discipline

\* The toolbox is not part of it.
LEMMA DisciplineUpdateTools ==
    ASSUME Discipline, UpdateTools
    PROVE  Discipline'
<1>1. /\ calls = <<>> /\ listed /\ active' = Shown
      /\ UNCHANGED <<curr_state, state_stack, default_state, made, live, stroke_data, calls, listed, asked>>
    BY DEF UpdateTools, Idle, machine, contexts
<1>2. default_state # None
    BY <1>1 DEF Discipline, EndOK
<1>3. Shown \in Tools \cup {"normal", "none"}
    BY <1>2 DEF Shown, Discipline, TypeOK, Empty, Single, Drawing, Context
<1>4. TypeOK'
    BY <1>1, <1>3 DEF Discipline, TypeOK, Empty, Single, Drawing
<1>5. QED
    BY <1>1, <1>2, <1>4 DEF Discipline, Nested, FramesOK, BottomOK, EndOK, InUse, Empty, Drawing

\* A view that is hidden leaves its states.
LEMMA DisciplineHide ==
    ASSUME Discipline, Hide
    PROVE  Discipline'
<1>1. /\ calls = <<>> /\ Len(calls) = 0 /\ listed /\ asked' = "none" /\ Call(Egressing)
      /\ UNCHANGED <<curr_state, state_stack, default_state, made, live, stroke_data, listed, active>>
    BY DEF Hide, Idle, machine, contexts
<1>2. default_state # None
    BY <1>1 DEF Discipline, EndOK
<1>3. /\ calls' \in Seq(Frame) /\ Len(calls') = 1 /\ calls' # <<>> /\ calls'[1] = Egressing
    <2>1. Egressing \in Frame
        BY DEF Frame, Egressing
    <2>2. QED
        BY <1>1, <2>1, CallFacts DEF Discipline, TypeOK
<1>4. TypeOK'
    BY <1>1, <1>3 DEF Discipline, TypeOK, Empty, Single, Drawing
<1>5. Nested' /\ BottomOK' /\ EndOK'
    BY <1>1, <1>2, <1>3 DEF Nested, BottomOK, EndOK, Egressing
<1>6. FramesOK'
    BY <1>1, <1>2, <1>3 DEF FramesOK, HandleOK, LeaveOK, EnterOK, CloseOK, Egressing
<1>7. QED
    BY <1>4, <1>5, <1>6 DEF Discipline

\* So does one whose document is closed, before it is let go.
LEMMA DisciplineClose ==
    ASSUME Discipline, Close
    PROVE  Discipline'
<1>1. /\ calls = <<>> /\ Len(calls) = 0 /\ listed /\ asked' = "none"
      /\ calls' = <<Closing("list"), Egressing>>
      /\ UNCHANGED <<curr_state, state_stack, default_state, made, live, stroke_data, listed, active>>
    BY DEF Close, Idle, machine, contexts
<1>2. default_state # None
    BY <1>1 DEF Discipline, EndOK
<1>3. /\ calls' \in Seq(Frame) /\ Len(calls') = 2
      /\ calls'[1] = Closing("list") /\ calls'[2] = Egressing
    <2>1. Closing("list") \in Frame /\ Egressing \in Frame
        BY DEF Frame, Closing, Egressing
    <2>2. QED
        BY <1>1, <2>1
<1>4. TypeOK'
    BY <1>1, <1>3 DEF Discipline, TypeOK, Empty, Single, Drawing
<1>5. Nested' /\ BottomOK' /\ EndOK'
    BY <1>1, <1>2, <1>3 DEF Nested, BottomOK, EndOK, Closing, Egressing, Rank
<1>6. FramesOK'
    BY <1>1, <1>2, <1>3 DEF FramesOK, HandleOK, LeaveOK, EnterOK, CloseOK, Closing, Egressing
<1>7. QED
    BY <1>4, <1>5, <1>6 DEF Discipline

\* What a call finds below it when it returns, the state of the machine unchanged.
LEMMA DisciplineReturn ==
    ASSUME Discipline, calls # <<>>, Return, TypeOK',
           UNCHANGED <<curr_state, state_stack, default_state, listed, asked>>,
           Last(calls).op # "close",
           Len(calls) = 1 => InUse,
           Len(calls) > 1 /\ calls[Len(calls) - 1].op \in {"enter", "close"} => Empty,
           Len(calls) > 1 /\ calls[1].op = "close" /\ calls[1].at = "forget" => Len(calls) = 2
    PROVE  Discipline'
<1> DEFINE n == Len(calls)
<1>1. /\ n \in Nat \ {0}
      /\ Len(calls') = n - 1
      /\ \A i \in 1..(n - 1) : calls'[i] = calls[i]
      /\ calls' = <<>> <=> n = 1
      /\ Last(calls) = calls[n]
    BY ReturnFacts, TopFacts DEF Discipline, TypeOK
<1>2. UNCHANGED Empty /\ UNCHANGED Single /\ UNCHANGED InUse
    BY DEF Empty, Single, InUse, Drawing
<1> HIDE DEF n
<1>3. Nested'
    <2> SUFFICES ASSUME NEW i \in 1..(n - 1), NEW j \in 1..(n - 1), i < j
                 PROVE  Rank(calls'[i].op) < Rank(calls'[j].op)
        BY <1>1 DEF Nested
    <2>1. i \in 1..n /\ j \in 1..n /\ calls'[i] = calls[i] /\ calls'[j] = calls[j]
        BY <1>1
    <2>2. QED
        BY <2>1 DEF Discipline, Nested, n
<1>4. FramesOK'
    <2> SUFFICES ASSUME NEW i \in 1..(n - 1)
                 PROVE  (HandleOK(i) /\ LeaveOK(i) /\ EnterOK(i) /\ CloseOK(i))'
        BY <1>1 DEF FramesOK
    <2>1. /\ i \in 1..n /\ calls'[i] = calls[i] /\ i < n
          /\ i # 1 => i - 1 \in 1..(n - 1)
          /\ HandleOK(i) /\ LeaveOK(i) /\ EnterOK(i) /\ CloseOK(i)
        BY <1>1 DEF Discipline, FramesOK, n
    <2>2. i # 1 => calls'[i - 1] = calls[i - 1]
        BY <1>1, <2>1
    <2>3. 1 \in 1..(n - 1) /\ calls'[1] = calls[1]
        BY <1>1, <2>1
    <2>4. HandleOK(i)'
        BY <1>2, <2>1, <2>2 DEF HandleOK
    <2>5. LeaveOK(i)'
        BY <1>1, <1>2, <2>1, <2>2, <2>3 DEF LeaveOK, n
    <2>6. EnterOK(i)'
        BY <1>1, <1>2, <2>1 DEF EnterOK, n
    <2>7. CloseOK(i)'
        <3> SUFFICES ASSUME calls[i].op = "close"
                     PROVE  CloseOK(i)'
            BY <2>1 DEF CloseOK
        <3>1. i = 1
            <4> SUFFICES ASSUME i # 1 PROVE FALSE
                OBVIOUS
            <4>1. Rank(calls[1].op) < Rank(calls[i].op)
                BY <1>1, <2>1 DEF Discipline, Nested, n
            <4>2. Rank(calls[1].op) \in 1..4 /\ Rank(calls[i].op) = 1
                BY DEF Rank
            <4>3. QED
                BY <4>1, <4>2
        <3>2. calls[1].at = "forget" => n = 2
            BY <1>1, <2>1, <3>1 DEF n
        <3>3. QED
            BY <1>1, <1>2, <2>1, <3>1, <3>2 DEF CloseOK, n
    <2>8. QED
        BY <2>4, <2>5, <2>6, <2>7
<1>5. BottomOK'
    <2>1. CASE n = 1
        BY <1>1, <1>2, <2>1 DEF BottomOK, n
    <2>2. CASE n # 1
        <3>1. 1 \in 1..(n - 1) /\ calls' # <<>>
            BY <1>1, <2>2
        <3>2. calls'[1] = calls[1]
            BY <1>1, <3>1
        <3>3. QED
            BY <1>2, <3>1, <3>2 DEF Discipline, BottomOK
    <2>3. QED
        BY <2>1, <2>2
<1>6. EndOK'
    <2>1. default_state # None
        BY DEF Discipline, EndOK
    <2>2. CASE n = 1
        BY <1>1, <2>1, <2>2 DEF Discipline, EndOK
    <2>3. CASE n # 1
        <3>1. 1 \in 1..(n - 1) /\ calls' # <<>>
            BY <1>1, <2>3
        <3>2. calls'[1] = calls[1]
            BY <1>1, <3>1
        <3>3. QED
            BY <2>1, <3>1, <3>2 DEF Discipline, EndOK
    <2>4. QED
        BY <2>2, <2>3
<1>7. QED
    BY <1>3, <1>4, <1>5, <1>6 DEF Discipline

\* Below a handler there is nothing, or the destructor that waits for it.
LEMMA HandlerReturns ==
    ASSUME Discipline, Running("handle"), Return, TypeOK',
           UNCHANGED <<curr_state, state_stack, default_state, listed, asked>>
    PROVE  Discipline'
<1>1. calls # <<>> /\ Last(calls).op = "handle"
    BY DEF Running
<1>2. Len(calls) = 1 => InUse
    BY HandlerFacts
<1>3. Len(calls) # 1 => calls[Len(calls) - 1].op = "leave"
    BY HandlerFacts
<1>4. calls[1].op = "close" /\ calls[1].at = "forget" /\ Len(calls) > 1 => FALSE
    <2> SUFFICES ASSUME calls[1].op = "close", calls[1].at = "forget", Len(calls) > 1
                 PROVE  FALSE
        OBVIOUS
    <2>1. CloseOK(1) /\ Len(calls) \in Nat
        BY TopFacts, <1>1 DEF Discipline, FramesOK
    <2>2. Len(calls) = 2 /\ calls[2].op = "leave"
        BY <2>1 DEF CloseOK
    <2>3. QED
        BY <1>1, <2>2, TopFacts
<1>5. QED
    BY <1>1, <1>2, <1>3, <1>4, TopFacts, DisciplineReturn

\* A handler that accepts an event changes nothing,
LEMMA DisciplineAccept ==
    ASSUME Discipline, Accept
    PROVE  Discipline'
<1>1. /\ Running("handle") /\ Return
      /\ UNCHANGED <<curr_state, state_stack, default_state, made, live, stroke_data, listed, asked, active>>
    BY DEF Accept, Handles, OnlyCalls, machine, contexts, gui
<1>2. calls' \in Seq(Frame)
    BY <1>1, ReturnFacts DEF Discipline, TypeOK, Running
<1>3. TypeOK'
    BY <1>1, <1>2 DEF Discipline, TypeOK, Empty, Single, Drawing
<1>4. QED
    BY <1>1, <1>3, HandlerReturns

\* and neither does one that leaves it to the default state.
LEMMA DisciplineHandledOK ==
    ASSUME Discipline, HandledOK
    PROVE  Discipline'
<1> DEFINE n == Len(calls)
<1>1. /\ Running("handle") /\ calls # <<>> /\ Last(calls).op = "handle"
      /\ UNCHANGED <<curr_state, state_stack, default_state, made, live, stroke_data, listed, asked, active>>
    BY DEF HandledOK, Handles, Running, OnlyCalls, machine, contexts, gui
<1>2. CASE Last(calls).ctx = default_state
    <2>1. Return
        BY <1>2 DEF HandledOK
    <2>2. calls' \in Seq(Frame)
        BY <1>1, <2>1, ReturnFacts DEF Discipline, TypeOK
    <2>3. TypeOK'
        BY <1>1, <2>2 DEF Discipline, TypeOK, Empty, Single, Drawing
    <2>4. QED
        BY <1>1, <2>1, <2>3, HandlerReturns
<1>3. CASE Last(calls).ctx # default_state
    <2> DEFINE new == Handling(default_state, Last(calls).event)
    <2>1. GoOn(<<new>>)
        BY <1>3 DEF HandledOK
    <2>2. /\ default_state # None /\ default_state \in Context({"normal"})
          /\ Last(calls).event \in Events \cup {"stroke"}
          /\ n = 1 => Last(calls).event \in Events /\ InUse
          /\ n # 1 => Last(calls).event = "stroke" /\ n > 1 /\ calls[n - 1].op = "leave"
        BY <1>1, HandlerFacts DEF Discipline, TypeOK
    <2>3. new \in Frame
        BY <2>2 DEF Frame, Handling, Context
    <2>4. /\ calls' \in Seq(Frame) /\ calls' # <<>> /\ n \in Nat \ {0} /\ Len(calls') = n
          /\ \A i \in 1..(n - 1) : calls'[i] = calls[i]
          /\ calls'[n] = new
        <3> HIDE DEF new
        <3>1. QED
            BY <1>1, <2>1, <2>3, GoOnFacts DEF Discipline, TypeOK
    <2>5. TypeOK'
        BY <1>1, <2>4 DEF Discipline, TypeOK, Empty, Single, Drawing
    <2>6. calls[n].op = "handle" /\ calls'[n].op = "handle"
        BY <1>1, <2>4, TopFacts DEF Handling
    <2>7. UNCHANGED Empty /\ UNCHANGED Single /\ UNCHANGED InUse
        BY <1>1 DEF Empty, Single, InUse, Drawing
    <2>8. \A i \in 1..n : calls'[i].op = calls[i].op
        BY <2>4, <2>6
    <2>9. Nested'
        BY <2>4, <2>8 DEF Discipline, Nested
    <2>10. HandleOK(n)' /\ LeaveOK(n)' /\ EnterOK(n)' /\ CloseOK(n)'
        BY <1>1, <2>2, <2>4, <2>6 DEF HandleOK, LeaveOK, EnterOK, CloseOK, Handling
    <2>11. ASSUME NEW i \in 1..(n - 1)
           PROVE  (HandleOK(i) /\ LeaveOK(i) /\ EnterOK(i) /\ CloseOK(i))'
        <3>1. /\ i \in 1..n /\ calls'[i] = calls[i] /\ i # n
              /\ i # 1 => i - 1 \in 1..(n - 1)
              /\ HandleOK(i) /\ LeaveOK(i) /\ EnterOK(i) /\ CloseOK(i)
            BY <2>4 DEF Discipline, FramesOK
        <3>2. i # 1 => calls'[i - 1] = calls[i - 1]
            BY <2>4, <3>1
        <3>3. 1 \in 1..(n - 1) /\ calls'[1] = calls[1]
            BY <2>4
        <3>4. HandleOK(i)' /\ EnterOK(i)'
            BY <1>1, <2>4, <2>7, <3>1, <3>2 DEF HandleOK, EnterOK
        <3>5. LeaveOK(i)'
            BY <1>1, <2>4, <2>7, <3>1, <3>2, <3>3 DEF LeaveOK
        <3>6. CloseOK(i)'
            <4>1. calls[i].op = "close" => calls[i].at # "forget"
                BY <2>4, <2>6, <3>1 DEF CloseOK
            <4>2. QED
                BY <1>1, <2>4, <2>7, <3>1, <4>1 DEF CloseOK
        <3>7. QED
            BY <3>4, <3>5, <3>6
    <2>12. FramesOK'
        BY <2>4, <2>10, <2>11 DEF FramesOK
    <2>13. BottomOK' /\ EndOK'
        <3>1. n = 1 => calls'[1] = new
            BY <2>4
        <3>2. n # 1 => 1 \in 1..(n - 1) /\ calls'[1] = calls[1]
            BY <2>4
        <3>3. calls'[1].op = calls[1].op
            BY <2>4, <2>8
        <3>4. BottomOK'
            <4>1. CASE n = 1
                <5>1. calls'[1].op = "handle"
                    BY <3>1, <4>1 DEF Handling
                <5>2. InUse'
                    BY <2>2, <2>7, <4>1
                <5>3. QED
                    BY <2>4, <5>1, <5>2 DEF BottomOK
            <4>2. CASE n # 1
                BY <1>1, <2>4, <2>7, <3>2, <4>2 DEF Discipline, BottomOK
            <4>3. QED
                BY <4>1, <4>2
        <3>5. EndOK'
            BY <1>1, <2>2, <2>4, <3>3 DEF Discipline, EndOK
        <3>6. QED
            BY <3>4, <3>5
    <2>14. QED
        BY <2>5, <2>9, <2>12, <2>13 DEF Discipline
<1>4. QED
    BY <1>2, <1>3

\* Who handles an event is the state that is current, for it is a tool or a stroke.
LEMMA HandlerIsCurrent ==
    ASSUME Discipline, NEW states \in SUBSET (Tools \cup {"stroke"}), NEW events \in SUBSET Events,
           Handles(states, events)
    PROVE  /\ calls # <<>> /\ Len(calls) = 1 /\ calls[1] = Last(calls)
           /\ calls[1].op = "handle"
           /\ curr_state = Last(calls).ctx
           /\ curr_state.state \in states
           /\ curr_state.state \in Tools => Single
           /\ curr_state.state = "stroke" => Drawing
           /\ default_state # None /\ listed /\ InUse
<1>1. Running("handle") /\ Last(calls).ctx.state \in states /\ Last(calls).event \in events
    BY DEF Handles
<1>2. /\ calls # <<>> /\ Last(calls).op = "handle"
      /\ Len(calls) = 1 /\ InUse /\ default_state # None
      /\ Last(calls).ctx \in {curr_state, default_state} \ {None}
    BY <1>1, HandlerFacts DEF Running
<1>3. Last(calls) = calls[1]
    BY <1>2, TopFacts
<1>4. default_state.state \notin states
    BY <1>2, MachineAssumption DEF Discipline, TypeOK, Context
<1>5. curr_state = Last(calls).ctx /\ curr_state # None /\ curr_state.state \in states
    BY <1>1, <1>2, <1>4
<1>6. /\ curr_state.state \in Tools => Single
      /\ curr_state.state = "stroke" => Drawing
    BY <1>5, MachineAssumption DEF Discipline, TypeOK, Empty, Single, Drawing, Context
<1>7. listed
    BY <1>2, <1>3 DEF Discipline, EndOK
<1>8. QED
    BY <1>2, <1>3, <1>5, <1>6, <1>7

\* With no call under way only the machine matters.
LEMMA DisciplineIdle ==
    ASSUME TypeOK', calls' = <<>>, InUse', default_state' # None => listed',
           default_state' = None => Empty' /\ ~listed'
    PROVE  Discipline'
BY DEF Discipline, Nested, FramesOK, BottomOK, EndOK

\* A tool that begins a stroke stays below it.
LEMMA DisciplinePushStroke ==
    ASSUME Discipline, PushStroke
    PROVE  Discipline'
<1>1. /\ Handles(Tools, {"down"}) /\ Return
      /\ state_stack' = Append(state_stack, curr_state)
      /\ curr_state' = New("stroke", curr_state.id)
      /\ made' = made + 1 /\ live' = live \cup {made + 1} /\ stroke_data' = 0
      /\ UNCHANGED <<default_state, listed, asked, active>>
    BY DEF PushStroke, gui
<1>2. /\ calls # <<>> /\ Len(calls) = 1 /\ Single /\ curr_state.state \in Tools
      /\ default_state # None /\ listed /\ InUse
    BY <1>1, HandlerIsCurrent DEF Events
<1>3. calls' = <<>> /\ calls' \in Seq(Frame)
    BY <1>1, <1>2, ReturnFacts DEF Discipline, TypeOK
<1>4. curr_state \in Context(Tools)
    BY <1>2 DEF Single, Context
<1>5. state_stack' = <<curr_state>>
    BY <1>1, <1>2 DEF Single
<1>6. made \in Nat /\ made' \in Nat \ {0} /\ live \subseteq 1..made
    BY <1>1 DEF Discipline, TypeOK
<1>7. curr_state' \in Context({"stroke"}) /\ curr_state'.by = curr_state.id
    BY <1>1, <1>4, <1>6 DEF New, Context
<1>8. Drawing'
    <2>1. state_stack' # <<>> /\ state_stack'[1] = curr_state
        BY <1>5
    <2>2. QED
        BY <1>4, <1>5, <1>7, <2>1 DEF Drawing
<1>9. TypeOK'
    <2>1. curr_state' # default_state
        BY <1>2, <1>7 DEF Context, Discipline, TypeOK
    <2>2. default_state' \in Context({"normal"}) /\ default_state'.id <= made'
        BY <1>1, <1>2, <1>6 DEF Discipline, TypeOK, Context
    <2>3. live' \subseteq 1..made'
        BY <1>1, <1>6
    <2>4. QED
        BY <1>1, <1>3, <1>6, <1>8, <2>1, <2>2, <2>3 DEF Discipline, TypeOK
<1>10. InUse'
    <2>1. asked = curr_state.state
        BY <1>2, <1>4, MachineAssumption DEF InUse, Empty, Single, Drawing, Context, None
    <2>2. asked # "none"
        BY <1>2, <2>1, MachineAssumption
    <2>3. state_stack'[1].state = asked
        BY <1>5, <2>1
    <2>4. QED
        BY <1>1, <1>8, <2>2, <2>3 DEF InUse
<1>11. QED
    BY <1>1, <1>2, <1>3, <1>9, <1>10, DisciplineIdle

\* A stroke collects points.
LEMMA DisciplineStrokeDrag ==
    ASSUME Discipline, StrokeDrag
    PROVE  Discipline'
<1>1. /\ Running("handle") /\ Return
      /\ stroke_data' \in 0..2
      /\ UNCHANGED <<curr_state, state_stack, default_state, made, live, listed, asked, active>>
    BY DEF StrokeDrag, Handles, machine, contexts, gui, Discipline, TypeOK
<1>2. calls' \in Seq(Frame)
    BY <1>1, ReturnFacts DEF Discipline, TypeOK, Running
<1>3. TypeOK'
    BY <1>1, <1>2 DEF Discipline, TypeOK, Empty, Single, Drawing
<1>4. QED
    BY <1>1, <1>3, HandlerReturns

\* What popping a stroke leaves of the machine: the tool that had pushed it.
LEMMA PoppedFacts ==
    ASSUME Discipline, Drawing, Popped
    PROVE  /\ Single' /\ state_stack' = <<>>
           /\ curr_state' = state_stack[1]
           /\ curr_state' \in Context(Tools)
           /\ curr_state \in Context({"stroke"})
           /\ curr_state.by = curr_state'.id
           /\ default_state' = default_state
           /\ InUse /\ asked' = asked => InUse'
<1>1. /\ state_stack = <<state_stack[1]>> /\ state_stack[1] \in Context(Tools)
      /\ curr_state \in Context({"stroke"}) /\ curr_state.by = state_stack[1].id
    BY DEF Drawing
<1>2. Last(state_stack) = state_stack[1]
    <2>1. Len(state_stack) = 1
        BY <1>1
    <2>2. QED
        BY <2>1 DEF Last
<1>3. Front(state_stack) = <<>>
    <2>1. Len(state_stack) = 1
        BY <1>1
    <2>2. QED
        BY <2>1, SubSeqEmpty DEF Front
<1>4. curr_state' = state_stack[1] /\ state_stack' = <<>> /\ default_state' = default_state
    BY <1>2, <1>3 DEF Popped
<1>5. Single'
    BY <1>1, <1>4 DEF Single, Context
<1>6. InUse /\ asked' = asked => InUse'
    <2> SUFFICES ASSUME InUse, asked' = asked
                 PROVE  InUse'
        OBVIOUS
    <2>1. asked # "none" /\ state_stack[1].state = asked
        <3>1. curr_state # None
            BY <1>1 DEF Context, None
        <3>2. state_stack # <<>>
            BY DEF Drawing
        <3>3. QED
            BY <3>1, <3>2 DEF InUse, Empty
    <2>2. QED
        BY <1>4, <2>1 DEF InUse
<1>7. QED
    BY <1>1, <1>4, <1>5, <1>6

\* A stroke that ends is popped when its handler is gone, and then left.
LEMMA DisciplineThrowPop ==
    ASSUME Discipline, ThrowPop
    PROVE  Discipline'
<1>1. /\ Handles({"stroke"}, {"up", "stop"}) /\ Popped /\ GoOn(<<Leaving(curr_state)>>)
      /\ UNCHANGED <<made, live, stroke_data, listed, asked, active>>
    BY DEF ThrowPop, contexts, gui
<1>2. /\ calls # <<>> /\ Len(calls) = 1 /\ Drawing /\ default_state # None /\ listed /\ InUse
    <2>1. {"stroke"} \in SUBSET (Tools \cup {"stroke"}) /\ {"up", "stop"} \in SUBSET Events
        BY DEF Events
    <2>2. /\ calls # <<>> /\ Len(calls) = 1
          /\ curr_state.state \in {"stroke"}
          /\ curr_state.state = "stroke" => Drawing
          /\ default_state # None /\ listed /\ InUse
        BY <1>1, <2>1, HandlerIsCurrent
    <2>3. QED
        BY <2>2
<1>3. /\ Single' /\ curr_state' \in Context(Tools) /\ curr_state \in Context({"stroke"})
      /\ curr_state.by = curr_state'.id /\ default_state' = default_state /\ InUse'
    BY <1>1, <1>2, PoppedFacts
<1> DEFINE new == Leaving(curr_state)
<1>4. new \in Frame
    BY <1>3 DEF Frame, Leaving, Context
<1>5. /\ calls' \in Seq(Frame) /\ calls' # <<>> /\ Len(calls') = 1
      /\ calls'[1] = Leaving(curr_state)
    <2> HIDE DEF new
    <2>1. GoOn(<<new>>) /\ calls \in Seq(Frame)
        BY <1>1 DEF new, Discipline, TypeOK
    <2>2. /\ calls' \in Seq(Frame) /\ calls' # <<>> /\ Len(calls') = Len(calls)
          /\ calls'[Len(calls)] = new
        BY <1>2, <1>4, <2>1, GoOnFacts
    <2>3. QED
        BY <1>2, <2>2 DEF new
<1>6. curr_state.state = "stroke" /\ curr_state'.state \in Tools /\ curr_state # default_state
    BY <1>2, <1>3 DEF Context, Discipline, TypeOK, None
<1>7. TypeOK'
    <2>1. curr_state' # default_state
        BY <1>2, <1>3, MachineAssumption DEF Context, Discipline, TypeOK
    <2>2. QED
        BY <1>1, <1>3, <1>5, <2>1 DEF Discipline, TypeOK
<1>8. Nested'
    BY <1>5 DEF Nested
<1>9. FramesOK'
    BY <1>2, <1>3, <1>5, <1>6 DEF FramesOK, HandleOK, LeaveOK, EnterOK, CloseOK, Leaving
<1>10. BottomOK' /\ EndOK'
    BY <1>1, <1>2, <1>3, <1>5, <1>6 DEF BottomOK, EndOK, Leaving
<1>11. QED
    BY <1>7, <1>8, <1>9, <1>10 DEF Discipline

\* A tool that is stopped asks for the normal state when its handler is gone.
LEMMA DisciplineThrowState ==
    ASSUME Discipline, ThrowState
    PROVE  Discipline'
<1>1. /\ Handles(Tools, {"stop"}) /\ asked' = "normal" /\ GoOn(EnterCalls("normal"))
      /\ UNCHANGED <<curr_state, state_stack, default_state, made, live, stroke_data, listed, active>>
    BY DEF ThrowState, machine, contexts
<1>2. /\ calls # <<>> /\ Len(calls) = 1 /\ Single /\ default_state # None /\ listed
    BY <1>1, HandlerIsCurrent DEF Events
<1>3. EnterCalls("normal") = <<Entering("normal"), Egressing>>
    BY <1>2 DEF EnterCalls, Single, Context, None
<1>4. Entering("normal") \in Frame /\ Egressing \in Frame
    BY DEF Frame, Entering, Egressing
<1>5. /\ calls' \in Seq(Frame) /\ calls' # <<>> /\ Len(calls') = 2
      /\ calls'[1] = Entering("normal") /\ calls'[2] = Egressing
    BY <1>1, <1>2, <1>3, <1>4, GoOnTwiceFacts DEF Discipline, TypeOK
<1>6. TypeOK'
    BY <1>1, <1>5 DEF Discipline, TypeOK, Empty, Single, Drawing
<1>7. Nested' /\ BottomOK' /\ EndOK'
    BY <1>1, <1>2, <1>5 DEF Nested, BottomOK, EndOK, Entering, Egressing, Rank
<1>8. FramesOK'
    BY <1>1, <1>2, <1>5 DEF FramesOK, HandleOK, LeaveOK, EnterOK, CloseOK, Entering, Egressing
<1>9. QED
    BY <1>6, <1>7, <1>8 DEF Discipline

\* The calls below one come before it in a transition.
LEMMA Below ==
    ASSUME Discipline, calls # <<>>
    PROVE  /\ \A i \in 1..(Len(calls) - 1) :
                  Rank(calls[i].op) < Rank(calls[Len(calls)].op)
           /\ calls[Len(calls)].op \in {"enter", "close"} => Len(calls) = 1
           /\ calls[Len(calls)].op = "egress" =>
                  \/ Len(calls) = 1
                  \/ /\ Len(calls) = 2 /\ calls[1].op \in {"enter", "close"}
                     /\ ~(calls[1].op = "close" /\ calls[1].at = "forget")
           /\ calls[1].op = "close" /\ calls[1].at = "forget" => Len(calls) \in {1, 2}
<1> SUFFICES ASSUME NEW n, n = Len(calls)
    PROVE  /\ \A i \in 1..(n - 1) : Rank(calls[i].op) < Rank(calls[n].op)
           /\ calls[n].op \in {"enter", "close"} => n = 1
           /\ calls[n].op = "egress" =>
                  \/ n = 1
                  \/ /\ n = 2 /\ calls[1].op \in {"enter", "close"}
                     /\ ~(calls[1].op = "close" /\ calls[1].at = "forget")
           /\ calls[1].op = "close" /\ calls[1].at = "forget" => n \in {1, 2}
    OBVIOUS
<1>1. /\ n \in Nat \ {0}
      /\ \A i \in 1..n : calls[i].op \in {"handle", "leave", "egress", "enter", "close"}
    BY TopFacts DEF Frame
<1>2. \A i \in 1..(n - 1) : Rank(calls[i].op) < Rank(calls[n].op)
    BY <1>1 DEF Discipline, Nested
<1>3. \A i \in 1..n : Rank(calls[i].op) \in 1..4
    BY DEF Rank
<1>4. calls[n].op \in {"enter", "close"} => n = 1
    <2> SUFFICES ASSUME calls[n].op \in {"enter", "close"}, n # 1 PROVE FALSE
        OBVIOUS
    <2>1. 1 \in 1..(n - 1) /\ Rank(calls[n].op) = 1 /\ 1 \in 1..n
        BY <1>1 DEF Rank
    <2>2. QED
        BY <1>2, <1>3, <2>1
<1>5. calls[1].op = "close" /\ calls[1].at = "forget" /\ n # 1 =>
          n = 2 /\ calls[2].op = "leave"
    <2>1. 1 \in 1..n /\ (n # 1 => 1 < n)
        BY <1>1
    <2>2. CloseOK(1)
        BY <2>1 DEF Discipline, FramesOK
    <2>3. QED
        BY <2>1, <2>2 DEF CloseOK
<1>6. calls[n].op = "egress" =>
          \/ n = 1
          \/ /\ n = 2 /\ calls[1].op \in {"enter", "close"}
             /\ ~(calls[1].op = "close" /\ calls[1].at = "forget")
    <2> SUFFICES ASSUME calls[n].op = "egress", n # 1
                 PROVE  /\ n = 2 /\ calls[1].op \in {"enter", "close"}
                        /\ ~(calls[1].op = "close" /\ calls[1].at = "forget")
        OBVIOUS
    <2>1. 1 \in 1..(n - 1) /\ 1 \in 1..n
        <3>1. n \in Nat /\ n # 0 /\ n # 1
            BY <1>1
        <3>2. QED
            BY ONLY <3>1
    <2>2. calls[n].op = "egress" /\ Rank("egress") = 2
        BY DEF Rank
    <2>9. Rank(calls[n].op) = 2
        BY <2>2
    <2>3. Rank(calls[1].op) < 2
        BY <1>2, <2>1, <2>9
    <2>4. calls[1].op \in {"enter", "close"}
        BY <2>3 DEF Rank
    <2>5. n = 2
        <3> SUFFICES ASSUME n # 2 PROVE FALSE
            OBVIOUS
        <3>1. 2 \in 1..(n - 1) /\ 2 \in 1..n
            BY <1>1
        <3>2. Rank(calls[1].op) < Rank(calls[2].op) /\ Rank(calls[2].op) < 2
            BY <1>2, <2>1, <2>9, <3>1 DEF Discipline, Nested
        <3>3. Rank(calls[1].op) \in 1..4 /\ Rank(calls[2].op) \in 1..4
            BY <1>3, <2>1, <3>1
        <3>4. QED
            BY <3>2, <3>3
    <2>6. QED
        BY <1>5, <2>4, <2>5
<1>7. QED
    BY <1>2, <1>4, <1>5, <1>6

\* What a call that has something left to do finds at its place.
LEMMA DisciplineTop ==
    ASSUME Discipline, calls # <<>>
    PROVE  /\ HandleOK(Len(calls)) /\ LeaveOK(Len(calls))
           /\ EnterOK(Len(calls)) /\ CloseOK(Len(calls))
BY TopFacts DEF Discipline, FramesOK

\* The destructor of a long stroke calls the handler of the state that is current.
LEMMA DisciplineSendStroke ==
    ASSUME Discipline, SendStroke
    PROVE  Discipline'
<1> SUFFICES ASSUME NEW n, n = Len(calls)
             PROVE  Discipline'
    OBVIOUS
<1> DEFINE sent == LeavingSent(Last(calls).ctx)
<1> DEFINE sending == Handling(Receiver, "stroke")
<1>1. /\ calls # <<>> /\ Last(calls).op = "leave" /\ Last(calls).ctx.state = "stroke"
      /\ active' = Shown /\ GoOn(<<sent, sending>>)
      /\ UNCHANGED <<curr_state, state_stack, default_state, made, live, stroke_data, listed, asked>>
    BY DEF SendStroke, Running, HasStroke, machine, contexts
<1>2. n \in Nat \ {0} /\ Last(calls) = calls[n] /\ calls[n] \in Frame
    BY <1>1, TopFacts
<1>3. LeaveOK(n)
    BY <1>1, DisciplineTop
<1>4. /\ default_state # None /\ Single /\ curr_state.state \in Tools
      /\ calls[n].ctx.by = curr_state.id
      /\ n = 1 \/ calls[n - 1].op = "egress"
    BY <1>1, <1>2, <1>3 DEF LeaveOK
<1>5. calls[n].ctx \in Context(Tools \cup {"normal", "stroke"})
    <2>1. calls[n].op = "leave"
        BY <1>1, <1>2
    <2>2. QED
        BY <1>2, <2>1 DEF Frame
<1>6. Receiver = curr_state /\ curr_state # None
    BY <1>4 DEF Receiver, Single, Context, None
<1>7. sent \in Frame /\ sending \in Frame
    BY <1>2, <1>4, <1>5, <1>6 DEF Frame, LeavingSent, Handling, Single, Context
<1>8. /\ calls' \in Seq(Frame) /\ calls' # <<>> /\ Len(calls') = n + 1
      /\ \A i \in 1..(n - 1) : calls'[i] = calls[i]
      /\ calls'[n] = sent /\ calls'[n + 1] = sending
    <2> HIDE DEF sent, sending
    <2>1. QED
        BY <1>1, <1>7, GoOnTwiceFacts DEF Discipline, TypeOK
<1>9. /\ calls'[n].op = "leave" /\ calls'[n].ctx = calls[n].ctx /\ calls'[n].sent = TRUE
      /\ calls'[n + 1].op = "handle" /\ calls'[n + 1].ctx = curr_state
      /\ calls'[n + 1].event = "stroke"
    BY <1>2, <1>6, <1>8 DEF LeavingSent, Handling
<1>10. UNCHANGED Empty /\ UNCHANGED Single /\ UNCHANGED InUse
    BY <1>1 DEF Empty, Single, InUse, Drawing
<1>11. TypeOK'
    <2>1. Shown \in Tools \cup {"normal", "none"}
        BY <1>4, <1>6 DEF Shown, Single, Context
    <2>2. QED
        BY <1>1, <1>8, <2>1 DEF Discipline, TypeOK, Empty, Single, Drawing
<1>12. \A i \in 1..n : calls'[i].op = calls[i].op /\ calls[i] \in Frame
    BY <1>1, <1>2, <1>8, <1>9, TopFacts
<1>13. Nested'
    <2> SUFFICES ASSUME NEW i \in 1..(n + 1), NEW j \in 1..(n + 1), i < j
                 PROVE  Rank(calls'[i].op) < Rank(calls'[j].op)
        BY <1>8 DEF Nested
    <2>1. CASE j \in 1..n
        BY <1>2, <1>12, <2>1 DEF Discipline, Nested
    <2>2. CASE j = n + 1
        <3>1. i \in 1..n
            BY <1>2, <2>2
        <3>2. Rank(calls[i].op) < 4
            <4>1. CASE i = n
                BY <1>1, <1>2, <4>1 DEF Rank
            <4>2. CASE i # n
                <5>1. i \in 1..(n - 1)
                    BY <1>2, <3>1, <4>2
                <5>2. Rank(calls[i].op) < Rank(calls[n].op)
                    BY <1>1, <5>1, Below
                <5>3. Rank(calls[n].op) = 3 /\ Rank(calls[i].op) \in 1..4
                    BY <1>1, <1>2 DEF Rank
                <5>4. QED
                    BY <5>2, <5>3
            <4>3. QED
                BY <4>1, <4>2
        <3>3. Rank(calls'[j].op) = 4
            BY <1>9, <2>2 DEF Rank
        <3>4. QED
            BY <1>12, <3>1, <3>2, <3>3
    <2>3. QED
        BY <1>2, <2>1, <2>2
<1>14. HandleOK(n + 1)' /\ LeaveOK(n + 1)' /\ EnterOK(n + 1)' /\ CloseOK(n + 1)'
    <2>1. (n + 1) - 1 = n /\ n + 1 # 1
        BY <1>2
    <2>2. QED
        BY <1>1, <1>4, <1>6, <1>9, <2>1 DEF HandleOK, LeaveOK, EnterOK, CloseOK
<1>15. HandleOK(n)' /\ LeaveOK(n)' /\ EnterOK(n)' /\ CloseOK(n)'
    <2>1. n # 1 => n - 1 \in 1..(n - 1) /\ calls'[n - 1] = calls[n - 1]
        BY <1>2, <1>8
    <2>2. default_state.state = "normal" /\ calls[n].ctx.state = "stroke"
        BY <1>1, <1>2, <1>4 DEF Discipline, TypeOK, Context
    <2>3. calls'[n].ctx # default_state' /\ calls'[n].ctx.state = "stroke"
        BY <1>1, <1>9, <2>2
    <2>4. /\ default_state' # None /\ Single' /\ curr_state'.state \in Tools
          /\ calls'[n].ctx.by = curr_state'.id
          /\ n = 1 \/ calls'[n - 1].op = "egress"
        BY <1>1, <1>4, <1>9, <1>10, <2>1
    <2>5. LeaveOK(n)'
        BY <1>9, <2>3, <2>4 DEF LeaveOK
    <2>6. QED
        BY <1>9, <2>5 DEF HandleOK, EnterOK, CloseOK
<1>16. ASSUME NEW i \in 1..(n - 1)
       PROVE  HandleOK(i)' /\ LeaveOK(i)' /\ EnterOK(i)' /\ CloseOK(i)'
    <2>1. /\ i \in 1..n /\ calls'[i] = calls[i] /\ i # n /\ i # n + 1
          /\ i # 1 => i - 1 \in 1..(n - 1)
          /\ HandleOK(i) /\ LeaveOK(i) /\ EnterOK(i) /\ CloseOK(i)
        BY <1>2, <1>8 DEF Discipline, FramesOK
    <2>2. calls[i].op \in {"egress", "enter", "close"}
        <3>1. Rank(calls[i].op) < Rank(calls[n].op)
            BY <1>1, Below
        <3>2. Rank(calls[n].op) = 3
            BY <1>1, <1>2 DEF Rank
        <3>3. calls[i].op \in {"handle", "leave", "egress", "enter", "close"}
            BY <1>12, <2>1 DEF Frame
        <3>4. QED
            BY <3>1, <3>2, <3>3 DEF Rank
    <2>3. calls[i].op = "close" => calls[i].at # "forget"
        <3> SUFFICES ASSUME calls[i].op = "close", calls[i].at = "forget" PROVE FALSE
            OBVIOUS
        <3>1. i < n
            BY <1>2
        <3>2. Empty
            BY <2>1 DEF CloseOK
        <3>3. QED
            BY <1>4, <1>6, <3>2 DEF Empty
    <2>4. QED
        BY <1>1, <1>8, <1>10, <2>1, <2>2, <2>3 DEF HandleOK, LeaveOK, EnterOK, CloseOK
<1>17. FramesOK'
    <2>1. \A i \in 1..(n + 1) : i = n + 1 \/ i = n \/ i \in 1..(n - 1)
        BY <1>2
    <2>2. QED
        BY <1>8, <1>14, <1>15, <1>16, <2>1 DEF FramesOK
<1>18. BottomOK' /\ EndOK'
    <2>1. /\ calls'[1].op = calls[1].op
          /\ n # 1 => calls'[1] = calls[1]
          /\ n = 1 => calls[1].ctx = calls'[1].ctx
        BY <1>2, <1>8, <1>9, <1>12
    <2>2. n # 1 => calls[1].op \notin {"leave", "handle"}
        <3> SUFFICES ASSUME n # 1 PROVE calls[1].op \notin {"leave", "handle"}
            OBVIOUS
        <3>1. 1 \in 1..(n - 1)
            BY <1>2
        <3>2. Rank(calls[1].op) < Rank(calls[n].op)
            BY <1>1, <3>1, Below
        <3>3. Rank(calls[n].op) = 3
            BY <1>1, <1>2 DEF Rank
        <3>4. QED
            BY <3>2, <3>3 DEF Rank
    <2>3. calls[1].op = "egress" => asked = "none"
        BY <1>1 DEF Discipline, BottomOK
    <2>4. n = 1 => InUse
        BY <1>1, <1>2 DEF Discipline, BottomOK
    <2>5. BottomOK'
        <3>1. CASE n = 1
            <4>1. InUse' /\ calls'[1].op = "leave" /\ calls'[1].ctx.state = "stroke"
                BY <1>1, <1>2, <1>9, <1>10, <2>4, <3>1
            <4>2. QED
                BY <1>8, <4>1 DEF BottomOK
        <3>2. CASE n # 1
            BY <1>1, <1>8, <2>1, <2>2, <2>3, <3>2 DEF BottomOK
        <3>3. QED
            BY <3>1, <3>2
    <2>6. EndOK'
        BY <1>1, <1>4, <1>8, <2>1 DEF Discipline, EndOK
    <2>7. QED
        BY <2>5, <2>6
<1>19. QED
    BY <1>11, <1>13, <1>17, <1>18 DEF Discipline

\* A context that has been left is deleted, and its leaving returns.
LEMMA DisciplineLeft ==
    ASSUME Discipline, Left
    PROVE  Discipline'
<1> SUFFICES ASSUME NEW n, n = Len(calls)
             PROVE  Discipline'
    OBVIOUS
<1>1. /\ calls # <<>> /\ Last(calls).op = "leave" /\ Return
      /\ active' = IF Last(calls).sent THEN active ELSE Shown
      /\ live' = live \ {Last(calls).ctx.id}
      /\ UNCHANGED <<curr_state, state_stack, default_state, made, stroke_data, listed, asked>>
    BY DEF Left, Running, machine
<1>2. n \in Nat \ {0} /\ Last(calls) = calls[n] /\ calls' \in Seq(Frame)
    BY <1>1, TopFacts, ReturnFacts
<1>3. /\ default_state # None
      /\ calls[n].ctx.state = "stroke" => Single /\ (n = 1 \/ calls[n - 1].op = "egress")
      /\ calls[n].ctx.state # "stroke" => Empty
    BY <1>1, <1>2, DisciplineTop DEF LeaveOK
<1>4. Shown \in Tools \cup {"normal", "none"}
    BY <1>3 DEF Shown, Discipline, TypeOK, Empty, Single, Drawing, Context
<1>5. TypeOK'
    BY <1>1, <1>2, <1>4 DEF Discipline, TypeOK, Empty, Single, Drawing
<1>6. n = 1 => InUse
    <2> SUFFICES ASSUME n = 1 PROVE InUse
        OBVIOUS
    <2>1. CASE calls[1].ctx.state = "stroke"
        BY <1>1, <1>2, <2>1 DEF Discipline, BottomOK
    <2>2. CASE calls[1].ctx.state # "stroke"
        <3>1. Empty /\ asked = "none"
            BY <1>1, <1>2, <1>3, <2>2 DEF Discipline, BottomOK
        <3>2. QED
            BY <3>1 DEF InUse
    <2>3. QED
        BY <2>1, <2>2
<1>7. n > 1 /\ calls[n - 1].op \in {"enter", "close"} => Empty
    BY <1>2, <1>3
<1>8. n > 1 /\ calls[1].op = "close" /\ calls[1].at = "forget" => n = 2
    BY <1>1, <1>2, Below
<1>9. QED
    BY <1>1, <1>2, <1>5, <1>6, <1>7, <1>8, DisciplineReturn

\* While there is nothing above it, a transition that leaves the states is below it.
LEMMA EgressFacts ==
    ASSUME Discipline, Running("egress")
    PROVE  /\ calls # <<>> /\ calls \in Seq(Frame)
           /\ Last(calls) = calls[Len(calls)]
           /\ calls[Len(calls)].op = "egress"
           /\ default_state # None
           /\ Len(calls) = 1 => asked = "none" /\ listed
           /\ \/ Len(calls) = 1
              \/ /\ Len(calls) = 2 /\ calls[1].op \in {"enter", "close"}
                 /\ ~(calls[1].op = "close" /\ calls[1].at = "forget")
                 /\ EnterOK(1) /\ CloseOK(1)
           /\ state_stack # <<>> => Drawing
           /\ state_stack = <<>> /\ curr_state # None => Single
<1>1. calls # <<>> /\ Last(calls).op = "egress"
    BY DEF Running
<1>2. calls[Len(calls)].op = "egress" /\ Last(calls) = calls[Len(calls)] /\ calls \in Seq(Frame)
    BY <1>1, TopFacts
<1>3. default_state # None
    BY <1>1 DEF Discipline, EndOK
<1>4. Len(calls) = 1 => asked = "none" /\ listed
    BY <1>1, <1>2, <1>3 DEF Discipline, BottomOK, EndOK
<1>5. \/ Len(calls) = 1
      \/ /\ Len(calls) = 2 /\ calls[1].op \in {"enter", "close"}
         /\ ~(calls[1].op = "close" /\ calls[1].at = "forget")
    BY <1>1, <1>2, Below
<1>6. Len(calls) = 2 => EnterOK(1) /\ CloseOK(1)
    BY DEF Discipline, FramesOK
<1>7. /\ state_stack # <<>> => Drawing
      /\ state_stack = <<>> /\ curr_state # None => Single
    BY DEF Discipline, TypeOK, Empty, Single, Drawing
<1>8. QED
    BY <1>1, <1>2, <1>3, <1>4, <1>5, <1>6, <1>7

\* A transition whose caller waits keeps what the caller counts on.
LEMMA CallerWaits ==
    ASSUME calls[1].op \in {"enter", "close"}, EnterOK(1), CloseOK(1),
           ~(calls[1].op = "close" /\ calls[1].at = "forget"),
           calls'[1] = calls[1], Len(calls') # 1,
           UNCHANGED <<default_state, listed, asked>>
    PROVE  HandleOK(1)' /\ LeaveOK(1)' /\ EnterOK(1)' /\ CloseOK(1)'
BY DEF HandleOK, LeaveOK, EnterOK, CloseOK

\* All the states are left: a stroke first, which is popped,
LEMMA DisciplineEgressPop ==
    ASSUME Discipline, EgressPop
    PROVE  Discipline'
<1> SUFFICES ASSUME NEW n, n = Len(calls)
             PROVE  Discipline'
    OBVIOUS
<1> DEFINE new == Leaving(curr_state)
<1>1. /\ Running("egress") /\ Popped /\ Call(new) /\ state_stack # <<>>
      /\ UNCHANGED <<made, live, stroke_data, listed, asked, active>>
    BY DEF EgressPop, contexts, gui
<1>2. /\ calls # <<>> /\ calls \in Seq(Frame) /\ Drawing /\ default_state # None
      /\ calls[n].op = "egress"
      /\ n = 1 => asked = "none" /\ listed
      /\ \/ n = 1
         \/ /\ n = 2 /\ calls[1].op \in {"enter", "close"}
            /\ ~(calls[1].op = "close" /\ calls[1].at = "forget")
            /\ EnterOK(1) /\ CloseOK(1)
    BY <1>1, EgressFacts
<1>3. /\ Single' /\ curr_state' \in Context(Tools) /\ curr_state \in Context({"stroke"})
      /\ curr_state.by = curr_state'.id /\ default_state' = default_state
    BY <1>1, <1>2, PoppedFacts
<1>4. new \in Frame
    BY <1>3 DEF Frame, Leaving, Context
<1>5. /\ calls' \in Seq(Frame) /\ calls' # <<>> /\ Len(calls') = n + 1
      /\ \A i \in 1..n : calls'[i] = calls[i]
      /\ calls'[n + 1] = new
    <2> HIDE DEF new
    <2>1. QED
        BY <1>1, <1>2, <1>4, CallFacts
<1>6. /\ curr_state.state = "stroke" /\ curr_state'.state \in Tools
      /\ curr_state # default_state /\ default_state' # None
    BY <1>2, <1>3 DEF Context, Discipline, TypeOK, None
<1>7. new.op = "leave" /\ new.ctx = curr_state /\ new.sent = FALSE
    BY DEF Leaving
<1>8. TypeOK'
    <2>1. curr_state' # default_state
        BY <1>2, <1>3, MachineAssumption DEF Context, Discipline, TypeOK
    <2>2. QED
        BY <1>1, <1>3, <1>5, <2>1 DEF Discipline, TypeOK
<1> HIDE DEF new
<1>9. CASE n = 1
    <2>1. Len(calls') = 2 /\ calls'[1].op = "egress" /\ calls'[2] = new
        BY <1>2, <1>5, <1>9
    <2>2. Nested'
        BY <1>7, <2>1 DEF Nested, Rank
    <2>3. FramesOK'
        <3>1. HandleOK(1)' /\ LeaveOK(1)' /\ EnterOK(1)' /\ CloseOK(1)'
            BY <2>1 DEF HandleOK, LeaveOK, EnterOK, CloseOK
        <3>2. LeaveOK(2)'
            BY <1>3, <1>6, <1>7, <2>1 DEF LeaveOK
        <3>3. HandleOK(2)' /\ EnterOK(2)' /\ CloseOK(2)'
            BY <1>7, <2>1 DEF HandleOK, EnterOK, CloseOK
        <3>4. QED
            BY <2>1, <3>1, <3>2, <3>3 DEF FramesOK
    <2>4. BottomOK' /\ EndOK'
        BY <1>1, <1>2, <1>5, <1>6, <1>9, <2>1 DEF BottomOK, EndOK
    <2>5. QED
        BY <1>8, <2>2, <2>3, <2>4 DEF Discipline
<1>10. CASE n = 2
    <2>1. /\ Len(calls') = 3 /\ calls'[1] = calls[1] /\ calls'[2].op = "egress"
          /\ calls'[3] = new /\ calls'[1].op \in {"enter", "close"}
        BY <1>2, <1>5, <1>10
    <2>2. Nested'
        BY <1>7, <2>1 DEF Nested, Rank
    <2>3. FramesOK'
        <3>1. HandleOK(1)' /\ LeaveOK(1)' /\ EnterOK(1)' /\ CloseOK(1)'
            BY <1>1, <1>2, <1>3, <1>10, <2>1, CallerWaits
        <3>2. HandleOK(2)' /\ LeaveOK(2)' /\ EnterOK(2)' /\ CloseOK(2)'
            BY <2>1 DEF HandleOK, LeaveOK, EnterOK, CloseOK
        <3>3. LeaveOK(3)'
            BY <1>3, <1>6, <1>7, <2>1 DEF LeaveOK
        <3>4. HandleOK(3)' /\ EnterOK(3)' /\ CloseOK(3)'
            BY <1>7, <2>1 DEF HandleOK, EnterOK, CloseOK
        <3>5. QED
            BY <2>1, <3>1, <3>2, <3>3, <3>4 DEF FramesOK
    <2>4. BottomOK'
        BY <1>5, <2>1 DEF BottomOK
    <2>5. EndOK'
        BY <1>1, <1>2, <1>3, <1>5, <1>6, <2>1 DEF Discipline, EndOK
    <2>6. QED
        BY <1>8, <2>2, <2>3, <2>4, <2>5 DEF Discipline
<1>11. QED
    BY <1>2, <1>9, <1>10

\* then the last one, with no state current,
LEMMA DisciplineEgressLast ==
    ASSUME Discipline, EgressLast
    PROVE  Discipline'
<1> SUFFICES ASSUME NEW n, n = Len(calls)
             PROVE  Discipline'
    OBVIOUS
<1> DEFINE new == Leaving(curr_state)
<1>1. /\ Running("egress") /\ GoOn(<<new>>) /\ state_stack = <<>> /\ curr_state # None
      /\ curr_state' = None
      /\ UNCHANGED <<state_stack, default_state, made, live, stroke_data, listed, asked, active>>
    BY DEF EgressLast, contexts, gui
<1>2. /\ calls # <<>> /\ calls \in Seq(Frame) /\ Single /\ default_state # None
      /\ calls[n].op = "egress"
      /\ n = 1 => asked = "none" /\ listed
      /\ \/ n = 1
         \/ /\ n = 2 /\ calls[1].op \in {"enter", "close"}
            /\ ~(calls[1].op = "close" /\ calls[1].at = "forget")
            /\ EnterOK(1) /\ CloseOK(1)
    BY <1>1, EgressFacts
<1>3. Empty'
    BY <1>1 DEF Empty
<1>4. new \in Frame
    BY <1>2 DEF Frame, Leaving, Single, Context
<1>5. /\ calls' \in Seq(Frame) /\ calls' # <<>> /\ Len(calls') = n
      /\ \A i \in 1..(n - 1) : calls'[i] = calls[i]
      /\ calls'[n] = new
    <2> HIDE DEF new
    <2>1. QED
        BY <1>1, <1>2, <1>4, GoOnFacts
<1>6. curr_state.state # "stroke"
    BY <1>2, MachineAssumption DEF Context, Single
<1>7. new.op = "leave" /\ new.ctx = curr_state /\ new.sent = FALSE
    BY DEF Leaving
<1>8. TypeOK'
    BY <1>1, <1>3, <1>5 DEF Discipline, TypeOK
<1>9. curr_state # default_state /\ default_state' # None
    BY <1>1, <1>2 DEF Discipline, TypeOK
<1> HIDE DEF new
<1>10. CASE n = 1
    <2>1. Len(calls') = 1 /\ calls'[1] = new
        BY <1>5, <1>10
    <2>2. Nested'
        BY <2>1 DEF Nested
    <2>3. FramesOK'
        <3>1. LeaveOK(1)'
            BY <1>1, <1>3, <1>6, <1>7, <1>9, <2>1 DEF LeaveOK
        <3>2. HandleOK(1)' /\ EnterOK(1)' /\ CloseOK(1)'
            BY <1>7, <2>1 DEF HandleOK, EnterOK, CloseOK
        <3>3. QED
            BY <2>1, <3>1, <3>2 DEF FramesOK
    <2>4. BottomOK' /\ EndOK'
        BY <1>1, <1>2, <1>5, <1>6, <1>7, <1>9, <1>10, <2>1 DEF BottomOK, EndOK
    <2>5. QED
        BY <1>8, <2>2, <2>3, <2>4 DEF Discipline
<1>11. CASE n = 2
    <2>1. /\ Len(calls') = 2 /\ calls'[1] = calls[1] /\ calls'[2] = new
          /\ calls'[1].op \in {"enter", "close"}
        BY <1>2, <1>5, <1>11
    <2>2. Nested'
        BY <1>7, <2>1 DEF Nested, Rank
    <2>3. FramesOK'
        <3>1. HandleOK(1)' /\ LeaveOK(1)' /\ EnterOK(1)' /\ CloseOK(1)'
            BY <1>1, <1>2, <1>11, <2>1, CallerWaits
        <3>2. LeaveOK(2)'
            <4>1. calls'[2 - 1].op # "egress"
                BY <2>1
            <4>2. QED
                BY <1>1, <1>3, <1>6, <1>7, <1>9, <2>1, <4>1 DEF LeaveOK
        <3>3. HandleOK(2)' /\ EnterOK(2)' /\ CloseOK(2)'
            BY <1>7, <2>1 DEF HandleOK, EnterOK, CloseOK
        <3>4. QED
            BY <2>1, <3>1, <3>2, <3>3 DEF FramesOK
    <2>4. BottomOK'
        BY <1>5, <2>1 DEF BottomOK
    <2>5. EndOK'
        BY <1>1, <1>2, <1>5, <1>9, <2>1 DEF Discipline, EndOK
    <2>6. QED
        BY <1>8, <2>2, <2>3, <2>4, <2>5 DEF Discipline
<1>12. QED
    BY <1>2, <1>10, <1>11

\* and when there is none the caller goes on.
LEMMA DisciplineEgressNothing ==
    ASSUME Discipline, EgressNothing
    PROVE  Discipline'
<1> SUFFICES ASSUME NEW n, n = Len(calls)
             PROVE  Discipline'
    OBVIOUS
<1>1. /\ Running("egress") /\ Return /\ Empty
      /\ UNCHANGED <<curr_state, state_stack, default_state, made, live, stroke_data, listed, asked, active>>
    BY DEF EgressNothing, OnlyCalls, machine, contexts, gui, Empty
<1>2. /\ calls # <<>> /\ calls \in Seq(Frame)
      /\ Last(calls).op = "egress"
      /\ n = 1 => asked = "none"
      /\ n = 1 \/ (n = 2 /\ ~(calls[1].op = "close" /\ calls[1].at = "forget"))
    BY <1>1, EgressFacts
<1>3. calls' \in Seq(Frame)
    BY <1>1, <1>2, ReturnFacts
<1>4. TypeOK'
    BY <1>1, <1>3 DEF Discipline, TypeOK, Empty, Single, Drawing
<1>5. n = 1 => InUse
    BY <1>1, <1>2 DEF InUse
<1>6. QED
    BY <1>1, <1>2, <1>4, <1>5, DisciplineReturn

\* The state that was asked for is made and current.
LEMMA DisciplineEntered ==
    ASSUME Discipline, Entered
    PROVE  Discipline'
<1>1. /\ calls # <<>> /\ Last(calls).op = "enter" /\ Return
      /\ curr_state' = New(Last(calls).state, 0)
      /\ made' = made + 1 /\ live' = live \cup {made + 1}
      /\ active' = Last(calls).state
      /\ UNCHANGED <<state_stack, default_state, stroke_data, listed, asked>>
    BY DEF Entered, Running
<1>2. /\ Last(calls) = calls[Len(calls)] /\ calls \in Seq(Frame) /\ Last(calls) \in Frame
    BY <1>1, TopFacts
<1>3. Len(calls) = 1 /\ calls[1].op = "enter"
    BY <1>1, <1>2, Below
<1>4. calls' = <<>> /\ calls' \in Seq(Frame)
    BY <1>1, <1>2, <1>3, ReturnFacts
<1>5. Last(calls).state \in Tools \cup {"normal"}
    BY <1>1, <1>2 DEF Frame
<1>6. /\ default_state # None /\ asked = Last(calls).state /\ Empty
    BY <1>1, <1>2, <1>3, DisciplineTop DEF EnterOK
<1>7. made \in Nat /\ live \subseteq 1..made /\ default_state.id <= made
    BY <1>6 DEF Discipline, TypeOK
<1>8. /\ curr_state' \in Context(Tools \cup {"normal"})
      /\ curr_state'.state = asked /\ curr_state'.id = made + 1
    BY <1>1, <1>5, <1>6, <1>7 DEF New, Context
<1>9. Single' /\ InUse'
    BY <1>1, <1>5, <1>6, <1>8, MachineAssumption DEF Single, InUse, Empty
<1>10. curr_state' # default_state
    BY <1>7, <1>8 DEF Context, Discipline, TypeOK, None
<1>11. TypeOK'
    BY <1>1, <1>4, <1>5, <1>7, <1>9, <1>10 DEF Discipline, TypeOK, None, Context
<1>12. listed
    BY <1>1, <1>3, <1>6 DEF Discipline, EndOK
<1>13. QED
    BY <1>1, <1>4, <1>6, <1>9, <1>11, <1>12, DisciplineIdle

\* A call of the destructor is the outermost.
LEMMA CloseFacts ==
    ASSUME Discipline, Running("close")
    PROVE  /\ calls # <<>> /\ calls \in Seq(Frame)
           /\ Len(calls) = 1 /\ Last(calls) = calls[1]
           /\ calls[1].op = "close" /\ calls[1].at \in {"list", "default", "forget"}
           /\ default_state # None /\ asked = "none" /\ Empty
           /\ calls[1].at # "list" => ~listed
<1>1. calls # <<>> /\ Last(calls).op = "close"
    BY DEF Running
<1>2. /\ Last(calls) = calls[Len(calls)] /\ calls \in Seq(Frame) /\ Last(calls) \in Frame
    BY <1>1, TopFacts
<1>3. Len(calls) = 1
    BY <1>1, <1>2, Below
<1>4. calls[1].at \in {"list", "default", "forget"}
    BY <1>1, <1>2, <1>3 DEF Frame
<1>5. QED
    BY <1>1, <1>2, <1>3, <1>4, DisciplineTop DEF CloseOK

\* None of the machine's contexts keeps the view when its states have been left.
LEMMA NoHandles ==
    ASSUME Discipline, Running("close")
    PROVE  ViewHandles = {}
<1>1. /\ Len(calls) = 1 /\ calls[1].op = "close" /\ default_state # None /\ Empty
    BY CloseFacts
<1>2. BeingLeft = {}
    BY <1>1 DEF BeingLeft
<1>3. Range(state_stack) = {}
    BY <1>1 DEF Empty, Range
<1>4. Held \subseteq {None, default_state}
    BY <1>1, <1>3 DEF Held, Empty
<1>5. None.state \notin Tools \cup {"stroke"} /\ default_state.state \notin Tools \cup {"stroke"}
    BY <1>1, MachineAssumption DEF None, Discipline, TypeOK, Context
<1>6. QED
    BY <1>2, <1>4, <1>5 DEF ViewHandles

\* So the view that is taken off the list goes,
LEMMA DisciplineUnlisted ==
    ASSUME Discipline, Unlisted
    PROVE  Discipline'
<1>1. /\ Running("close") /\ listed' = FALSE
      /\ UNCHANGED <<curr_state, state_stack, default_state, made, live, stroke_data, asked, active>>
    BY DEF Unlisted, machine, contexts
<1>2. GoOn(<<Closing("default"), Egressing>>)
    BY <1>1, NoHandles DEF Unlisted
<1>3. Closing("default") \in Frame /\ Egressing \in Frame
    BY DEF Frame, Closing, Egressing
<1>4. /\ calls # <<>> /\ calls \in Seq(Frame) /\ Len(calls) = 1
      /\ default_state # None /\ asked = "none"
    BY <1>1, CloseFacts
<1>5. /\ calls' \in Seq(Frame) /\ calls' # <<>> /\ Len(calls') = 2
      /\ calls'[1] = Closing("default") /\ calls'[2] = Egressing
    BY <1>2, <1>3, <1>4, GoOnTwiceFacts
<1>6. TypeOK'
    BY <1>1, <1>5 DEF Discipline, TypeOK, Empty, Single, Drawing
<1>7. Nested' /\ BottomOK' /\ EndOK'
    BY <1>1, <1>4, <1>5 DEF Nested, BottomOK, EndOK, Closing, Egressing, Rank
<1>8. FramesOK'
    BY <1>1, <1>4, <1>5 DEF FramesOK, HandleOK, LeaveOK, EnterOK, CloseOK, Closing, Egressing
<1>9. QED
    BY <1>6, <1>7, <1>8 DEF Discipline

\* its default state is left,
LEMMA DisciplineLeaveDefault ==
    ASSUME Discipline, LeaveDefault
    PROVE  Discipline'
<1> DEFINE new == Leaving(default_state)
<1>1. /\ Running("close") /\ Last(calls).at = "default" /\ GoOn(<<Closing("forget"), new>>)
      /\ UNCHANGED <<curr_state, state_stack, default_state, made, live, stroke_data, listed, asked, active>>
    BY DEF LeaveDefault, OnlyCalls, machine, contexts, gui
<1>2. /\ calls # <<>> /\ calls \in Seq(Frame) /\ Len(calls) = 1 /\ Last(calls) = calls[1]
      /\ default_state # None /\ asked = "none" /\ Empty
      /\ calls[1].at # "list" => ~listed
    BY <1>1, CloseFacts
<1>3. default_state \in Context({"normal"}) /\ default_state.state = "normal"
    BY <1>2 DEF Discipline, TypeOK, Context
<1>4. Closing("forget") \in Frame /\ new \in Frame
    BY <1>3 DEF Frame, Closing, Leaving, Context
<1>5. /\ calls' \in Seq(Frame) /\ calls' # <<>> /\ Len(calls') = 2
      /\ calls'[1] = Closing("forget") /\ calls'[2] = new
    <2> HIDE DEF new
    <2>1. QED
        BY <1>1, <1>2, <1>4, GoOnTwiceFacts
<1>6. /\ calls'[1].op = "close" /\ calls'[1].at = "forget"
      /\ calls'[2].op = "leave" /\ calls'[2].ctx = default_state /\ calls'[2].sent = FALSE
    BY <1>5 DEF Closing, Leaving
<1>7. TypeOK'
    BY <1>1, <1>5 DEF Discipline, TypeOK, Empty, Single, Drawing
<1>8. Nested' /\ BottomOK' /\ EndOK'
    BY <1>1, <1>2, <1>5, <1>6 DEF Nested, BottomOK, EndOK, Rank
<1>9. Empty' /\ ~listed'
    BY <1>1, <1>2 DEF Empty
<1>10. FramesOK'
    <2>1. HandleOK(1)' /\ LeaveOK(1)' /\ EnterOK(1)' /\ CloseOK(1)'
        BY <1>1, <1>2, <1>5, <1>6, <1>9 DEF HandleOK, LeaveOK, EnterOK, CloseOK
    <2>2. LeaveOK(2)'
        <3>1. calls'[2 - 1].op # "egress"
            BY <1>6
        <3>2. QED
            BY <1>1, <1>2, <1>3, <1>5, <1>6, <1>9, <3>1 DEF LeaveOK
    <2>3. HandleOK(2)' /\ EnterOK(2)' /\ CloseOK(2)'
        BY <1>6 DEF HandleOK, EnterOK, CloseOK
    <2>4. QED
        BY <1>5, <2>1, <2>2, <2>3 DEF FramesOK
<1>11. QED
    BY <1>7, <1>8, <1>10 DEF Discipline

\* and forgotten.
LEMMA DisciplineClosed ==
    ASSUME Discipline, Closed
    PROVE  Discipline'
<1>1. /\ Running("close") /\ Last(calls).at = "forget" /\ Return /\ default_state' = None
      /\ UNCHANGED <<curr_state, state_stack, made, live, stroke_data, listed, asked, active>>
    BY DEF Closed, contexts, gui
<1>2. /\ calls # <<>> /\ calls \in Seq(Frame) /\ Len(calls) = 1 /\ Last(calls) = calls[1]
      /\ asked = "none" /\ Empty /\ ~listed
    BY <1>1, CloseFacts
<1>3. calls' = <<>> /\ calls' \in Seq(Frame)
    BY <1>1, <1>2, ReturnFacts
<1>4. Empty'
    BY <1>1, <1>2 DEF Empty
<1>5. TypeOK' /\ InUse'
    BY <1>1, <1>2, <1>3, <1>4 DEF Discipline, TypeOK, InUse
<1>6. QED
    BY <1>1, <1>2, <1>3, <1>4, <1>5, DisciplineIdle

\* Every step keeps the discipline.
LEMMA DisciplineNext ==
    ASSUME Discipline, [Next]_vars
    PROVE  Discipline'
<1>1. CASE Outside
    BY <1>1, DisciplineToolClick, DisciplineEvent, DisciplineUpdateTools, DisciplineHide,
       DisciplineClose DEF Outside
<1>2. CASE Inside
    BY <1>2, DisciplineAccept, DisciplineHandledOK, DisciplinePushStroke, DisciplineStrokeDrag,
       DisciplineThrowPop, DisciplineThrowState, DisciplineSendStroke, DisciplineLeft,
       DisciplineEgressPop, DisciplineEgressLast, DisciplineEgressNothing, DisciplineEntered,
       DisciplineUnlisted, DisciplineLeaveDefault, DisciplineClosed DEF Inside
<1>3. CASE UNCHANGED vars
    <2>1. UNCHANGED <<curr_state, state_stack, default_state, made, live, stroke_data, calls,
                      listed, asked, active>>
        BY <1>3 DEF vars, machine, contexts, gui
    <2>2. TypeOK'
        BY <2>1 DEF Discipline, TypeOK, Empty, Single, Drawing
    <2>3. FramesOK'
        BY <2>1 DEF Discipline, FramesOK, HandleOK, LeaveOK, EnterOK, CloseOK, Empty, Single
    <2>4. Nested' /\ BottomOK' /\ EndOK'
        BY <2>1 DEF Discipline, Nested, BottomOK, EndOK, InUse, Empty, Drawing
    <2>5. QED
        BY <2>2, <2>3, <2>4 DEF Discipline
<1>4. QED
    BY <1>1, <1>2, <1>3 DEF Next

-----------------------------------------------------------------------------
(***************************************************************************)
(* The contexts: those the machine refers to, and the one being left.      *)
(***************************************************************************)

Kept == ({curr_state, default_state} \cup Range(state_stack)) \ {None}

Forgetting == Running("close") /\ Last(calls).at = "forget"

IdsOK == ContextsPaired /\ Distinct

\* What the machine refers to, by what it is doing.
LEMMA KeptByShape ==
    /\ Empty => Kept = {default_state} \ {None}
    /\ Single => Kept = {curr_state, default_state} \ {None}
    /\ Drawing => Kept = {curr_state, state_stack[1], default_state} \ {None}
<1>1. state_stack = <<>> => Range(state_stack) = {}
    BY DEF Range
<1>2. Drawing => Range(state_stack) = {state_stack[1]}
    <2> SUFFICES ASSUME Drawing PROVE Range(state_stack) = {state_stack[1]}
        OBVIOUS
    <2>1. DOMAIN state_stack = {1}
        BY DEF Drawing
    <2>2. QED
        BY <2>1 DEF Range
<1>3. QED
    BY <1>1, <1>2 DEF Kept, Empty, Single

\* At most one context is being left at a time.
LEMMA LeftFacts ==
    Discipline =>
        /\ \A i \in 1..Len(calls) : calls[i].op = "leave" => BeingLeft = {calls[i].ctx}
        /\ (\A i \in 1..Len(calls) : calls[i].op # "leave") => BeingLeft = {}
<1> SUFFICES ASSUME Discipline
             PROVE  /\ \A i \in 1..Len(calls) : calls[i].op = "leave" => BeingLeft = {calls[i].ctx}
                    /\ (\A i \in 1..Len(calls) : calls[i].op # "leave") => BeingLeft = {}
    OBVIOUS
<1>1. Len(calls) \in Nat
    BY DEF Discipline, TypeOK
<1>2. ASSUME NEW i \in 1..Len(calls), NEW j \in 1..Len(calls),
             calls[i].op = "leave", calls[j].op = "leave"
      PROVE  i = j
    <2>1. ~(i < j) /\ ~(j < i)
        <3>1. Rank("leave") = 3
            BY DEF Rank
        <3>2. QED
            BY <1>2, <3>1 DEF Discipline, Nested
    <2>2. QED
        BY <1>1, <2>1
<1>3. ASSUME NEW i \in 1..Len(calls), calls[i].op = "leave"
      PROVE  BeingLeft = {calls[i].ctx}
    <2>1. {j \in 1..Len(calls) : calls[j].op = "leave"} = {i}
        BY <1>2, <1>3
    <2>2. QED
        BY <2>1 DEF BeingLeft
<1>4. ASSUME \A i \in 1..Len(calls) : calls[i].op # "leave"
      PROVE  BeingLeft = {}
    <2>1. {j \in 1..Len(calls) : calls[j].op = "leave"} = {}
        BY <1>4
    <2>2. QED
        BY <2>1 DEF BeingLeft
<1>5. QED
    BY <1>3, <1>4

\* The contexts there are, the default one not counted while it is being forgotten.
LEMMA ContextsWhole ==
    Discipline => Contexts = IF Forgetting THEN {} ELSE Kept \cup BeingLeft
<1> SUFFICES ASSUME Discipline
             PROVE  Contexts = IF Forgetting THEN {} ELSE Kept \cup BeingLeft
    OBVIOUS
<1>1. None \notin BeingLeft
    <2>1. \A i \in 1..Len(calls) : calls[i] \in Frame
        BY ElementOfSeq DEF Discipline, TypeOK
    <2>2. ASSUME NEW i \in 1..Len(calls), calls[i].op = "leave"
          PROVE  calls[i].ctx # None
        <3>1. calls[i].ctx \in Context(Tools \cup {"normal", "stroke"})
            BY <2>1, <2>2 DEF Frame
        <3>2. QED
            BY <3>1 DEF Context, None
    <2>3. QED
        BY <2>2 DEF BeingLeft
<1>2. CASE Forgetting
    <2>1. /\ Len(calls) = 1 /\ calls[1].op = "close" /\ Empty
        BY <1>2, CloseFacts DEF Forgetting
    <2>2. BeingLeft = {}
        BY <2>1 DEF BeingLeft
    <2>3. Held = {None}
        BY <1>2, <2>1 DEF Held, Forgetting, Empty, Range
    <2>4. QED
        BY <1>2, <2>2, <2>3 DEF Contexts
<1>3. CASE ~Forgetting
    <2>1. Held = {curr_state} \cup Range(state_stack) \cup {default_state}
        BY <1>3 DEF Held, Forgetting
    <2>2. Held \ {None} = Kept
        BY <2>1 DEF Kept
    <2>3. QED
        BY <1>1, <1>3, <2>2 DEF Contexts
<1>4. QED
    BY <1>2, <1>3

\* Nothing happens to the contexts that there are,
LEMMA SameIds ==
    ASSUME IdsOK, Contexts' = Contexts, live' = live
    PROVE  IdsOK'
<1>1. ContextsPaired <=> live = {c.id : c \in Contexts}
    BY DEF ContextsPaired, Contexts
<1>2. ContextsPaired' <=> live' = {c.id : c \in Contexts'}
    BY DEF ContextsPaired, Contexts
<1>3. QED
    BY <1>1, <1>2 DEF IdsOK, Distinct

\* one is made,
LEMMA NewId ==
    ASSUME TypeOK, IdsOK, NEW c, c.id = made + 1,
           Contexts' = Contexts \cup {c}, live' = live \cup {made + 1}
    PROVE  IdsOK'
<1>1. live = {d.id : d \in Contexts}
    BY DEF IdsOK, ContextsPaired, Contexts
<1>2. made \in Nat /\ live \subseteq 1..made
    BY DEF TypeOK
<1>3. \A d \in Contexts : d.id \in 1..made
    BY <1>1, <1>2
<1>4. \A d \in Contexts : d.id # c.id
    BY <1>2, <1>3
<1>5. live' = {d.id : d \in Contexts'}
    BY <1>1
<1>6. ContextsPaired'
    BY <1>5 DEF ContextsPaired, Contexts
<1>7. Distinct'
    BY <1>4 DEF IdsOK, Distinct
<1>8. QED
    BY <1>6, <1>7 DEF IdsOK

\* or one is deleted.
LEMMA GoneId ==
    ASSUME IdsOK, NEW c \in Contexts,
           Contexts' = Contexts \ {c}, live' = live \ {c.id}
    PROVE  IdsOK'
<1>1. live = {d.id : d \in Contexts}
    BY DEF IdsOK, ContextsPaired, Contexts
<1>2. \A d \in Contexts \ {c} : d.id # c.id
    BY DEF IdsOK, Distinct
<1>3. live' = {d.id : d \in Contexts'}
    BY <1>1, <1>2
<1>4. ContextsPaired'
    BY <1>3 DEF ContextsPaired, Contexts
<1>5. Distinct'
    BY DEF IdsOK, Distinct
<1>6. QED
    BY <1>4, <1>5 DEF IdsOK

\* A step that neither changes the machine nor leaves a context keeps the contexts.
LEMMA ContextsSame ==
    ASSUME Discipline, Discipline', ~Forgetting, ~Forgetting', BeingLeft' = BeingLeft,
           UNCHANGED <<curr_state, state_stack, default_state>>
    PROVE  Contexts' = Contexts
<1>1. Contexts = Kept \cup BeingLeft
    BY ContextsWhole
<1>2. (Discipline => Contexts = IF Forgetting THEN {} ELSE Kept \cup BeingLeft)'
    BY ContextsWhole, PTL
<1>3. Kept' = Kept
    BY DEF Kept
<1>4. QED
    BY <1>1, <1>2, <1>3

\* With no context being left, before and after.
LEMMA NoneLeft ==
    Discipline /\ (\A i \in 1..Len(calls) : calls[i].op # "leave") => BeingLeft = {}
BY LeftFacts

\* The calls that are made or return leave the same contexts as before.
LEMMA IdsOutside ==
    ASSUME Discipline, Discipline', IdsOK, Outside
    PROVE  IdsOK'
<1>1. /\ calls = <<>> /\ Len(calls) = 0 /\ ~Forgetting
      /\ UNCHANGED <<curr_state, state_stack, default_state, live>>
    BY DEF Outside, ToolClick, Event, UpdateTools, Hide, Close, Idle, machine, contexts,
           Forgetting, Running
<1>2. /\ Len(calls') \in Nat
      /\ calls' # <<>> => Last(calls') = calls'[Len(calls')]
      /\ \A i \in 1..Len(calls') : /\ calls'[i].op # "leave"
                                   /\ calls'[i].op = "close" => calls'[i].at # "forget"
      /\ calls' # <<>> => Len(calls') \in 1..Len(calls')
    <2>1. calls' \in Seq(Frame)
        BY DEF Discipline, TypeOK
    <2>2. /\ Len(calls') \in Nat
          /\ calls' # <<>> => Len(calls') \in 1..Len(calls') /\ Last(calls') = calls'[Len(calls')]
        BY <2>1, EmptySeq DEF Last
    <2>3. ASSUME NEW s, ToolClick(s)
          PROVE  \A i \in 1..Len(calls') : calls'[i].op \in {"enter", "egress"}
        BY <2>3 DEF ToolClick, EnterCalls, Entering, Egressing
    <2>4. ASSUME NEW e, Event(e)
          PROVE  \A i \in 1..Len(calls') : calls'[i].op = "handle"
        <3>1. calls' = <<Handling(Receiver, e)>>
            BY <1>1, <2>4 DEF Event, Call
        <3>2. QED
            BY <3>1 DEF Handling
    <2>5. CASE UpdateTools
        BY <1>1, <2>2, <2>5 DEF UpdateTools
    <2>6. CASE Hide
        <3>1. calls' = <<Egressing>>
            BY <1>1, <2>6 DEF Hide, Call
        <3>2. QED
            BY <2>2, <3>1 DEF Egressing
    <2>7. CASE Close
        <3>1. calls' = <<Closing("list"), Egressing>>
            BY <2>7 DEF Close
        <3>2. QED
            BY <2>2, <3>1 DEF Closing, Egressing
    <2>8. QED
        BY <2>2, <2>3, <2>4, <2>5, <2>6, <2>7 DEF Outside
<1>3. ~Forgetting'
    BY <1>2 DEF Forgetting, Running
<1>4. BeingLeft = {} /\ BeingLeft' = {}
    <2>1. (Discipline /\ (\A i \in 1..Len(calls) : calls[i].op # "leave") => BeingLeft = {})'
        BY NoneLeft, PTL
    <2>2. QED
        BY <1>1, <1>2, <2>1, NoneLeft
<1>5. QED
    BY <1>1, <1>3, <1>4, ContextsSame, SameIds

\* A handler that runs: the context below it, if any, waits for it.
LEMMA LeftBelowHandler ==
    ASSUME Discipline, Running("handle")
    PROVE  /\ ~Forgetting
           /\ Len(calls) = 1 => BeingLeft = {}
           /\ Len(calls) # 1 => BeingLeft = {calls[Len(calls) - 1].ctx}
<1>1. calls # <<>> /\ Last(calls).op = "handle" /\ Last(calls) = calls[Len(calls)]
    BY TopFacts DEF Running
<1>2. ~Forgetting
    BY <1>1 DEF Forgetting, Running
<1>3. Len(calls) = 1 => BeingLeft = {}
    BY <1>1, LeftFacts
<1>4. Len(calls) # 1 => BeingLeft = {calls[Len(calls) - 1].ctx}
    <2> SUFFICES ASSUME Len(calls) # 1
                 PROVE  BeingLeft = {calls[Len(calls) - 1].ctx}
        OBVIOUS
    <2>1. calls[Len(calls) - 1].op = "leave" /\ Len(calls) - 1 \in 1..Len(calls)
        BY <1>1, HandlerFacts, TopFacts
    <2>2. QED
        BY <2>1, LeftFacts
<1>5. QED
    BY <1>2, <1>3, <1>4

\* A handler that returns, or is followed by that of the default state.
LEMMA IdsHandler ==
    ASSUME Discipline, Discipline', IdsOK, Running("handle"),
           UNCHANGED <<curr_state, state_stack, default_state, live>>,
           \A i \in 1..(Len(calls) - 1) : calls'[i] = calls[i],
           \/ Len(calls') = Len(calls) - 1
           \/ Len(calls') = Len(calls) /\ calls'[Len(calls)].op = "handle"
    PROVE  IdsOK'
<1> SUFFICES ASSUME NEW n, n = Len(calls)
             PROVE  IdsOK'
    OBVIOUS
<1>1. /\ n \in Nat \ {0} /\ calls # <<>> /\ default_state # None
      /\ n # 1 => calls[n - 1].op = "leave"
    BY TopFacts, HandlerFacts DEF Running
<1>2. calls' # <<>> => /\ Last(calls') = calls'[Len(calls')]
                       /\ calls'[Len(calls')].op \in {"handle", "leave"}
    <2> SUFFICES ASSUME calls' # <<>>
                 PROVE  /\ Last(calls') = calls'[Len(calls')]
                        /\ calls'[Len(calls')].op \in {"handle", "leave"}
        OBVIOUS
    <2>1. Len(calls') \in Nat \ {0}
        BY EmptySeq DEF Discipline, TypeOK
    <2>2. CASE Len(calls') = n - 1
        <3>1. n # 1 /\ n - 1 \in 1..(n - 1)
            BY <1>1, <2>1, <2>2
        <3>2. QED
            BY <1>1, <2>2, <3>1 DEF Last
    <2>3. QED
        BY <2>2 DEF Last
<1>3. ~Forgetting'
    BY <1>2 DEF Forgetting, Running
<1>4. BeingLeft' = BeingLeft
    <2>1. (Discipline =>
              /\ \A i \in 1..Len(calls) : calls[i].op = "leave" => BeingLeft = {calls[i].ctx}
              /\ (\A i \in 1..Len(calls) : calls[i].op # "leave") => BeingLeft = {})'
        BY LeftFacts, PTL
    <2>2. CASE n = 1
        <3>1. \A i \in 1..Len(calls') : calls'[i].op # "leave"
            BY <2>2
        <3>2. QED
            BY <2>1, <2>2, <3>1, LeftBelowHandler
    <2>3. CASE n # 1
        <3>1. n - 1 \in 1..(n - 1) /\ n - 1 \in 1..Len(calls')
            BY <1>1, <2>3
        <3>2. calls'[n - 1] = calls[n - 1]
            BY <3>1
        <3>3. BeingLeft' = {calls'[n - 1].ctx}
            BY <1>1, <2>1, <2>3, <3>1, <3>2
        <3>4. QED
            BY <2>3, <3>2, <3>3, LeftBelowHandler
    <2>4. QED
        BY <2>2, <2>3
<1>5. QED
    BY <1>3, <1>4, LeftBelowHandler, ContextsSame, SameIds

\* The contexts of a state in which no context is being left.
LEMMA ContextsKept ==
    Discipline /\ ~Forgetting /\ (\A i \in 1..Len(calls) : calls[i].op # "leave")
        => Contexts = Kept
BY ContextsWhole, NoneLeft

\* The contexts of a state in which one is.
LEMMA ContextsLeaving ==
    Discipline /\ calls # <<>> /\ calls[Len(calls)].op = "leave"
        => Contexts = Kept \cup {calls[Len(calls)].ctx} /\ ~Forgetting
<1> SUFFICES ASSUME Discipline, calls # <<>>, calls[Len(calls)].op = "leave"
             PROVE  Contexts = Kept \cup {calls[Len(calls)].ctx} /\ ~Forgetting
    OBVIOUS
<1>1. Len(calls) \in 1..Len(calls) /\ Last(calls) = calls[Len(calls)]
    BY TopFacts
<1>2. ~Forgetting
    BY <1>1 DEF Forgetting, Running
<1>3. BeingLeft = {calls[Len(calls)].ctx}
    BY <1>1, LeftFacts
<1>4. QED
    BY <1>2, <1>3, ContextsWhole

\* A stroke that is pushed is a new context.
LEMMA IdsPushStroke ==
    ASSUME Discipline, Discipline', IdsOK, PushStroke
    PROVE  IdsOK'
<1>1. /\ Handles(Tools, {"down"}) /\ Return
      /\ state_stack' = Append(state_stack, curr_state)
      /\ curr_state' = New("stroke", curr_state.id)
      /\ live' = live \cup {made + 1}
      /\ UNCHANGED default_state
    BY DEF PushStroke
<1>2. /\ calls # <<>> /\ Len(calls) = 1 /\ Single /\ default_state # None
      /\ calls[1].op = "handle"
    BY <1>1, HandlerIsCurrent DEF Events
<1>3. calls' = <<>>
    BY <1>1, <1>2, ReturnFacts DEF Discipline, TypeOK
<1>4. Contexts = Kept
    <2>1. ~Forgetting
        BY <1>1, LeftBelowHandler DEF Handles
    <2>2. QED
        BY <1>2, <2>1, ContextsKept
<1>5. Contexts' = Kept'
    <2>1. ~Forgetting' /\ \A i \in 1..Len(calls') : calls'[i].op # "leave"
        BY <1>3 DEF Forgetting, Running
    <2>2. (Discipline /\ ~Forgetting /\ (\A i \in 1..Len(calls) : calls[i].op # "leave")
              => Contexts = Kept)'
        BY ContextsKept, PTL
    <2>3. QED
        BY <2>1, <2>2
<1>6. Kept = {curr_state, default_state} \ {None}
    BY <1>2, KeptByShape
<1>7. state_stack' = <<curr_state>>
    BY <1>1, <1>2 DEF Single
<1>8. Range(state_stack') = {curr_state}
    <2>1. DOMAIN state_stack' = {1} /\ state_stack'[1] = curr_state
        BY <1>7
    <2>2. QED
        BY <2>1 DEF Range
<1>9. Kept' = {curr_state', curr_state, default_state} \ {None}
    BY <1>1, <1>8 DEF Kept
<1>10. curr_state' # None /\ curr_state'.id = made + 1
    BY <1>1 DEF New, None, Discipline, TypeOK
<1>11. Contexts' = Contexts \cup {curr_state'}
    BY <1>4, <1>5, <1>6, <1>9, <1>10
<1>12. QED
    BY <1>1, <1>10, <1>11, NewId DEF Discipline

\* A stroke that is popped is a context still, until it has been left.
LEMMA IdsPopped ==
    ASSUME Discipline, Discipline', IdsOK, Drawing, Popped, ~Forgetting,
           \A i \in 1..Len(calls) : calls[i].op # "leave",
           calls' # <<>>, Last(calls') = Leaving(curr_state),
           UNCHANGED live
    PROVE  IdsOK'
<1>1. Contexts = Kept
    BY ContextsKept
<1>2. calls'[Len(calls')] = Leaving(curr_state)
    BY DEF Last
<1>3. Contexts' = Kept' \cup {curr_state}
    <2>1. calls'[Len(calls')].op = "leave" /\ calls'[Len(calls')].ctx = curr_state
        BY <1>2 DEF Leaving
    <2>2. (Discipline /\ calls # <<>> /\ calls[Len(calls)].op = "leave"
              => Contexts = Kept \cup {calls[Len(calls)].ctx} /\ ~Forgetting)'
        BY ContextsLeaving, PTL
    <2>3. QED
        BY <2>1, <2>2
<1>4. Kept = {curr_state, state_stack[1], default_state} \ {None}
    BY KeptByShape
<1>5. curr_state' = state_stack[1] /\ default_state' = default_state /\ state_stack' = <<>>
    BY PoppedFacts
<1>6. Kept' = {state_stack[1], default_state} \ {None}
    BY <1>5 DEF Kept, Range
<1>7. curr_state # None
    BY DEF Drawing, Context, None
<1>8. QED
    BY <1>1, <1>3, <1>4, <1>6, <1>7, SameIds

\* The last state is a context still, until it has been left.
LEMMA IdsEgressLast ==
    ASSUME Discipline, Discipline', IdsOK, EgressLast
    PROVE  IdsOK'
<1>1. /\ Running("egress") /\ GoOn(<<Leaving(curr_state)>>) /\ state_stack = <<>>
      /\ curr_state # None /\ curr_state' = None
      /\ UNCHANGED <<state_stack, default_state, live>>
    BY DEF EgressLast, contexts
<1>2. /\ calls # <<>> /\ calls \in Seq(Frame) /\ Single
      /\ \A i \in 1..Len(calls) : calls[i].op # "leave"
    <2>1. /\ calls # <<>> /\ calls \in Seq(Frame) /\ Single
          /\ calls[Len(calls)].op = "egress"
          /\ \/ Len(calls) = 1
             \/ Len(calls) = 2 /\ calls[1].op \in {"enter", "close"}
        BY <1>1, EgressFacts
    <2>2. QED
        BY <2>1
<1>3. ~Forgetting
    BY <1>1 DEF Forgetting, Running
<1>4. Contexts = Kept
    BY <1>2, <1>3, ContextsKept
<1>5. calls' # <<>> /\ calls'[Len(calls')] = Leaving(curr_state)
    <2> DEFINE new == Leaving(curr_state)
    <2>1. new \in Frame
        BY <1>2 DEF Frame, Leaving, Single, Context
    <2> HIDE DEF new
    <2>2. calls' # <<>> /\ Len(calls') = Len(calls) /\ calls'[Len(calls)] = new
        BY <1>1, <1>2, <2>1, GoOnFacts DEF new
    <2>3. QED
        BY <2>2 DEF new
<1>6. Contexts' = Kept' \cup {curr_state}
    <2>1. calls'[Len(calls')].op = "leave" /\ calls'[Len(calls')].ctx = curr_state
        BY <1>5 DEF Leaving
    <2>2. (Discipline /\ calls # <<>> /\ calls[Len(calls)].op = "leave"
              => Contexts = Kept \cup {calls[Len(calls)].ctx} /\ ~Forgetting)'
        BY ContextsLeaving, PTL
    <2>3. QED
        BY <1>5, <2>1, <2>2
<1>7. Kept = {curr_state, default_state} \ {None}
    BY <1>2, KeptByShape
<1>8. Kept' = {default_state} \ {None}
    BY <1>1 DEF Kept, Range
<1>9. QED
    BY <1>1, <1>4, <1>6, <1>7, <1>8, SameIds

\* A step between two states in which no context is being left.
LEMMA IdsQuiet ==
    ASSUME Discipline, Discipline', IdsOK,
           UNCHANGED <<curr_state, state_stack, default_state, live>>,
           ~Forgetting, ~Forgetting',
           \A i \in 1..Len(calls) : calls[i].op # "leave",
           \A i \in 1..Len(calls') : calls'[i].op # "leave"
    PROVE  IdsOK'
<1>1. BeingLeft = {}
    BY NoneLeft
<1>2. (Discipline /\ (\A i \in 1..Len(calls) : calls[i].op # "leave") => BeingLeft = {})'
    BY NoneLeft, PTL
<1>3. QED
    BY <1>1, <1>2, ContextsSame, SameIds

\* Handlers that change only their own events.
LEMMA IdsHandlers ==
    ASSUME Discipline, Discipline', IdsOK, Accept \/ HandledOK \/ StrokeDrag
    PROVE  IdsOK'
<1>1. /\ Running("handle") /\ calls # <<>> /\ calls \in Seq(Frame)
      /\ UNCHANGED <<curr_state, state_stack, default_state, live>>
    <2>1. Running("handle") /\ UNCHANGED <<curr_state, state_stack, default_state, live>>
        BY DEF Accept, HandledOK, StrokeDrag, Handles, OnlyCalls, machine, contexts
    <2>2. QED
        BY <2>1, TopFacts DEF Running
<1>2. CASE Return
    BY <1>1, <1>2, ReturnFacts, IdsHandler
<1>3. CASE ~Return
    <2> DEFINE new == Handling(default_state, Last(calls).event)
    <2>1. GoOn(<<new>>)
        BY <1>3 DEF Accept, HandledOK, StrokeDrag
    <2>2. new \in Frame /\ new.op = "handle"
        <3>1. default_state # None /\ Last(calls).event \in Events \cup {"stroke"}
            BY <1>1, HandlerFacts
        <3>2. default_state \in Context(Tools \cup {"normal", "stroke"})
            BY <3>1 DEF Discipline, TypeOK, Context
        <3>3. QED
            BY <3>1, <3>2 DEF Frame, Handling
    <2> HIDE DEF new
    <2>3. QED
        BY <1>1, <2>1, <2>2, GoOnFacts, IdsHandler
<1>4. QED
    BY <1>2, <1>3

\* A stroke that pops itself, or that a transition pops.
LEMMA IdsPops ==
    ASSUME Discipline, Discipline', IdsOK, ThrowPop \/ EgressPop
    PROVE  IdsOK'
<1>1. CASE ThrowPop
    <2>1. /\ Handles({"stroke"}, {"up", "stop"}) /\ Popped /\ GoOn(<<Leaving(curr_state)>>)
          /\ UNCHANGED live
        BY <1>1 DEF ThrowPop, contexts
    <2>2. /\ calls # <<>> /\ calls \in Seq(Frame) /\ Len(calls) = 1 /\ calls[1].op = "handle"
          /\ Drawing /\ Running("handle")
        <3>1. {"stroke"} \in SUBSET (Tools \cup {"stroke"}) /\ {"up", "stop"} \in SUBSET Events
            BY DEF Events
        <3>2. /\ calls # <<>> /\ Len(calls) = 1 /\ calls[1].op = "handle"
              /\ curr_state.state \in {"stroke"}
              /\ curr_state.state = "stroke" => Drawing
            BY <2>1, <3>1, HandlerIsCurrent
        <3>3. QED
            BY <2>1, <3>2 DEF Handles, Discipline, TypeOK
    <2>3. \A i \in 1..Len(calls) : calls[i].op # "leave"
        BY <2>2
    <2>4. ~Forgetting
        BY <2>2 DEF Forgetting, Running
    <2> DEFINE new == Leaving(curr_state)
    <2>5. new \in Frame
        BY <2>2 DEF Frame, Leaving, Drawing, Context
    <2>6. calls' # <<>> /\ Last(calls') = new
        <3> HIDE DEF new
        <3>1. GoOn(<<new>>)
            BY <2>1 DEF new
        <3>2. QED
            BY <2>2, <2>5, <3>1, GoOnFacts
    <2>7. QED
        BY <2>1, <2>2, <2>3, <2>4, <2>6, IdsPopped
<1>2. CASE EgressPop
    <2>1. /\ Running("egress") /\ Popped /\ Call(Leaving(curr_state)) /\ state_stack # <<>>
          /\ UNCHANGED live
        BY <1>2 DEF EgressPop, contexts
    <2>2. /\ calls # <<>> /\ calls \in Seq(Frame) /\ Drawing
          /\ calls[Len(calls)].op = "egress"
          /\ \/ Len(calls) = 1
             \/ Len(calls) = 2 /\ calls[1].op \in {"enter", "close"}
        BY <2>1, EgressFacts
    <2>3. \A i \in 1..Len(calls) : calls[i].op # "leave"
        BY <2>2
    <2>4. ~Forgetting
        BY <2>1 DEF Forgetting, Running
    <2> DEFINE new == Leaving(curr_state)
    <2>5. new \in Frame
        BY <2>2 DEF Frame, Leaving, Drawing, Context
    <2>6. calls' # <<>> /\ Last(calls') = new
        <3> HIDE DEF new
        <3>1. Call(new)
            BY <2>1 DEF new
        <3>2. QED
            BY <2>2, <2>5, <3>1, CallFacts
    <2>7. QED
        BY <2>1, <2>2, <2>3, <2>4, <2>6, IdsPopped
<1>3. QED
    BY <1>1, <1>2

\* Steps that only begin or end a transition.
LEMMA IdsTransitions ==
    ASSUME Discipline, Discipline', IdsOK, ThrowState \/ EgressNothing \/ Unlisted
    PROVE  IdsOK'
<1>1. CASE ThrowState
    <2>1. /\ Handles(Tools, {"stop"}) /\ GoOn(EnterCalls("normal"))
          /\ UNCHANGED <<curr_state, state_stack, default_state, live>>
        BY <1>1 DEF ThrowState, machine, contexts
    <2>2. /\ calls # <<>> /\ calls \in Seq(Frame) /\ Len(calls) = 1 /\ Single
          /\ calls[1].op = "handle" /\ Running("handle")
        BY <2>1, HandlerIsCurrent DEF Events, Handles, Discipline, TypeOK
    <2>3. EnterCalls("normal") = <<Entering("normal"), Egressing>>
        BY <2>2 DEF EnterCalls, Single, Context, None
    <2>4. Entering("normal") \in Frame /\ Egressing \in Frame
        BY DEF Frame, Entering, Egressing
    <2>5. /\ calls' # <<>> /\ Len(calls') = 2 /\ Last(calls') = Egressing
          /\ calls'[1] = Entering("normal") /\ calls'[2] = Egressing
        BY <2>1, <2>2, <2>3, <2>4, GoOnTwiceFacts
    <2>6. /\ ~Forgetting /\ ~Forgetting'
          /\ \A i \in 1..Len(calls) : calls[i].op # "leave"
          /\ \A i \in 1..Len(calls') : calls'[i].op # "leave"
        BY <2>2, <2>5 DEF Forgetting, Running, Entering, Egressing
    <2>7. QED
        BY <2>1, <2>6, IdsQuiet
<1>2. CASE EgressNothing
    <2>1. /\ Running("egress") /\ Return
          /\ UNCHANGED <<curr_state, state_stack, default_state, live>>
        BY <1>2 DEF EgressNothing, OnlyCalls, machine, contexts
    <2>2. /\ calls # <<>> /\ calls \in Seq(Frame)
          /\ calls[Len(calls)].op = "egress"
          /\ \/ Len(calls) = 1
             \/ /\ Len(calls) = 2 /\ calls[1].op \in {"enter", "close"}
                /\ ~(calls[1].op = "close" /\ calls[1].at = "forget")
        BY <2>1, EgressFacts
    <2>3. /\ Len(calls') = Len(calls) - 1
          /\ \A i \in 1..(Len(calls) - 1) : calls'[i] = calls[i]
          /\ calls' = <<>> <=> Len(calls) = 1
          /\ calls' # <<>> => Last(calls') = calls[Len(calls) - 1]
        BY <2>1, <2>2, ReturnFacts
    <2>4. /\ \A i \in 1..Len(calls) : calls[i].op # "leave"
          /\ \A i \in 1..Len(calls') : calls'[i].op # "leave"
        BY <2>2, <2>3
    <2>5. ~Forgetting /\ ~Forgetting'
        BY <2>1, <2>2, <2>3 DEF Forgetting, Running
    <2>6. QED
        BY <2>1, <2>4, <2>5, IdsQuiet
<1>3. CASE Unlisted
    <2>1. /\ Running("close") /\ Last(calls).at = "list"
          /\ UNCHANGED <<curr_state, state_stack, default_state, live>>
        BY <1>3 DEF Unlisted, machine, contexts
    <2>2. GoOn(<<Closing("default"), Egressing>>)
        BY <1>3, <2>1, NoHandles DEF Unlisted
    <2>3. Closing("default") \in Frame /\ Egressing \in Frame
        BY DEF Frame, Closing, Egressing
    <2>4. /\ calls # <<>> /\ calls \in Seq(Frame) /\ Len(calls) = 1 /\ calls[1].op = "close"
        BY <2>1, CloseFacts
    <2>5. /\ calls' # <<>> /\ Len(calls') = 2 /\ Last(calls') = Egressing
          /\ calls'[1] = Closing("default") /\ calls'[2] = Egressing
        BY <2>2, <2>3, <2>4, GoOnTwiceFacts
    <2>6. /\ ~Forgetting /\ ~Forgetting'
          /\ \A i \in 1..Len(calls) : calls[i].op # "leave"
          /\ \A i \in 1..Len(calls') : calls'[i].op # "leave"
        BY <2>1, <2>4, <2>5 DEF Forgetting, Running, Closing, Egressing
    <2>7. QED
        BY <2>1, <2>6, IdsQuiet
<1>4. QED
    BY <1>1, <1>2, <1>3

\* The context whose destructor sends a stroke is still being left.
LEMMA IdsSendStroke ==
    ASSUME Discipline, Discipline', IdsOK, SendStroke
    PROVE  IdsOK'
<1> SUFFICES ASSUME NEW n, n = Len(calls)
             PROVE  IdsOK'
    OBVIOUS
<1> DEFINE sent == LeavingSent(Last(calls).ctx)
<1> DEFINE sending == Handling(Receiver, "stroke")
<1>1. /\ Running("leave") /\ calls # <<>> /\ Last(calls).op = "leave"
      /\ Last(calls).ctx.state = "stroke" /\ GoOn(<<sent, sending>>)
      /\ UNCHANGED <<curr_state, state_stack, default_state, live>>
    BY DEF SendStroke, Running, HasStroke, machine, contexts
<1>2. n \in Nat \ {0} /\ Last(calls) = calls[n] /\ calls[n] \in Frame /\ calls \in Seq(Frame)
    BY <1>1, TopFacts
<1>3. default_state # None /\ Single
    BY <1>1, <1>2, DisciplineTop DEF LeaveOK
<1>4. sent \in Frame /\ sending \in Frame
    <2>1. calls[n].ctx \in Context(Tools \cup {"normal", "stroke"})
        BY <1>1, <1>2 DEF Frame
    <2>2. Receiver \in Context(Tools \cup {"normal", "stroke"})
        BY <1>3 DEF Receiver, Single, Context, Discipline, TypeOK
    <2>3. QED
        BY <1>2, <2>1, <2>2 DEF Frame, LeavingSent, Handling
<1>5. /\ calls' # <<>> /\ Len(calls') = n + 1 /\ calls'[n] = sent
      /\ Last(calls') = sending
    <2> HIDE DEF sent, sending
    <2>1. QED
        BY <1>1, <1>2, <1>4, GoOnTwiceFacts
<1>6. calls'[n].op = "leave" /\ calls'[n].ctx = calls[n].ctx /\ n \in 1..Len(calls')
    BY <1>2, <1>5 DEF LeavingSent
<1>7. (Discipline =>
          /\ \A i \in 1..Len(calls) : calls[i].op = "leave" => BeingLeft = {calls[i].ctx}
          /\ (\A i \in 1..Len(calls) : calls[i].op # "leave") => BeingLeft = {})'
    BY LeftFacts, PTL
<1>8. BeingLeft' = BeingLeft
    <2>1. BeingLeft = {calls[n].ctx}
        BY <1>1, <1>2, LeftFacts
    <2>2. BeingLeft' = {calls'[n].ctx}
        BY <1>6, <1>7
    <2>3. QED
        BY <1>6, <2>1, <2>2
<1>9. ~Forgetting /\ ~Forgetting'
    BY <1>1, <1>5 DEF Forgetting, Running, Handling
<1>10. QED
    BY <1>1, <1>8, <1>9, ContextsSame, SameIds

\* A context that has been left is deleted, and it is not one of the machine's.
LEMMA IdsLeft ==
    ASSUME Discipline, Discipline', IdsOK, Left
    PROVE  IdsOK'
<1> SUFFICES ASSUME NEW n, n = Len(calls)
             PROVE  IdsOK'
    OBVIOUS
<1> DEFINE c == calls[n].ctx
<1>1. /\ calls # <<>> /\ Last(calls).op = "leave" /\ Return
      /\ live' = live \ {Last(calls).ctx.id}
      /\ UNCHANGED <<curr_state, state_stack, default_state>>
    BY DEF Left, Running, machine
<1>2. n \in Nat \ {0} /\ Last(calls) = calls[n] /\ calls \in Seq(Frame) /\ calls[n] \in Frame
    BY <1>1, TopFacts
<1>3. Contexts = Kept \cup {c}
    BY <1>1, <1>2, ContextsLeaving
<1>4. c \in Contexts /\ live' = live \ {c.id}
    BY <1>1, <1>2, <1>3
<1>5. /\ Len(calls') = n - 1
      /\ \A i \in 1..(n - 1) : calls'[i] = calls[i]
      /\ calls' = <<>> <=> n = 1
      /\ calls' # <<>> => Last(calls') = calls[n - 1]
    BY <1>1, <1>2, ReturnFacts
<1>6. \A i \in 1..Len(calls') : calls'[i].op # "leave"
    <2> SUFFICES ASSUME NEW i \in 1..(n - 1)
                 PROVE  calls[i].op # "leave"
        BY <1>5
    <2>1. Rank(calls[i].op) < Rank(calls[n].op)
        BY <1>1, Below
    <2>2. Rank("leave") = 3
        BY DEF Rank
    <2>3. QED
        BY <1>1, <1>2, <2>1, <2>2
<1>7. (Discipline /\ (\A i \in 1..Len(calls) : calls[i].op # "leave") => BeingLeft = {})'
    BY NoneLeft, PTL
<1>8. (Discipline => Contexts = IF Forgetting THEN {} ELSE Kept \cup BeingLeft)'
    BY ContextsWhole, PTL
<1>9. Contexts' = IF Forgetting' THEN {} ELSE Kept
    BY <1>1, <1>6, <1>7, <1>8 DEF Kept
<1>10. /\ default_state # None
       /\ c.state = "stroke" => Single /\ curr_state.state \in Tools
       /\ c.state # "stroke" => Empty
       /\ \/ n = 2 /\ calls[1].op = "close" /\ calls[1].at = "forget"
          \/ c # default_state
    BY <1>1, <1>2, DisciplineTop DEF LeaveOK
<1>11. c # None
    <2>1. c \in Context(Tools \cup {"normal", "stroke"})
        BY <1>1, <1>2 DEF Frame
    <2>2. QED
        BY <2>1 DEF Context, None
<1>12. CASE Forgetting'
    <2>1. n = 2 /\ calls[1].op = "close" /\ calls[1].at = "forget"
        <3>1. calls' # <<>> /\ Last(calls').op = "close" /\ Last(calls').at = "forget"
            BY <1>12 DEF Forgetting, Running
        <3>2. n - 1 \in 1..(n - 1) /\ n - 1 \in 1..n
            BY <1>2, <1>5, <3>1
        <3>3. calls[n - 1].op = "close" /\ calls[n - 1].at = "forget"
            BY <1>5, <3>1
        <3>4. CloseOK(n - 1)
            BY <3>2 DEF Discipline, FramesOK
        <3>5. n - 1 < Len(calls)
            BY <1>2
        <3>6. Len(calls) = 2
            BY <3>3, <3>4, <3>5 DEF CloseOK
        <3>7. QED
            BY <3>3, <3>6
    <2>2. CloseOK(1)
        BY <2>1 DEF Discipline, FramesOK
    <2>3. Empty /\ c = default_state
        BY <2>1, <2>2 DEF CloseOK
    <2>4. Contexts = {c}
        BY <1>3, <2>3, KeptByShape
    <2>5. Contexts' = Contexts \ {c}
        BY <1>9, <1>12, <2>4
    <2>6. QED
        BY <1>4, <2>5, GoneId
<1>13. CASE ~Forgetting'
    <2>1. c # default_state
        <3> SUFFICES ASSUME n = 2, calls[1].op = "close", calls[1].at = "forget"
                     PROVE  FALSE
            BY <1>10
        <3>1. calls' # <<>> /\ Last(calls') = calls[1]
            BY <1>5
        <3>2. QED
            BY <1>13, <3>1 DEF Forgetting, Running
    <2>2. c \notin Kept
        <3>1. CASE c.state = "stroke"
            <4>1. Kept \subseteq {curr_state, default_state}
                BY <1>10, <3>1, KeptByShape
            <4>2. c # curr_state
                BY <1>10, <3>1, MachineAssumption
            <4>3. QED
                BY <2>1, <4>1, <4>2
        <3>2. CASE c.state # "stroke"
            BY <1>10, <2>1, <3>2, KeptByShape
        <3>3. QED
            BY <3>1, <3>2
    <2>3. Contexts' = Contexts \ {c}
        BY <1>3, <1>9, <1>13, <2>2
    <2>4. QED
        BY <1>4, <2>3, GoneId
<1>14. QED
    BY <1>12, <1>13

\* The state that is entered is a new context.
LEMMA IdsEntered ==
    ASSUME Discipline, Discipline', IdsOK, Entered
    PROVE  IdsOK'
<1>1. /\ Running("enter") /\ calls # <<>> /\ Last(calls).op = "enter" /\ Return
      /\ curr_state' = New(Last(calls).state, 0)
      /\ live' = live \cup {made + 1}
      /\ UNCHANGED <<state_stack, default_state>>
    BY DEF Entered, Running
<1>2. /\ Last(calls) = calls[Len(calls)] /\ calls \in Seq(Frame)
    BY <1>1, TopFacts
<1>3. Len(calls) = 1 /\ calls[1].op = "enter"
    BY <1>1, <1>2, Below
<1>4. calls' = <<>>
    BY <1>1, <1>2, <1>3, ReturnFacts
<1>5. Empty
    BY <1>1, <1>2, <1>3, DisciplineTop DEF EnterOK
<1>6. Contexts = Kept
    <2>1. ~Forgetting
        BY <1>1 DEF Forgetting, Running
    <2>2. QED
        BY <1>3, <2>1, ContextsKept
<1>7. Contexts' = Kept'
    <2>1. ~Forgetting' /\ \A i \in 1..Len(calls') : calls'[i].op # "leave"
        BY <1>4 DEF Forgetting, Running
    <2>2. (Discipline /\ ~Forgetting /\ (\A i \in 1..Len(calls) : calls[i].op # "leave")
              => Contexts = Kept)'
        BY ContextsKept, PTL
    <2>3. QED
        BY <2>1, <2>2
<1>8. curr_state' # None /\ curr_state'.id = made + 1
    BY <1>1 DEF New, None, Discipline, TypeOK
<1>9. Kept = {default_state} \ {None}
    BY <1>5, KeptByShape
<1>10. Kept' = {curr_state', default_state} \ {None}
    BY <1>1, <1>5 DEF Kept, Empty, Range
<1>11. Contexts' = Contexts \cup {curr_state'}
    BY <1>6, <1>7, <1>8, <1>9, <1>10
<1>12. QED
    BY <1>1, <1>8, <1>11, NewId DEF Discipline

\* The default state is a context until it has been left,
LEMMA IdsLeaveDefault ==
    ASSUME Discipline, Discipline', IdsOK, LeaveDefault
    PROVE  IdsOK'
<1> DEFINE new == Leaving(default_state)
<1>1. /\ Running("close") /\ Last(calls).at = "default" /\ GoOn(<<Closing("forget"), new>>)
      /\ UNCHANGED <<curr_state, state_stack, default_state, live>>
    BY DEF LeaveDefault, OnlyCalls, machine, contexts
<1>2. /\ calls # <<>> /\ calls \in Seq(Frame) /\ Len(calls) = 1 /\ Last(calls) = calls[1]
      /\ calls[1].op = "close" /\ default_state # None /\ Empty
    BY <1>1, CloseFacts
<1>3. Contexts = Kept
    <2>1. ~Forgetting
        BY <1>1 DEF Forgetting
    <2>2. QED
        BY <1>2, <2>1, ContextsKept
<1>4. calls' # <<>> /\ calls'[Len(calls')] = new
    <2>1. default_state \in Context(Tools \cup {"normal", "stroke"})
        BY <1>2 DEF Discipline, TypeOK, Context
    <2>2. Closing("forget") \in Frame /\ new \in Frame
        BY <2>1 DEF Frame, Closing, Leaving
    <2> HIDE DEF new
    <2>3. QED
        BY <1>1, <1>2, <2>2, GoOnTwiceFacts
<1>5. Contexts' = Kept' \cup {default_state}
    <2>1. calls'[Len(calls')].op = "leave" /\ calls'[Len(calls')].ctx = default_state
        BY <1>4 DEF Leaving
    <2>2. (Discipline /\ calls # <<>> /\ calls[Len(calls)].op = "leave"
              => Contexts = Kept \cup {calls[Len(calls)].ctx} /\ ~Forgetting)'
        BY ContextsLeaving, PTL
    <2>3. QED
        BY <1>4, <2>1, <2>2
<1>6. Kept = {default_state} /\ Kept' = Kept
    BY <1>1, <1>2, KeptByShape DEF Kept
<1>7. QED
    BY <1>1, <1>3, <1>5, <1>6, SameIds

\* and then there is none.
LEMMA IdsClosed ==
    ASSUME Discipline, Discipline', IdsOK, Closed
    PROVE  IdsOK'
<1>1. /\ Running("close") /\ Last(calls).at = "forget" /\ Return /\ default_state' = None
      /\ UNCHANGED <<curr_state, state_stack, live>>
    BY DEF Closed, contexts
<1>2. /\ calls # <<>> /\ calls \in Seq(Frame) /\ Len(calls) = 1 /\ Empty
    BY <1>1, CloseFacts
<1>3. calls' = <<>>
    BY <1>1, <1>2, ReturnFacts
<1>4. Contexts = {}
    BY <1>1, ContextsWhole DEF Forgetting
<1>5. Contexts' = Kept'
    <2>1. ~Forgetting' /\ \A i \in 1..Len(calls') : calls'[i].op # "leave"
        BY <1>3 DEF Forgetting, Running
    <2>2. (Discipline /\ ~Forgetting /\ (\A i \in 1..Len(calls) : calls[i].op # "leave")
              => Contexts = Kept)'
        BY ContextsKept, PTL
    <2>3. QED
        BY <2>1, <2>2
<1>6. Kept' = {}
    BY <1>1, <1>2 DEF Kept, Empty, Range
<1>7. QED
    BY <1>1, <1>4, <1>5, <1>6, SameIds

\* Every step keeps the contexts and their ids together.
LEMMA IdsInit == Init => IdsOK
<1> SUFFICES ASSUME Init PROVE IdsOK
    OBVIOUS
<1>1. Discipline /\ calls = <<>>
    BY DisciplineInit DEF Init
<1>2. Contexts = Kept
    <2>1. ~Forgetting /\ \A i \in 1..Len(calls) : calls[i].op # "leave"
        BY <1>1 DEF Forgetting, Running
    <2>2. QED
        BY <1>1, <2>1, ContextsKept
<1>3. Kept = {default_state} /\ default_state.id = 1
    BY DEF Init, Kept, None, Range
<1>4. {c.id : c \in Contexts} = {1} /\ live = {1}
    BY <1>2, <1>3 DEF Init
<1>5. QED
    BY <1>2, <1>3, <1>4 DEF IdsOK, ContextsPaired, Distinct, Contexts

\* One of the lemmas above for each step.
LEMMA IdsNext ==
    ASSUME Discipline, Discipline', IdsOK, [Next]_vars
    PROVE  IdsOK'
<1>1. CASE Outside
    BY <1>1, IdsOutside
<1>2. CASE Inside
    BY <1>2, IdsHandlers, IdsPushStroke, IdsPops, IdsTransitions, IdsSendStroke, IdsLeft,
       IdsEgressLast, IdsEntered, IdsLeaveDefault, IdsClosed DEF Inside
<1>3. CASE UNCHANGED vars
    <2>1. UNCHANGED <<curr_state, state_stack, default_state, live, calls>>
        BY <1>3 DEF vars, machine, contexts
    <2>2. Contexts' = Contexts /\ live' = live
        BY <2>1 DEF Contexts, Held, BeingLeft, Running
    <2>3. QED
        BY <2>2, SameIds
<1>4. QED
    BY <1>1, <1>2, <1>3 DEF Next

-----------------------------------------------------------------------------
(***************************************************************************)
(* The toolbox.                                                            *)
(***************************************************************************)

\* The toolbox has been told what the machine is, if no context is yet to tell it.
Told == calls # <<>> => Last(calls).op # "leave" \/ Last(calls).sent

\* A step that changes neither the machine nor the button that is down.
LEMMA ShownSame ==
    ASSUME ShownOK, Told, UNCHANGED <<curr_state, default_state, active>>
    PROVE  ShownOK'
<1>1. Shown' = Shown
    BY DEF Shown
<1>2. default_state # None /\ curr_state.state # "stroke" => active = Shown
    BY DEF ShownOK, Told
<1>3. QED
    BY <1>1, <1>2 DEF ShownOK

\* A step that tells the toolbox.
LEMMA ShownTold ==
    ASSUME UNCHANGED <<curr_state, default_state>>, active' = Shown
    PROVE  ShownOK'
<1>1. Shown' = Shown
    BY DEF Shown
<1>2. QED
    BY <1>1 DEF ShownOK

\* A step after which a context is left, which will tell the toolbox.
LEMMA ShownLater ==
    ASSUME NEW c, calls' # <<>>, Last(calls') = Leaving(c)
    PROVE  ShownOK'
<1>1. Last(calls').op = "leave" /\ Last(calls').sent = FALSE
    BY DEF Leaving
<1>2. QED
    BY <1>1 DEF ShownOK

\* Nothing is told while a stroke begins.
LEMMA ShownPushStroke ==
    ASSUME PushStroke
    PROVE  ShownOK'
BY DEF PushStroke, New, ShownOK

\* A state that is entered tells itself, for the machine has it.
LEMMA ShownEntered ==
    ASSUME Discipline, Entered
    PROVE  ShownOK'
<1>1. curr_state' = New(Last(calls).state, 0) /\ active' = Last(calls).state
    BY DEF Entered
<1>2. Last(calls).state \in Tools \cup {"normal"}
    <2>1. calls # <<>> /\ Last(calls).op = "enter"
        BY DEF Entered, Running
    <2>2. Last(calls) \in Frame
        BY <2>1, TopFacts
    <2>3. QED
        BY <2>1, <2>2 DEF Frame
<1>3. curr_state'.id = made + 1 /\ curr_state'.state = Last(calls).state
    BY <1>1 DEF New
<1>4. curr_state' # None
    BY <1>3 DEF Discipline, TypeOK, None
<1>5. QED
    BY <1>1, <1>3, <1>4 DEF ShownOK, Shown

\* The steps of the stack of calls that leave a context.
LEMMA LeavesLast ==
    ASSUME Discipline, ThrowPop \/ EgressPop \/ EgressLast \/ LeaveDefault
    PROVE  \E c : calls' # <<>> /\ Last(calls') = Leaving(c)
<1>1. curr_state \in Context(Tools \cup {"normal", "stroke"}) \/ Empty
    BY DEF Discipline, TypeOK, Single, Drawing, Context
<1>2. CASE ThrowPop \/ EgressPop \/ EgressLast
    <2>1. Running("handle") \/ Running("egress")
        BY <1>2 DEF ThrowPop, EgressPop, EgressLast, Handles
    <2>2. calls # <<>> /\ calls \in Seq(Frame)
        BY <2>1, TopFacts DEF Running
    <2>3. ~Empty
        <3>1. CASE ThrowPop
            <4>1. Handles({"stroke"}, {"up", "stop"})
                BY <3>1 DEF ThrowPop
            <4>2. {"stroke"} \in SUBSET (Tools \cup {"stroke"}) /\ {"up", "stop"} \in SUBSET Events
                BY DEF Events
            <4>3. curr_state.state \in {"stroke"}
                BY <4>1, <4>2, HandlerIsCurrent
            <4>4. QED
                BY <4>3 DEF Empty, None
        <3>2. CASE EgressPop \/ EgressLast
            BY <3>2 DEF EgressPop, EgressLast, Empty
        <3>3. QED
            BY <1>2, <3>1, <3>2
    <2> DEFINE new == Leaving(curr_state)
    <2>4. new \in Frame
        BY <1>1, <2>3 DEF Frame, Leaving
    <2>5. GoOn(<<new>>) \/ Call(new)
        BY <1>2 DEF ThrowPop, EgressPop, EgressLast
    <2>6. calls' # <<>> /\ Last(calls') = new
        <3> HIDE DEF new
        <3>1. QED
            BY <2>2, <2>4, <2>5, GoOnFacts, CallFacts
    <2>7. QED
        BY <2>6
<1>3. CASE LeaveDefault
    <2> DEFINE new == Leaving(default_state)
    <2>1. Running("close") /\ GoOn(<<Closing("forget"), new>>)
        BY <1>3 DEF LeaveDefault
    <2>2. calls # <<>> /\ calls \in Seq(Frame) /\ default_state # None
        BY <2>1, CloseFacts
    <2>3. Closing("forget") \in Frame /\ new \in Frame
        <3>1. default_state \in Context(Tools \cup {"normal", "stroke"})
            BY <2>2 DEF Discipline, TypeOK, Context
        <3>2. QED
            BY <3>1 DEF Frame, Closing, Leaving
    <2>4. calls' # <<>> /\ Last(calls') = new
        <3> HIDE DEF new
        <3>1. QED
            BY <2>1, <2>2, <2>3, GoOnTwiceFacts
    <2>5. QED
        BY <2>4
<1>4. QED
    BY <1>2, <1>3

\* It will tell the toolbox when it has been left.
LEMMA ShownLeaves ==
    ASSUME Discipline, ThrowPop \/ EgressPop \/ EgressLast \/ LeaveDefault
    PROVE  ShownOK'
BY LeavesLast, ShownLater

\* Every step keeps the toolbox right.
LEMMA ShownInit == Init => ShownOK
BY DEF Init, ShownOK, Shown, None

\* The steps that tell the toolbox nothing change nothing that it shows.
LEMMA ShownNext ==
    ASSUME Discipline, ShownOK, [Next]_vars
    PROVE  ShownOK'
<1>1. CASE Outside
    <2>1. Told
        BY <1>1 DEF Told, Outside, ToolClick, Event, UpdateTools, Hide, Close, Idle
    <2>2. UNCHANGED <<curr_state, default_state>> /\ (UNCHANGED active \/ active' = Shown)
        BY <1>1 DEF Outside, ToolClick, Event, UpdateTools, Hide, Close, machine, gui
    <2>3. QED
        BY <2>1, <2>2, ShownSame, ShownTold
<1>2. CASE Accept \/ HandledOK \/ StrokeDrag \/ ThrowState \/ EgressNothing \/ Unlisted
    <2>1. Told
        BY <1>2 DEF Told, Accept, HandledOK, StrokeDrag, ThrowState, EgressNothing, Unlisted,
                    Handles, Running
    <2>2. UNCHANGED <<curr_state, default_state, active>>
        BY <1>2 DEF Accept, HandledOK, StrokeDrag, ThrowState, EgressNothing, Unlisted,
                    OnlyCalls, machine, gui
    <2>3. QED
        BY <2>1, <2>2, ShownSame
<1>3. CASE SendStroke
    BY <1>3, ShownTold DEF SendStroke, machine
<1>4. CASE Left
    <2>1. UNCHANGED <<curr_state, default_state>>
        BY <1>4 DEF Left, machine
    <2>2. CASE Last(calls).sent
        <3>1. Told /\ UNCHANGED active
            BY <1>4, <2>2 DEF Told, Left
        <3>2. QED
            BY <2>1, <3>1, ShownSame
    <2>3. CASE ~Last(calls).sent
        <3>1. active' = Shown
            BY <1>4, <2>3 DEF Left
        <3>2. QED
            BY <2>1, <3>1, ShownTold
    <2>4. QED
        BY <2>2, <2>3
<1>5. CASE Closed
    BY <1>5 DEF Closed, ShownOK
<1>6. CASE UNCHANGED vars
    BY <1>6 DEF vars, machine, gui, ShownOK, Shown
<1>7. QED
    BY <1>1, <1>2, <1>3, <1>4, <1>5, <1>6, ShownPushStroke, ShownEntered, ShownLeaves
       DEF Next, Inside

-----------------------------------------------------------------------------
(***************************************************************************)
(* What the invariant says of the machine.                                 *)
(***************************************************************************)

\* A handler that runs, or into which one will return, has its context.
LEMMA AliveFromInv == IInv => HandlerAlive
<1> SUFFICES ASSUME IInv, NEW i \in 1..Len(calls), calls[i].op = "handle"
             PROVE  calls[i].ctx.id \in live
    BY DEF HandlerAlive
<1>1. Discipline /\ ContextsPaired
    BY DEF IInv
<1>2. calls[i].ctx \in Kept
    <2>1. HandleOK(i)
        BY <1>1 DEF Discipline, FramesOK
    <2>2. QED
        BY <2>1 DEF HandleOK, Kept
<1>3. ~Forgetting
    <2> SUFFICES ASSUME Forgetting PROVE FALSE
        OBVIOUS
    <2>1. Running("close")
        BY DEF Forgetting
    <2>2. Len(calls) = 1 /\ calls[1].op = "close"
        BY <1>1, <2>1, CloseFacts
    <2>3. QED
        BY <2>2
<1>4. calls[i].ctx \in Contexts
    BY <1>1, <1>2, <1>3, ContextsWhole
<1>5. QED
    BY <1>1, <1>4 DEF ContextsPaired, Contexts

\* With no call under way the tool in use is the one asked for.
LEMMA AskedFromInv == IInv => ToolAskedFor
<1> SUFFICES ASSUME IInv, calls = <<>> PROVE ToolAskedFor
    BY DEF ToolAskedFor
<1>1. InUse
    BY DEF IInv, Discipline, BottomOK
<1>2. CASE asked = "none"
    BY <1>1, <1>2 DEF InUse, Empty, ToolAskedFor
<1>3. CASE asked # "none" /\ curr_state.state = asked /\ state_stack = <<>>
    BY <1>3 DEF ToolAskedFor
<1>4. CASE asked # "none" /\ Drawing /\ state_stack[1].state = asked
    <2>1. curr_state.state = "stroke"
        BY <1>4 DEF Drawing, Context
    <2>2. Len(state_stack) = 1
        BY <1>4 DEF Drawing
    <2>3. QED
        BY <1>4, <2>1, <2>2 DEF ToolAskedFor
<1>5. QED
    BY <1>1, <1>2, <1>3, <1>4 DEF InUse

\* The toolbox has its button down.
LEMMA ToolboxFromInv == IInv => ToolboxShows
<1> SUFFICES ASSUME IInv, calls = <<>>, default_state # None, curr_state.state # "stroke"
             PROVE  active = IF asked = "none" THEN "normal" ELSE asked
    BY DEF ToolboxShows
<1>1. active = Shown
    BY DEF IInv, ShownOK
<1>2. InUse /\ default_state.state = "normal"
    BY DEF IInv, Discipline, BottomOK, TypeOK, Context
<1>3. ~Drawing
    BY DEF Drawing, Context
<1>4. CASE asked = "none"
    <2>1. curr_state = None
        BY <1>2, <1>4 DEF InUse, Empty
    <2>2. QED
        BY <1>1, <1>2, <1>4, <2>1 DEF Shown
<1>5. CASE asked # "none"
    <2>1. curr_state.state = asked
        BY <1>2, <1>3, <1>5 DEF InUse
    <2>2. curr_state # None
        BY <1>5, <2>1 DEF None
    <2>3. QED
        BY <1>1, <1>5, <2>1, <2>2 DEF Shown
<1>6. QED
    BY <1>4, <1>5

\* A closed view has nothing left.
LEMMA GoneFromInv == IInv => ViewGone
<1> SUFFICES ASSUME IInv, calls = <<>>, ~listed
             PROVE  default_state = None /\ live = {}
    BY DEF ViewGone
<1>1. Discipline /\ ContextsPaired
    BY DEF IInv
<1>2. default_state = None /\ Empty
    BY <1>1 DEF Discipline, EndOK
<1>3. Contexts = Kept
    <2>1. ~Forgetting /\ \A i \in 1..Len(calls) : calls[i].op # "leave"
        BY DEF Forgetting, Running
    <2>2. QED
        BY <1>1, <2>1, ContextsKept
<1>4. Kept = {}
    BY <1>2, KeptByShape
<1>5. QED
    BY <1>1, <1>2, <1>3, <1>4 DEF ContextsPaired, Contexts

\* The step of StrokeHeard.
Heard ==
    Len(calls') > Len(calls) /\ Last(calls').op = "handle" /\ Last(calls').event = "stroke"
        => Last(calls').ctx.id = Last(calls).ctx.by

\* A step that calls something else, or nothing.
LEMMA HeardOther ==
    ASSUME Last(calls').op # "handle"
    PROVE  Heard
BY DEF Heard

\* The main loop calls no handler on a stroke.
LEMMA HeardOutside ==
    ASSUME Discipline, Outside
    PROVE  Heard
<1>1. CASE \E s \in Tools \cup {"normal"} : ToolClick(s)
    <2> PICK s \in Tools \cup {"normal"} : ToolClick(s)
        BY <1>1
    <2>1. calls' = <<Entering(s), Egressing>> \/ calls' = <<Entering(s)>>
        BY DEF ToolClick, EnterCalls
    <2>2. Entering(s).op = "enter" /\ Egressing.op = "egress"
        BY DEF Entering, Egressing
    <2>3. Last(calls') = Entering(s) \/ Last(calls') = Egressing
        BY <2>1 DEF Last
    <2>4. QED
        BY <2>2, <2>3, HeardOther
<1>2. CASE \E e \in Events : Event(e)
    <2> PICK e \in Events : Event(e)
        BY <1>2
    <2>1. calls = <<>> /\ calls' = Append(calls, Handling(Receiver, e))
        BY DEF Event, Idle, Call
    <2>2. Last(calls').event = e
        BY <2>1 DEF Last, Handling
    <2>3. QED
        BY <2>2 DEF Heard, Events
<1>3. CASE UpdateTools
    BY <1>3 DEF UpdateTools, Heard, Idle
<1>4. CASE Hide \/ Close
    <2>1. calls = <<>> /\ (calls' = Append(calls, Egressing) \/ calls' = <<Closing("list"), Egressing>>)
        BY <1>4 DEF Hide, Close, Idle, Call
    <2>2. Last(calls').op = "egress"
        BY <2>1 DEF Last, Egressing
    <2>3. QED
        BY <2>2 DEF Heard
<1>5. QED
    BY <1>1, <1>2, <1>3, <1>4 DEF Outside

\* A call that returns, or goes on with one in its place, makes none.
LEMMA HeardNoCall ==
    ASSUME Discipline, calls # <<>>, Return \/ (\E f \in Frame : GoOn(<<f>>))
    PROVE  Heard
<1>1. calls \in Seq(Frame)
    BY DEF Discipline, TypeOK
<1>2. CASE Return
    BY <1>1, <1>2, ReturnFacts DEF Heard
<1>3. CASE \E f \in Frame : GoOn(<<f>>)
    <2> PICK f \in Frame : GoOn(<<f>>)
        BY <1>3
    <2>1. Len(calls') = Len(calls) /\ Len(calls) \in Nat
        BY <1>1, GoOnFacts
    <2>2. QED
        BY <2>1 DEF Heard
<1>4. QED
    BY <1>2, <1>3

\* Handlers call, if anything, the default state's in their place.
LEMMA HeardHandlers ==
    ASSUME Discipline, Accept \/ HandledOK \/ PushStroke \/ StrokeDrag
    PROVE  Heard
<1>1. Running("handle") /\ calls # <<>>
    BY DEF Accept, HandledOK, PushStroke, StrokeDrag, Handles, Running
<1>2. CASE Return
    BY <1>1, <1>2, HeardNoCall
<1>3. CASE ~Return
    <2> DEFINE new == Handling(default_state, Last(calls).event)
    <2>1. GoOn(<<new>>)
        BY <1>3 DEF Accept, HandledOK, PushStroke, StrokeDrag
    <2>2. new \in Frame
        <3>1. default_state # None /\ Last(calls).event \in Events \cup {"stroke"}
            BY <1>1, HandlerFacts
        <3>2. default_state \in Context(Tools \cup {"normal", "stroke"})
            BY <3>1 DEF Discipline, TypeOK, Context
        <3>3. QED
            BY <3>1, <3>2 DEF Frame, Handling
    <2> HIDE DEF new
    <2>3. QED
        BY <1>1, <2>1, <2>2, HeardNoCall
<1>4. QED
    BY <1>2, <1>3

\* A state that is thrown is entered, and calls no handler before it is.
LEMMA HeardThrown ==
    ASSUME Discipline, ThrowState
    PROVE  Heard
<1>1. calls # <<>> /\ calls \in Seq(Frame) /\ GoOn(EnterCalls("normal"))
    BY TopFacts DEF ThrowState, Handles, Running
<1> DEFINE f == Entering("normal")
<1> DEFINE g == Egressing
<1>2. GoOn(<<f, g>>) \/ GoOn(<<f>>)
    BY <1>1 DEF EnterCalls
<1>3. f \in Frame /\ g \in Frame /\ f.op # "handle" /\ g.op # "handle"
    BY DEF Frame, Entering, Egressing
<1> HIDE DEF f, g
<1>4. Last(calls').op # "handle"
    BY <1>1, <1>2, <1>3, GoOnFacts, GoOnTwiceFacts
<1>5. QED
    BY <1>4, HeardOther

\* The destructor of a stroke calls the handler of the tool that pushed it.
LEMMA HeardSendStroke ==
    ASSUME Discipline, SendStroke
    PROVE  Heard
<1> DEFINE sent == LeavingSent(Last(calls).ctx)
<1> DEFINE sending == Handling(Receiver, "stroke")
<1>1. /\ calls # <<>> /\ Last(calls).op = "leave" /\ Last(calls).ctx.state = "stroke"
      /\ GoOn(<<sent, sending>>)
    BY DEF SendStroke, Running, HasStroke
<1>2. /\ Last(calls) = calls[Len(calls)] /\ Last(calls) \in Frame /\ calls \in Seq(Frame)
    BY <1>1, TopFacts
<1>3. Single /\ Last(calls).ctx.by = curr_state.id
    BY <1>1, <1>2, DisciplineTop DEF LeaveOK
<1>4. Receiver = curr_state
    BY <1>3 DEF Receiver, Single, Context, None
<1>5. sent \in Frame /\ sending \in Frame
    <2>1. Last(calls).ctx \in Context(Tools \cup {"normal", "stroke"})
        BY <1>1, <1>2 DEF Frame
    <2>2. QED
        BY <1>3, <1>4, <2>1 DEF Frame, LeavingSent, Handling, Single, Context
<1>6. Last(calls') = sending
    <2> HIDE DEF sent, sending
    <2>1. QED
        BY <1>1, <1>2, <1>5, GoOnTwiceFacts
<1>7. Last(calls').ctx.id = curr_state.id
    BY <1>4, <1>6 DEF Handling
<1>8. QED
    BY <1>3, <1>7 DEF Heard

\* Contexts that are left, and what is left of a transition, are no handlers.
LEMMA HeardLeaves ==
    ASSUME Discipline, ThrowPop \/ EgressPop \/ EgressLast \/ LeaveDefault
    PROVE  Heard
<1>1. \E c : calls' # <<>> /\ Last(calls') = Leaving(c)
    BY LeavesLast
<1>2. QED
    BY <1>1, HeardOther DEF Leaving

\* What is left of the transitions.
LEMMA HeardRest ==
    ASSUME Discipline, Left \/ EgressNothing \/ Entered \/ Unlisted \/ Closed
    PROVE  Heard
<1>1. calls # <<>> /\ calls \in Seq(Frame)
    <2>1. calls # <<>>
        BY DEF Left, EgressNothing, Entered, Unlisted, Closed, Running
    <2>2. QED
        BY <2>1, TopFacts
<1>2. CASE Return
    BY <1>1, <1>2, HeardNoCall
<1>3. CASE ~Return
    <2> DEFINE f == Closing("default")
    <2> DEFINE g == Egressing
    <2>1. GoOn(<<f, g>>)
        BY <1>3 DEF Left, EgressNothing, Entered, Unlisted, Closed
    <2>2. f \in Frame /\ g \in Frame /\ g.op # "handle"
        BY DEF Frame, Closing, Egressing
    <2> HIDE DEF f, g
    <2>3. Last(calls').op # "handle"
        BY <1>1, <2>1, <2>2, GoOnTwiceFacts
    <2>4. QED
        BY <2>3, HeardOther
<1>4. QED
    BY <1>2, <1>3

\* One of the lemmas above for each step.
LEMMA HeardNext ==
    ASSUME Discipline, [Next]_vars
    PROVE  Heard
<1>1. CASE UNCHANGED vars
    <2>1. calls' = calls /\ calls \in Seq(Frame)
        BY <1>1 DEF vars, Discipline, TypeOK
    <2>2. Len(calls') = Len(calls) /\ Len(calls) \in Nat
        BY <2>1
    <2>3. QED
        BY <2>2 DEF Heard
<1>2. CASE Next
    BY <1>2, HeardOutside, HeardHandlers, HeardThrown, HeardSendStroke, HeardLeaves, HeardRest
       DEF Next, Inside
<1>3. QED
    BY <1>1, <1>2

-----------------------------------------------------------------------------
(***************************************************************************)
(* The theorems.                                                           *)
(***************************************************************************)

\* Whatever the user does, and whatever calls are under way, each call has what
\* it counts on, the contexts are those the machine knows of, and the toolbox
\* has been told what it should show: the inductive invariant.
THEOREM Invariance == Spec => []IInv
<1>1. Init => IInv
    BY DisciplineInit, IdsInit, ShownInit DEF IInv, IdsOK
<1>2. IInv /\ [Next]_vars => IInv'
    BY DisciplineNext, IdsNext, ShownNext DEF IInv, IdsOK
<1>3. QED
    BY <1>1, <1>2, PTL DEF Spec

\* enter_context and leave_context of the machine come in pairs: a context is
\* deleted once, and none is lost, on whatever path it is left.
THEOREM ContextsArePaired == Spec => []ContextsPaired
<1>1. IInv => ContextsPaired
    BY DEF IInv
<1>2. QED
    BY <1>1, Invariance, PTL

\* process_event never calls a handler of a context that a transition has
\* deleted, nor returns to one.
THEOREM HandlersAlive == Spec => []HandlerAlive
BY AliveFromInv, Invariance, PTL

\* When all calls have returned the user has the tool that was asked for.
THEOREM ToolsAskedFor == Spec => []ToolAskedFor
BY AskedFromInv, Invariance, PTL

\* When all calls have returned the toolbox has the right button down.
THEOREM ToolboxIsRight == Spec => []ToolboxShows
BY ToolboxFromInv, Invariance, PTL

\* When the document has let a view go, it is destroyed with all its contexts.
THEOREM ViewsGo == Spec => []ViewGone
BY GoneFromInv, Invariance, PTL

\* A stroke reaches the tool that pushed the stroke state.
THEOREM StrokesAreHeard == Spec => StrokeHeard
<1>1. IInv /\ [Next]_vars => [Heard]_vars
    BY HeardNext DEF IInv
<1>2. Spec => [][Heard]_vars
    BY <1>1, Invariance, PTL DEF Spec
<1>3. QED
    BY <1>2 DEF StrokeHeard, Heard

===============================================================================
