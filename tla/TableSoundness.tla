--------------------------- MODULE TableSoundness ---------------------------
(***************************************************************************)
(* What a generated parser relies on in its tables.  A table is a record   *)
(*   states     the state numbers, 0 the initial one                       *)
(*   actions    [state -> [terminal -> [kind, state, rule]]], partial      *)
(*   gotos      [state -> [nonterminal -> state]], partial                 *)
(*   rules      [rule ID -> [lhs, rhs, hook]], rule 0 the internal start   *)
(*   items      [state -> its items <<rule ID, dot>>] (Table.States)       *)
(*   terminals  the grammar's own terminals                                *)
(* and in sound tables the items of a state explain its actions, its gotos *)
(* and the states it can be entered from.                                  *)
(***************************************************************************)
EXTENDS Integers, Sequences

EOF   == "$"      \* the internal terminal of the end of input
Error == "error"  \* the reserved terminal of recovery alternatives

RhsOf(T, item) == T.rules[item[1]].rhs

\* Entering state t from state s on symbol x moves the dot of each item over x.
Explains(T, s, x, t) ==
  \A item \in T.items[t] :
    item[2] > 0 => /\ RhsOf(T, item)[item[2]] = x
                   /\ <<item[1], item[2] - 1>> \in T.items[s]

\* States that are entered, unlike the initial one.
Entered(T) == T.states \ {0}

SoundShift(T, s, t, a)  == t # EOF /\ a.state \in Entered(T) /\ Explains(T, s, t, a.state)
SoundReduce(T, s, a)    == /\ a.rule \in DOMAIN T.rules \ {0}
                           /\ <<a.rule, Len(T.rules[a.rule].rhs)>> \in T.items[s]
SoundAccept(T, s, t)    == t = EOF /\ <<0, 1>> \in T.items[s]
SoundAction(T, s, t, a) ==
  \/ a.kind = "shift"  /\ SoundShift(T, s, t, a)
  \/ a.kind = "reduce" /\ SoundReduce(T, s, a)
  \/ a.kind = "accept" /\ SoundAccept(T, s, t)

SoundItem(T, s, item) ==
  /\ item[1] \in DOMAIN T.rules /\ item[2] \in 0..Len(RhsOf(T, item))
  /\ s = 0 => item[2] = 0
  /\ item[1] = 0 /\ item[2] = 0 => s = 0
  /\ item[2] = 0 /\ item[1] # 0 => T.rules[item[1]].lhs \in DOMAIN T.gotos[s]

SoundTables(T) ==
  /\ 0 \in T.states /\ T.states \subseteq Nat
  /\ T.terminals \subseteq STRING \ {EOF, Error}
  /\ (\E n \in Nat \cap DOMAIN T.rules : DOMAIN T.rules = 0..n) /\ Len(T.rules[0].rhs) = 1
  /\ \A r \in DOMAIN T.rules : /\ T.rules[r].rhs \in Seq(STRING)
                              /\ T.rules[r].lhs \in STRING \ (T.terminals \cup {EOF, Error})
  /\ \A s \in T.states :
       /\ \A item \in T.items[s] : SoundItem(T, s, item)
       /\ \A t \in DOMAIN T.actions[s] : SoundAction(T, s, t, T.actions[s][t])
       /\ \A x \in DOMAIN T.gotos[s] :
            T.gotos[s][x] \in Entered(T) /\ Explains(T, s, x, T.gotos[s][x])

=============================================================================
