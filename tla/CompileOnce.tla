----------------------------- MODULE CompileOnce -----------------------------
(***************************************************************************)
(* What CompileURL promises its callers, with no flights and no steps: one  *)
(* schema per URI is published at most once, by a call that asked for it,   *)
(* and stays; a call returns the published schema, or returns without one   *)
(* if no call that had already returned had one; every call returns.        *)
(***************************************************************************)
CONSTANTS Call, URI, None

VARIABLES memo,     \* URI -> the schema published for it (named by its call)
          arg,      \* Call -> the URI it asked for, None before it is called
          earlier,  \* Call -> the calls that had returned when it was called
          result    \* Call -> what it returned, None before it returns

vars == <<memo, arg, earlier, result>>
NoSchema == {"failed", "panicked", "nil"}

Init ==
    /\ memo = [u \in URI |-> None]
    /\ arg = [c \in Call |-> None]
    /\ earlier = [c \in Call |-> {}]
    /\ result = [c \in Call |-> None]

Pending(c) == arg[c] # None /\ result[c] = None

Begin(c, u) ==
    /\ arg[c] = None
    /\ arg' = [arg EXCEPT ![c] = u]
    /\ earlier' = [earlier EXCEPT ![c] = {d \in Call : result[d] # None}]
    /\ UNCHANGED <<memo, result>>

Publish(c) ==
    /\ Pending(c)
    /\ memo[arg[c]] = None
    /\ memo' = [memo EXCEPT ![arg[c]] = c]
    /\ UNCHANGED <<arg, earlier, result>>

ReturnSchema(c) ==
    /\ Pending(c)
    /\ memo[arg[c]] # None
    /\ result' = [result EXCEPT ![c] = memo[arg[c]]]
    /\ UNCHANGED <<memo, arg, earlier>>

ReturnNothing(c) ==
    /\ Pending(c)
    /\ \A d \in earlier[c] : arg[d] = arg[c] => result[d] \in NoSchema
    /\ \E r \in NoSchema : result' = [result EXCEPT ![c] = r]
    /\ UNCHANGED <<memo, arg, earlier>>

Return(c) == ReturnSchema(c) \/ ReturnNothing(c)

Next ==
    \E c \in Call : (\E u \in URI : Begin(c, u)) \/ Publish(c) \/ Return(c)

Safety == Init /\ [][Next]_vars
Spec == Safety /\ \A c \in Call : WF_vars(Return(c))
=============================================================================
