---------------------------- MODULE AuthzLimiter ----------------------------
(***************************************************************************)
(* The ante decorator of app/ante/authz.go that keeps the disabled message *)
(* types out of the authz module: a MsgExec runs other messages, itself    *)
(* included, and a MsgGrant lets a grantee run a message type.             *)
(*                                                                         *)
(* A transaction is any forest of messages with at most MaxNodes nodes. It *)
(* is put together from its end: Message appends a leaf, Exec wraps the    *)
(* last k messages in a MsgExec. A leaf is a message or a grant of an      *)
(* enabled or a disabled type, or one whose content cannot be unpacked.    *)
(***************************************************************************)
EXTENDS Integers, Sequences, SequencesExt

CONSTANTS MaxNestedMsgs,  \* maxNestedMsgs, 6 in the code
          MaxNodes        \* bound: messages of a transaction

ASSUME AuthzAssumption == MaxNestedMsgs \in Nat \ {0} /\ MaxNodes \in Nat

VARIABLES msgs,     \* tx.GetMsgs()
          verdict   \* of AnteHandle: "none" before it, "next" or "refused" after

vars == <<msgs, verdict>>

Leaves == {[kind |-> k, disabled |-> d] : k \in {"msg", "grant"}, d \in BOOLEAN}
            \cup {[kind |-> "broken"]}

IsExec(m) == m.kind = "exec"

RECURSIVE Nodes(_)
Nodes(ms) == FoldLeft(LAMBDA n, m : n + 1 + IF IsExec(m) THEN Nodes(m.inner) ELSE 0, 0, ms)

RECURSIVE Check(_, _, _), ForgetsInner(_, _, _), CountsLeaves(_, _, _)

\* Mutant: the messages of a MsgExec are looked at as those of a transaction are.
ForgetsInner(ms, inner, nested) ==
  /\ nested < MaxNestedMsgs
  /\ \A i \in DOMAIN ms :
       CASE ms[i].kind = "exec" ->
              ForgetsInner(ms[i].inner, FALSE, nested + Len(SelectSeq(SubSeq(ms, 1, i), IsExec)))
         [] ms[i].kind = "grant" -> ~ms[i].disabled
         [] ms[i].kind = "msg" -> ~(inner /\ ms[i].disabled)
         [] OTHER -> FALSE

\* Mutant: every message counts, not only a MsgExec.
CountsLeaves(ms, inner, nested) ==
  /\ nested < MaxNestedMsgs
  /\ \A i \in DOMAIN ms :
       CASE ms[i].kind = "exec" -> CountsLeaves(ms[i].inner, TRUE, nested + i)
         [] ms[i].kind = "grant" -> ~ms[i].disabled
         [] ms[i].kind = "msg" -> ~(inner /\ ms[i].disabled)
         [] OTHER -> FALSE

\* checkDisabledMsgs returns no error. The count that a MsgExec hands to its
\* messages holds the MsgExecs before it in its own list and in those around it.
Check(ms, inner, nested) ==
  /\ nested < MaxNestedMsgs
  /\ \A i \in DOMAIN ms :
       CASE ms[i].kind = "exec" ->
              Check(ms[i].inner, TRUE, nested + Len(SelectSeq(SubSeq(ms, 1, i), IsExec)))
         [] ms[i].kind = "grant" -> ~ms[i].disabled
         [] ms[i].kind = "msg" -> ~(inner /\ ms[i].disabled)
         [] OTHER -> FALSE

-----------------------------------------------------------------------------
Init == msgs = << >> /\ verdict = "none"

Message ==
  /\ verdict = "none" /\ Nodes(msgs) < MaxNodes
  /\ \E m \in Leaves : msgs' = Append(msgs, m)
  /\ UNCHANGED verdict

Exec ==
  /\ verdict = "none" /\ Nodes(msgs) < MaxNodes
  /\ \E k \in 0 .. Len(msgs) - 1 :
       msgs' = SubSeq(msgs, 1, k) \o <<[kind |-> "exec", inner |-> SubSeq(msgs, k + 1, Len(msgs))]>>
  /\ UNCHANGED verdict

AnteHandle ==
  /\ verdict = "none" /\ msgs # << >>
  /\ verdict' = IF Check(msgs, FALSE, 0) THEN "next" ELSE "refused"
  /\ UNCHANGED msgs

\* The decorator keeps nothing between two transactions.
NextTx == verdict # "none" /\ msgs' = << >> /\ verdict' = "none"

Next == Message \/ Exec \/ AnteHandle \/ NextTx

Spec == Init /\ [][Next]_vars

-----------------------------------------------------------------------------
\* The messages of a transaction that run inside a MsgExec, at any depth.
RECURSIVE Everything(_)
Everything(ms) ==
  UNION {{ms[i]} \cup (IF IsExec(ms[i]) THEN Everything(ms[i].inner) ELSE {}) : i \in DOMAIN ms}

Inside(ms) == UNION {IF IsExec(ms[i]) THEN Everything(ms[i].inner) ELSE {} : i \in DOMAIN ms}

RECURSIVE Execs(_), Depth(_)
Execs(ms) == FoldLeft(LAMBDA n, m : n + IF IsExec(m) THEN 1 + Execs(m.inner) ELSE 0, 0, ms)

Depth(ms) ==
  FoldLeft(LAMBDA n, m : IF IsExec(m) /\ 1 + Depth(m.inner) > n THEN 1 + Depth(m.inner) ELSE n, 0, ms)

\* A transaction the decorator lets through grants no disabled type, and runs
\* none inside a MsgExec however deep it is wrapped and whatever stands before it
\* (AuthzLimiterDecorator, authz.go:30).  MsgExecs are never nested as deep as
\* the limit, and those side by side count as well (checkDisabledMsgs, authz.go:61).
PassedIsAllowed ==
  verdict = "next" =>
    /\ ~\E m \in Inside(msgs) : m.kind = "msg" /\ m.disabled
    /\ ~\E m \in Everything(msgs) : m.kind = "broken" \/ (m.kind = "grant" /\ m.disabled)
    /\ Depth(msgs) < MaxNestedMsgs /\ Len(SelectSeq(msgs, IsExec)) < MaxNestedMsgs

\* A transaction is refused for a reason: something disabled or unreadable in it,
\* or as many MsgExecs as the limit. Other messages never use the limit up.
RefusedForCause ==
  verdict = "refused" =>
    \/ \E m \in Everything(msgs) : m.kind = "broken" \/ (m.kind \in {"msg", "grant"} /\ m.disabled)
    \/ Execs(msgs) >= MaxNestedMsgs
=============================================================================
