------------------------------ MODULE L4Registry ------------------------------
(****************************************************************************)
(* The L4 tool registry and its dispatchers (src/l4_exec.rs and              *)
(* src/l4_registry.rs): operations pin the signature of a tool, the registry *)
(* churns, and the call is placed later, by one of three dispatchers.        *)
(*                                                                          *)
(* A registry is owned mutably while it churns and borrowed by pin and       *)
(* dispatch, so a call is one step.  dispatch does not consume the pin.      *)
(* since and last are history: what the tool was bound to after the pin, and *)
(* what the latest dispatch of the operation did.                            *)
(****************************************************************************)
CONSTANTS
    Tool,       \* indices below sigs.len(); churn of any other is refused
    Sig,
    Revoked,    \* None in sigs
    Op          \* operations

ASSUME L4Assumption == Revoked \notin Sig

VARIABLES
    sigs,       \* sigs[t]: t's live signature
    pin,        \* pin[o]: set with o's pinned [tool, sig], empty before the pin
    snapshot,   \* snapshot[o]: the registry as o's pin saw it
    since,      \* since[o]: bindings given to o's tool since the pin
    last        \* last[o]: set with the outcome of o's latest dispatch

l4Vars == << sigs, pin, snapshot, since, last >>

Mode == {"LiveResolve", "SnapshotResolve", "Validated"}

L4Init ==
    /\ sigs \in [Tool -> Sig]
    /\ pin = [o \in Op |-> {}]
    /\ snapshot = [o \in Op |-> sigs]
    /\ since = [o \in Op |-> {}]
    /\ last = [o \in Op |-> {}]

Rebind(t, b) ==
    /\ sigs' = [sigs EXCEPT ![t] = b]
    /\ since' = [o \in Op |-> IF \E p \in pin[o] : p.tool = t
                              THEN since[o] \cup {b} ELSE since[o]]
    /\ UNCHANGED << pin, snapshot, last >>

\* The new signature may be the old one, or one the tool had before.
Resign(t, s) == Rebind(t, s)

Revoke(t) == Rebind(t, Revoked)

Pin(o, t) ==
    /\ pin[o] = {}
    /\ sigs[t] # Revoked
    /\ pin' = [pin EXCEPT ![o] = {[tool |-> t, sig |-> sigs[t]]}]
    /\ snapshot' = [snapshot EXCEPT ![o] = sigs]
    /\ UNCHANGED << sigs, since, last >>

\* a2_at_dispatch: the call reaches a tool whose live binding is not the pin's.
PhantomAtDispatch(p) == sigs[p.tool] # p.sig

PlacesAnyLive(p, mode) == mode # "Validated" \/ sigs[p.tool] # Revoked

PlacesChangedOnly(p, mode) == mode # "Validated" \/ sigs[p.tool] # p.sig

\* The unvalidated dispatchers always place the call, the validated one when
\* the live signature is the pinned one.
Places(p, mode) == mode # "Validated" \/ sigs[p.tool] = p.sig

Resolved(o, p, mode) ==
    IF mode = "SnapshotResolve" THEN snapshot[o][p.tool] ELSE sigs[p.tool]

DispatchPinned(o, mode) ==
    \E p \in pin[o] :
        /\ last' = [last EXCEPT ![o] =
              {[mode |-> mode,
                hazard |-> PhantomAtDispatch(p),
                placed |-> Places(p, mode),
                phantom |-> Places(p, mode) /\ PhantomAtDispatch(p),
                resolvedPinned |-> Resolved(o, p, mode) = p.sig,
                sig |-> p.sig,
                churn |-> since[o]]}]
        /\ UNCHANGED << sigs, pin, snapshot, since >>

L4Next ==
    \/ \E t \in Tool, s \in Sig : Resign(t, s)
    \/ \E t \in Tool : Revoke(t)
    \/ \E o \in Op, t \in Tool : Pin(o, t)
    \/ \E o \in Op, mode \in Mode : DispatchPinned(o, mode)

L4Spec == L4Init /\ [][L4Next]_l4Vars

-----------------------------------------------------------------------------
Outcome == [mode : Mode, hazard : BOOLEAN, placed : BOOLEAN, phantom : BOOLEAN,
            resolvedPinned : BOOLEAN, sig : Sig,
            churn : SUBSET (Sig \cup {Revoked})]

\* Bindings, pins and outcomes are over the registry's tools and signatures.
L4TypeOK ==
    /\ sigs \in [Tool -> Sig \cup {Revoked}]
    /\ pin \in [Op -> SUBSET [tool : Tool, sig : Sig]]
    /\ since \in [Op -> SUBSET (Sig \cup {Revoked})]
    /\ last \in [Op -> SUBSET Outcome]

\* An operation has one pin, and history from its pin on.
PinnedOnce ==
    \A o \in Op : /\ \A p, q \in pin[o] : p = q
                  /\ pin[o] = {} => since[o] = {}

\* A tool not rebound since the pin still has the pinned signature, and a tool
\* that has it again was rebound to it.
LiveBindingExplained ==
    \A o \in Op : \A p \in pin[o] :
        /\ since[o] = {} => sigs[p.tool] = p.sig
        /\ sigs[p.tool] = p.sig => since[o] = {} \/ p.sig \in since[o]

\* A validated call is placed only on a tool nobody rebound since the plan, or
\* one that was rebound to the very signature of the plan.
ValidatedCallsLand ==
    \A o \in Op : \A d \in last[o] :
        d.mode = "Validated" /\ d.placed =>
            ~ d.phantom /\ (d.churn = {} \/ d.sig \in d.churn)

\* A refusal, and a phantom of any dispatcher, has churn behind it: the
\* runtime never aborts an operation whose tool was left alone.
RefusalsHaveChurn ==
    \A o \in Op : \A d \in last[o] :
        ~ d.placed \/ d.phantom => d.churn # {}

\* What dispatch is documented to guarantee: no call reaches a tool that was
\* "missing, revoked, or re-signed since the operation pinned" it.  Re-signing
\* with the signature the tool already has is not held against the code.
NoCallAfterChange ==
    \A o \in Op : \A d \in last[o] :
        d.mode = "Validated" /\ d.placed => d.churn \subseteq {d.sig}

\* The type, the history and both properties as one inductive invariant.
L4Inv ==
    /\ L4TypeOK
    /\ PinnedOnce
    /\ LiveBindingExplained
    /\ ValidatedCallsLand
    /\ RefusalsHaveChurn

=============================================================================
