--------------------------- MODULE MCCtap2Session ---------------------------
(***************************************************************************)
(* Model checking of Ctap2Session together with the bytes its commands     *)
(* come from and its answers go out as.  Relying parties only meet in      *)
(* equality, and the run checks no liveness: permuting them is sound.      *)
(***************************************************************************)
EXTENDS Ctap2Session, CtapHost

Symmetry == Permutations(Rps)

-----------------------------------------------------------------------------
\* What the handlers of Ctap2Session are given when a host asks with these ids.
Named(list) == [k \in DOMAIN list |-> <<list[k]>>]
Ask(ids) == [rp |-> Str(1), hash |-> Str(HashLen), user |-> Str(1), algs |-> <<Es256>>, rk |-> TRUE,
             exclude |-> ids, up |-> <<>>, allow |-> ids]
HostLists == {s \in UNION {[1 .. n -> Ids] : n \in 0 .. MaxAllowList + 1} : IsInjective(s)}

ParsedAllowLists == {ParseGetAssertion(Wire(GetAssertionMembers(Ask(Named(s))))).out.allow : s \in HostLists}
ParsedExcludes == {ParseMakeCredential(Wire(MakeCredentialMembers(Ask(Named(s))))).out.id : s \in HostLists}

InputsAreParsed ==
    /\ ParsedAllowLists = {Named(s) : s \in AllowLists}
    /\ ParsedExcludes = {<<>>} \cup {<<id>> : id \in Ids}

(* A request means to the handlers what the host meant, in whatever order   *)
(* its members come, with members of later versions and of every kind among *)
(* them and with values at both ends of every size; one that is cut short   *)
(* anywhere, lacks a member or breaks a size is refused, and none leads a   *)
(* parser out of its buffer.  The lists and ids Ctap2Session enumerates as  *)
(* inputs are those that come out of the parsers.  (This is about no        *)
(* state, so one state is enough to look at it in.)                         *)
RequestsAreUnderstood == Init => RequestsUnderstood /\ InputsAreParsed

(* Every answer fits the response buffer with the longest names a record    *)
(* holds and decodes as exactly one canonical item, "or Chrome's strict     *)
(* response parser rejects the assertion" (Ctap2.cpp:1704); in a buffer     *)
(* that is too small it is an error and never a piece of an answer.  The    *)
(* credential id and the key handle of a registration come back unchanged   *)
(* in a later request.                                                      *)
AnswersAreCanonical == Init => AnswersDecoded
=============================================================================
