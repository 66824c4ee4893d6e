----------------------------- MODULE EHDecoder -----------------------------
(***************************************************************************)
(* The unwind-metadata decoder (the LSDA call-site table lookup of         *)
(* dwarf::eh::find_eh_action).  That file is not part of the sources kept  *)
(* here, so these operators follow section 4.2 of the design: a point not  *)
(* covered by a call-site record, or a record without a landing pad, is    *)
(* None; a landing pad with no action-chain entry is Cleanup; a populated  *)
(* action entry is a Catch; an out-of-range landing pad or action index is *)
(* Terminate.                                                              *)
(*                                                                         *)
(* An LSDA is a record                                                     *)
(*   [fnlen: length of the function, nactions: length of the action table, *)
(*    nsites: number of call-site records the table header declares,      *)
(*    sites: <<[start, len, lpad, action], ...>>, the records in the blob] *)
(* with offsets relative to the function start; lpad = 0 means "no landing *)
(* pad" and action = 0 means "no action-chain entry".  A header that       *)
(* declares more records than the blob holds makes the scan read past its  *)
(* end: a decode failure (Err), not an EHAction.                           *)
(***************************************************************************)
EXTENDS Integers, Sequences, SequencesExt

\* The four EHAction variants; only Cleanup and Catch carry an address.
NoAction        == [kind |-> "None", lpad |-> 0]
CleanupAt(a)    == [kind |-> "Cleanup", lpad |-> a]
CatchAt(a)      == [kind |-> "Catch", lpad |-> a]
TerminateAction == [kind |-> "Terminate", lpad |-> 0]

EHActionKinds == {"None", "Cleanup", "Catch", "Terminate"}

\* The Err(()) result of a decode failure.
DecodeFailure   == [kind |-> "Err", lpad |-> 0]

\* A call-site record covers the half-open range [start, start + len).
Covers(cs, p) == cs.start <= p /\ p < cs.start + cs.len

\* Linear scan of the ordered call-site table: index of the first record
\* covering p, 0 if none does.
CallSiteIndex(lsda, p) == SelectInSeq(lsda.sites, LAMBDA cs : Covers(cs, p))

\* Offsets that would be read past the end of the metadata.
Malformed(lsda, cs) == cs.lpad >= lsda.fnlen \/ cs.action > lsda.nactions

\* The action of one call-site record; landing pads are relative to the
\* landing-pad base, which defaults to the function start.
SiteAction(lsda, cs, lpadBase) ==
    CASE cs.lpad = 0           -> NoAction
      [] Malformed(lsda, cs)   -> TerminateAction
      [] cs.action = 0         -> CleanupAt(lpadBase + cs.lpad)
      [] OTHER                 -> CatchAt(lpadBase + cs.lpad)

\* find_eh_action(lsda, context): the action for instruction pointer ip in
\* the function starting at funcStart.  The scan reads the declared records
\* in order; past the records the blob holds it fails.
FindEHAction(lsda, ip, funcStart) ==
    LET i == CallSiteIndex(lsda, ip - funcStart)
    IN  CASE i > 0                        -> SiteAction(lsda, lsda.sites[i], funcStart)
          [] lsda.nsites > Len(lsda.sites) -> DecodeFailure
          [] OTHER                        -> NoAction

=============================================================================
