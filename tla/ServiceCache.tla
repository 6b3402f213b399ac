----------------------------- MODULE ServiceCache -----------------------------
(***************************************************************************)
(* What ServiceCache.DoScan (src/scamp/servicecache.go) makes of a cache    *)
(* file.  A file is a sequence of announcements, written out line by line;  *)
(* a line is known by what it is and by the announcement it is of.  Kinds   *)
(* of announcements:                                                        *)
(*   good       as MarshalText writes it                                    *)
(*   invalid    its signature is one of something else                      *)
(*   cut        the last row of its signature is missing                    *)
(*   nocert     no certificate before the next empty line                   *)
(*   nosig      no signature after the certificate                          *)
(*   nogap      no empty line after the record                              *)
(*   malformed  a record for which newServiceProxy returns an error         *)
(*   blank      no record: an empty line follows the separator              *)
(* (A list of fewer than eight fields makes newServiceProxy panic instead,  *)
(* and a line of more than 64 KiB ends the scan; both are left out.)        *)
(* runOn says that no empty line stands between the announcement and the    *)
(* separator of the next.                                                   *)
(***************************************************************************)
EXTENDS Naturals, Sequences, FiniteSets, SequencesExt

CONSTANTS
  Idents,    \* idents of services
  Names,     \* sector:class.action~version#protocol, as announced and asked for
  Actions,   \* the same in lower case, as mungedName spells it
  ToLower,   \* [Names -> Actions]
  Addrs,     \* connspecs
  SigLen,    \* characters of a signature
  RowLen     \* characters in a row of it: the 76 of stringToRows

ASSUME SignatureAssumption == RowLen \in Nat \ {0} /\ SigLen \in Nat /\ SigLen > RowLen
ASSUME NamesAssumption == ToLower \in [Names -> Actions] /\ IsFiniteSet(Names)

Kinds == {"good", "invalid", "cut", "nocert", "nosig", "nogap", "malformed", "blank"}

Announcement ==
  [ident : Idents, provides : SUBSET Names, addr : Addrs, kind : Kinds, runOn : BOOLEAN]

-----------------------------------------------------------------------------
(* The lines of a file *)

Line(is, p) == [is |-> is, of |-> p, row |-> <<0, 0>>]
Sep == Line("sep", 0)
Empty == Line("empty", 0)

(* The rows of a string of n characters, each with its first and its last:  *)
(* all rows are full but the last, which is never empty.                    *)
StringToRows(n) ==
  [k \in 1..((n + RowLen - 1) \div RowLen) |->
     <<(k - 1) * RowLen + 1, IF k * RowLen <= n THEN k * RowLen ELSE n>>]

SigRows(p) == [k \in DOMAIN StringToRows(SigLen) |->
                 [is |-> "sig", of |-> p, row |-> StringToRows(SigLen)[k]]]
Cert(p) == <<Line("cert", p), Line("cert", p)>>

(* Mutant of MarshalText: the empty line at the end is left out.            *)
MarshalTextUnended(p) ==
  <<Line("record", p), Empty>> \o Cert(p) \o <<Empty>> \o SigRows(p)

(* An announcement as a service writes it.                                  *)
MarshalText(p) ==
  <<Line("record", p), Empty>> \o Cert(p) \o <<Empty>> \o SigRows(p) \o <<Empty>>

(* The lines of announcement p.  What is not good was not written by        *)
(* MarshalText, or not to its end, or was changed since.                    *)
Body(rec, p) ==
  CASE rec.kind \in {"good", "invalid", "malformed"} -> MarshalText(p)
    [] rec.kind = "cut"    -> Front(Front(MarshalText(p))) \o <<Empty>>
    [] rec.kind = "nocert" -> <<Line("record", p), Empty, Empty>> \o SigRows(p) \o <<Empty>>
    [] rec.kind = "nosig"  -> <<Line("record", p), Empty>> \o Cert(p) \o <<Empty, Empty>>
    [] rec.kind = "nogap"  -> <<Line("record", p)>> \o Tail(Tail(MarshalText(p)))
    [] rec.kind = "blank"  -> <<Empty>> \o MarshalText(p)

AddLines(lines, recs, p) ==
  lines \o <<Sep>> \o (IF recs[p].runOn THEN Front(Body(recs[p], p)) ELSE Body(recs[p], p))

Text(recs) ==
  LET text[p \in 0..Len(recs)] == IF p = 0 THEN <<>> ELSE AddLines(text[p - 1], recs, p)
  IN  text[Len(recs)]

-----------------------------------------------------------------------------
(* The scan.  A proxy is named by its position in the file, 0 is no proxy.  *)

(* newServiceProxy succeeds on the record.                                  *)
Parses(recs, line) == line.is = "record" /\ recs[line.of].kind # "malformed"

(* Validate: the certificate can be decoded and the signature is one of     *)
(* this record.                                                             *)
Validate(recs, p, cert, sig) ==
  cert = Cert(p) /\ sig = SigRows(p) /\ recs[p].kind # "invalid"

(* Where the loop is: before a separator (slop), at the record, at the      *)
(* empty line after it (gap), in the certificate or in the signature; ended *)
(* by an empty record, or failed with an error.                             *)
Cleared ==
  [identIndex  |-> [i \in Idents |-> 0],
   actionIndex |-> [a \in Actions |-> <<>>],
   at |-> "slop", record |-> Empty, cert |-> <<>>, sig |-> <<>>]

(* Mutant of StoreNoLock: the munged name lacks the action, so that every   *)
(* name of an announcement is filed under all of them.                      *)
StoreNoLockBySector(cache, recs, p) ==
  [cache EXCEPT
     !.identIndex[recs[p].ident] = p,
     !.actionIndex = [a \in Actions |->
        @[a] \o [k \in 1..Cardinality(recs[p].provides) |-> p]]]

(* The last announcement of an ident wins in identIndex; actionIndex keeps  *)
(* all of them, once for every name that reads the same in lower case.      *)
StoreNoLock(cache, recs, p) ==
  [cache EXCEPT
     !.identIndex[recs[p].ident] = p,
     !.actionIndex = [a \in Actions |->
        LET names == {n \in recs[p].provides : ToLower[n] = a}
        IN  @[a] \o [k \in 1..Cardinality(names) |-> p]]]

RemoveNoLock(cache, recs, p) == [cache EXCEPT !.identIndex[recs[p].ident] = 0]

(* Mutant of Keep: an announcement that cannot be parsed is skipped.        *)
KeepTolerant(scan, recs, verify) ==
  LET p    == scan.record.of
      next == [scan EXCEPT !.at = "slop"]
  IN  CASE ~Parses(recs, scan.record) -> next
        [] Parses(recs, scan.record) /\ verify /\ ~Validate(recs, p, scan.cert, scan.sig) ->
             RemoveNoLock(next, recs, p)
        [] OTHER -> StoreNoLock(next, recs, p)

(* What is done with an announcement read to its end: one that cannot be    *)
(* parsed ends the scan, one that does not validate removes its ident.      *)
Keep(scan, recs, verify) ==
  LET p    == scan.record.of
      next == [scan EXCEPT !.at = "slop"]
  IN  CASE ~Parses(recs, scan.record) -> [scan EXCEPT !.at = "failed"]
        [] Parses(recs, scan.record) /\ verify /\ ~Validate(recs, p, scan.cert, scan.sig) ->
             RemoveNoLock(next, recs, p)
        [] OTHER -> StoreNoLock(next, recs, p)

(* The end of the signature, which must not be empty.                       *)
EndSig(scan, recs, verify) ==
  IF scan.sig = <<>> THEN [scan EXCEPT !.at = "slop"] ELSE Keep(scan, recs, verify)

(* The next line.  In a certificate a separator is text like any other; a   *)
(* signature ends at it, and it is used up.                                 *)
ScanLine(scan, recs, verify, line) ==
  CASE scan.at = "slop" -> IF line = Sep THEN [scan EXCEPT !.at = "record"] ELSE scan
    [] scan.at = "record" /\ line = Empty -> [scan EXCEPT !.at = "ended"]
    [] scan.at = "record" /\ line # Empty ->
         [scan EXCEPT !.at = "gap", !.record = line, !.cert = <<>>, !.sig = <<>>]
    [] scan.at = "gap" -> [scan EXCEPT !.at = IF line = Empty THEN "cert" ELSE "failed"]
    [] scan.at = "cert" /\ line = Empty ->
         [scan EXCEPT !.at = IF scan.cert = <<>> THEN "slop" ELSE "sig"]
    [] scan.at = "cert" /\ line # Empty -> [scan EXCEPT !.cert = Append(@, line)]
    [] scan.at = "sig" /\ line \in {Empty, Sep} -> EndSig(scan, recs, verify)
    [] scan.at = "sig" /\ line \notin {Empty, Sep} -> [scan EXCEPT !.sig = Append(@, line)]
    [] scan.at \in {"ended", "failed"} -> scan

(* The whole file; its end also ends a signature.  What was indexed before  *)
(* an error stays.                                                          *)
DoScan(recs, verify) ==
  LET lines == Text(recs)
      scan[n \in 0..Len(lines)] ==
        IF n = 0 THEN Cleared ELSE ScanLine(scan[n - 1], recs, verify, lines[n])
      last == scan[Len(lines)]
  IN  IF last.at = "sig" THEN EndSig(last, recs, verify) ELSE last

-----------------------------------------------------------------------------
(* The same by announcements and without a loop: the definition the scan of *)
(* lines is checked against.                                                *)

(* An announcement is lost when an odd number of neighbours before it run   *)
(* into each other: each one that is read uses up the next.                 *)
UsesUpSeparator(rec) == rec.runOn /\ rec.kind \notin {"nocert", "nogap", "blank"}

Lost(recs, p) ==
  \E k \in 1..(p - 1) :
    /\ k % 2 = 1
    /\ \A j \in (p - k)..(p - 1) : UsesUpSeparator(recs[j])
    /\ k = p - 1 \/ ~UsesUpSeparator(recs[p - k - 1])

EndsScan(recs, p) == ~Lost(recs, p) /\ recs[p].kind \in {"blank", "malformed", "nogap"}

(* The announcements that come before the first one that ends the scan.     *)
Found(recs) ==
  {p \in DOMAIN recs : /\ recs[p].kind \in {"good", "invalid", "cut"}
                       /\ ~Lost(recs, p)
                       /\ \A q \in 1..p : ~EndsScan(recs, q)}

Accepted(recs, verify) == {p \in Found(recs) : verify => recs[p].kind = "good"}

(* Among the announcements found for an ident the last decides: it is the   *)
(* one indexed, or none is when it does not validate.                       *)
ByIdent(recs, verify, i) ==
  LET mine == {p \in Found(recs) : recs[p].ident = i}
      last == {p \in mine : \A q \in mine : q <= p} \cap Accepted(recs, verify)
  IN  IF last = {} THEN 0 ELSE CHOOSE p \in last : TRUE

(* How often an announcement is listed under an action.                     *)
ByAction(recs, verify, a, p) ==
  IF p \in Accepted(recs, verify)
  THEN Cardinality({n \in recs[p].provides : ToLower[n] = a})
  ELSE 0
=============================================================================
