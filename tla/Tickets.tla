------------------------------- MODULE Tickets -------------------------------
(***************************************************************************)
(* What VerifyTicket and CheckPrivs (src/scamp/ticket.go) decide about the  *)
(* ticket of a request.  A ticket is the text                               *)
(*   version,userID,clientID,timestamp,TTL[,privilege+privilege...],sig     *)
(* known here by how many parts it has, by the key its signature verifies   *)
(* with (none, if it was changed or cannot be decoded), by whether its      *)
(* numbers and its privileges can be parsed, and by what they say.          *)
(***************************************************************************)
EXTENDS Integers

CONSTANTS
  Keys,      \* public keys
  Privs,     \* privileges
  TimeMax    \* the largest int64

NoKey == "no key"

ASSUME TicketsAssumption == NoKey \notin Keys /\ TimeMax \in Nat \ {0}

(* The numbers that ParseInt accepts.                                       *)
TimeMin == -(TimeMax + 1)
Int64 == TimeMin..TimeMax

Ticket ==
  [parts : 1..7, signer : Keys \cup {NoKey}, version : Nat, numbers : BOOLEAN,
   privileges : SUBSET Privs, privsParse : BOOLEAN, timestamp : Int64, ttl : Int64]

(* Addition of two int64: a sum that is none wraps around, at either end.   *)
Plus(m, n) == LET sum == m + n IN
  IF sum > TimeMax THEN sum - 2 * (TimeMax + 1)
  ELSE IF sum < TimeMin THEN sum + 2 * (TimeMax + 1) ELSE sum

(* Mutant of Expired: the second after the last still counts.               *)
ExpiredLater(t, now) == Plus(t.timestamp, t.ttl) + 1 < now

Expired(t, now) == Plus(t.timestamp, t.ttl) < now

(* The check that needs no key: the signature is the sixth part or later.   *)
HasParts(t) == t.parts >= 6

(* The rest of VerifyTicket, with the key that was read.                    *)
VerifyTicket(t, key, now) ==
  /\ HasParts(t)
  /\ t.signer = key
  /\ t.version = 1
  /\ t.numbers
  /\ t.parts > 6 => t.privsParse
  /\ ~Expired(t, now)

(* The map of privileges; it stays nil for a ticket without that part.      *)
Privileges(t) == IF t.parts > 6 THEN t.privileges ELSE {}

(* Every privilege asked for must be in the map.                             *)
CheckPrivs(t, privs) == \A p \in privs : p \in Privileges(t)
=============================================================================
