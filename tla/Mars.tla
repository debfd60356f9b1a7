-------------------------------- MODULE Mars ---------------------------------
(***************************************************************************)
(* The MARS API, an external service that Merino and merino-fleece poll for  *)
(* sponsored suggestions: one document per country and form factor, with an  *)
(* ETag and conditional requests.  A document is its version number (a       *)
(* version is never published twice) and what its body is good for.          *)
(***************************************************************************)
EXTENDS Naturals

CONSTANTS
    Segments,     \* the country and form factor pairs of the configuration
    Kinds,        \* the bodies that MARS may serve
    MaxVersion,   \* bound: versions of a document
    MaxFaults     \* bound: requests that fail

(* "malformed": not JSON, or without suggestions.  "mistyped": a suggestion   *)
(* that the index cannot be built from.                                      *)
ASSUME MarsAssumption ==
    /\ Kinds \subseteq {"good", "empty", "malformed", "mistyped"}
    /\ "good" \in Kinds
    /\ MaxVersion \in Nat \ {0} /\ MaxFaults \in Nat

VARIABLES
    version,   \* the current version of each document
    kind,      \* what its body is good for
    faults     \* requests that failed so far

marsVars == <<version, kind, faults>>

MarsInit ==
    /\ version = [s \in Segments |-> 1]
    /\ kind \in [Segments -> Kinds]
    /\ faults = 0

MarsTypeOK ==
    /\ version \in [Segments -> 1..MaxVersion]
    /\ kind \in [Segments -> Kinds]
    /\ faults \in 0..MaxFaults

Publish(s) ==
    /\ version[s] < MaxVersion
    /\ version' = [version EXCEPT ![s] = @ + 1]
    /\ \E k \in Kinds : kind' = [kind EXCEPT ![s] = k]
    /\ UNCHANGED faults

Responses ==
    [status : {"ok"}, version : 1..MaxVersion, kind : Kinds, etag : BOOLEAN]
        \cup [status : {"not_modified", "error"}]

(* The response to a request for s that carries etag (0: none).  A response   *)
(* may come without an ETag; a failure is an HTTP error, a timeout or a broken*)
(* connection.                                                               *)
Respond(s, etag, response) ==
    \/ /\ etag = version[s]
       /\ response = [status |-> "not_modified"]
       /\ UNCHANGED marsVars
    \/ /\ etag # version[s]
       /\ \E tagged \in BOOLEAN :
              response = [status |-> "ok", version |-> version[s],
                          kind |-> kind[s], etag |-> tagged]
       /\ UNCHANGED marsVars
    \/ /\ faults < MaxFaults
       /\ response = [status |-> "error"]
       /\ faults' = faults + 1
       /\ UNCHANGED <<version, kind>>
=============================================================================
