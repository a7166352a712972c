------------------------------- MODULE Kfifos -------------------------------
(***************************************************************************)
(* The two kinds of kfifo, of elements (Kfifo) and of records (KfifoRec),  *)
(* which share the structure and the macros: kind, chosen once, says which *)
(* one is in use, and the other stays as it is initially.                  *)
(***************************************************************************)
EXTENDS Kfifo

CONSTANTS
    BYTE,          \* number of values of an unsigned char
    RecSizes,      \* bytes of a length field
    Payload        \* bytes that occur in records

ASSUME KfifosConstants ==
    /\ RecSizes \subseteq {1, 2} /\ \A r \in RecSizes : r < Size
    /\ BYTE \in Nat \ {0} /\ Payload \subseteq 0..(BYTE - 1)
    /\ NONE \notin Seq(0..(BYTE - 1))

VARIABLES
    kind,
    recsize, rec_in, rec_out, rec_data,    \* KfifoRec's variables
    rec_wpc, rec, rec_rpc, rec_rlen, rec_n, rec_dst

rec_vars == <<recsize, rec_in, rec_out, rec_data, rec_wpc, rec, rec_rpc, rec_rlen, rec_n, rec_dst>>

Rec == INSTANCE KfifoRec WITH
    in <- rec_in, out <- rec_out, data <- rec_data,
    wpc <- rec_wpc, rpc <- rec_rpc, rlen <- rec_rlen, n <- rec_n, dst <- rec_dst

KindsInit ==
    /\ kind \in {"elements", "records"}
    /\ Init /\ Rec!Init
    /\ kind = "elements" => \A r \in RecSizes : recsize <= r   \* it plays no part
KindsNext ==
    /\ UNCHANGED kind
    /\ \/ kind = "elements" /\ Next /\ UNCHANGED rec_vars
       \/ kind = "records" /\ Rec!Next /\ UNCHANGED vars

KindsSpec == KindsInit /\ [][KindsNext]_<<kind, vars, rec_vars>>

----------------------------------------------------------------------------
(* "in - out" holds whole records: going from one length field to the next  *)
(* leads from out exactly to in, so no reader takes bytes of a record for a *)
(* length.  The room a writer of a record found stays free, and the record  *)
(* a reader measured is still there, length and all, until it publishes.    *)
RecordsTile == kind = "records" => Rec!TypeOK /\ Rec!Tiled /\ Rec!ClaimsHold

(* Records come out in the order they went in, each whole or, where the     *)
(* reader asked for less, its front; a fault loses nothing.                 *)
RecordsKeepPromise == Rec!R!Promise
=============================================================================
