----------------------------- MODULE StunCodec -----------------------------
(***************************************************************************)
(* STUN binding messages (stun.rs) as their decoders see them: a type, a   *)
(* transaction id and the attributes in wire order.  An address or a set   *)
(* of flags stands for its encoding; Bad is a value no decoder accepts     *)
(* (too short, or of an unknown family), and a message that is refused by  *)
(* its header or is not a binding message has the type "junk".             *)
(***************************************************************************)
EXTENDS Integers, Sequences

CONSTANTS None,   \* an absent Option
          Bad

(* ChangeRequest's flags and its three constants in use.                   *)
Flags == [change_ip : BOOLEAN, change_port : BOOLEAN]
NONE        == [change_ip |-> FALSE, change_port |-> FALSE]
PORT        == [change_ip |-> FALSE, change_port |-> TRUE]
IP_AND_PORT == [change_ip |-> TRUE,  change_port |-> TRUE]

ASSUME CodecAssumption == None # Bad /\ {None, Bad} \cap Flags = {}

BAD_REQUEST == 400
UNKNOWN_ATTRIBUTE == 420

Message(type, txid, attrs) == [type |-> type, txid |-> txid, attrs |-> attrs]
Attr(attr, value) == [attr |-> attr, value |-> value]
IfPresent(attr, value) == IF value = None THEN <<>> ELSE <<Attr(attr, value)>>

-----------------------------------------------------------------------------
(* Encoders. *)

encode_binding_request_with(txid, change) ==
  Message("request", txid, IfPresent("CHANGE-REQUEST", IF change = NONE THEN None ELSE change))

encode_binding_success_with(txid, mapped, response_origin, other_address) ==
  Message("success", txid,
          <<Attr("XOR-MAPPED-ADDRESS", mapped)>>
            \o IfPresent("RESPONSE-ORIGIN", response_origin)
            \o IfPresent("OTHER-ADDRESS", other_address))

(* UNKNOWN-ATTRIBUTES goes with a 420 only. *)
encode_binding_error(txid, code) ==
  Message("error", txid,
          <<Attr("ERROR-CODE", code)>>
            \o IfPresent("UNKNOWN-ATTRIBUTES",
                         IF code = UNKNOWN_ATTRIBUTE THEN "CHANGE-REQUEST" ELSE None))

-----------------------------------------------------------------------------
(* Decoders. *)

Has(m, attr) == \E i \in DOMAIN m.attrs : m.attrs[i].attr = attr
Place(m, attr) == CHOOSE i \in DOMAIN m.attrs :
                    /\ m.attrs[i].attr = attr
                    /\ \A j \in 1..(i - 1) : m.attrs[j].attr # attr
First(m, attr) == IF Has(m, attr) THEN m.attrs[Place(m, attr)].value ELSE None

(* decode_xor_address, decode_plain_address and the length check of        *)
(* CHANGE-REQUEST accept it.                                               *)
Decodes(value) == value # Bad

(* The XOR form wins; the legacy form is a fallback, but one that comes    *)
(* before the XOR form and is malformed spoils the message.                *)
MappedAddress(m) ==
  LET xor == "XOR-MAPPED-ADDRESS"
      plain == "MAPPED-ADDRESS"
  IN IF ~Has(m, xor) THEN First(m, plain)
     ELSE IF /\ ~Decodes(First(m, plain))
             /\ Place(m, plain) < Place(m, xor) THEN Bad
     ELSE First(m, xor)

Decoded(is, mapped, code) == [is |-> is, mapped |-> mapped, code |-> code]

(* decode: BindingRequest, BindingSuccess, BindingError, or an error (is = *)
(* "malformed"; NoMappedAddress is one more).  The txid is the header's.   *)
decode(m) ==
  CASE m.type = "request" -> Decoded("request", None, 0)
    [] m.type = "success" -> IF MappedAddress(m) \in {None, Bad}
                             THEN Decoded("malformed", None, 0)
                             ELSE Decoded("success", MappedAddress(m), 0)
    [] m.type = "error"   -> Decoded("error", None,
                                     IF Has(m, "ERROR-CODE") THEN First(m, "ERROR-CODE") ELSE 0)
    [] OTHER              -> Decoded("malformed", None, 0)

(* decode_rfc5780: None where an attribute is absent; ok is FALSE when one *)
(* of the attributes it looks at is malformed.                             *)
decode_rfc5780(m) ==
  LET value(attr) == First(m, attr)
  IN [ok |-> /\ m.type # "junk"
             /\ \A a \in {"CHANGE-REQUEST", "RESPONSE-ORIGIN", "OTHER-ADDRESS"} :
                  Decodes(value(a)),
      change_request |-> value("CHANGE-REQUEST"),
      response_origin |-> value("RESPONSE-ORIGIN"),
      other_address |-> value("OTHER-ADDRESS")]
=============================================================================
