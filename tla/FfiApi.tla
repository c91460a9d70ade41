------------------------------- MODULE FfiApi -------------------------------
(***************************************************************************)
(* The functions of rust/bridge/ffi/src/lib.rs that call no store: which   *)
(* pointers each one checks, in which order, what its body may come to and *)
(* what it gives back.                                                     *)
(*                                                                         *)
(* Arguments: "handle" native_handle_cast, "own handle" the same of a      *)
(* wrapper that has one, "bare handle" a pointer of such a wrapper that is *)
(* followed without a check, "option" a pointer that may be null, "slice"  *)
(* as_slice, "data" a pointer that is refused when null, "cstring"         *)
(* read_c_string.  Results: "object" box_object, "optional"                *)
(* box_optional_object, "uint" write_uint32_to and its like, "bytes"       *)
(* write_bytearray_to, "string" write_cstr_to, "raw" a variable of the     *)
(* caller that is written without a check.  The body gives a value, no     *)
(* value ("none"), an error or a panic.                                    *)
(***************************************************************************)
EXTENDS TLC

Fn(args, body, outs) == [args |-> args, body |-> body, outs |-> outs]

Sure == {"ok"}
May == {"ok", "error", "panic"}

\* The macros of util.rs.
deserialize == Fn(<<"data">>, May, <<"object">>)
get_new_boxed_obj(body) == Fn(<<"handle">>, body, <<"object">>)
clone == Fn(<<"own handle">>, Sure, <<"object">>)
get_new_boxed_optional_obj == Fn(<<"handle">>, {"ok", "none"}, <<"optional">>)
get_uint32(body) == Fn(<<"handle">>, body, <<"uint">>)
get_optional_uint32 == Fn(<<"handle">>, {"ok", "none"}, <<"uint">>)
get_uint64 == Fn(<<"handle">>, Sure, <<"uint">>)
get_bytearray(body) == Fn(<<"handle">>, body, <<"bytes">>)
get_cstring(body) == Fn(<<"handle">>, body, <<"string">>)
----------------------------------------------------------------------------
HkdfFns ==
    [signal_hkdf_derive |-> Fn(<<"data", "slice", "slice", "slice">>, May, <<"raw">>)]

AddressFns ==
    [signal_address_new |-> Fn(<<"cstring">>, Sure, <<"object">>),
     signal_address_get_name |-> get_cstring(Sure),
     signal_address_get_device_id |-> get_uint32(Sure),
     signal_address_clone |-> clone]

PublicKeyFns ==
    [signal_publickey_deserialize |-> deserialize,
     signal_publickey_serialize |-> get_bytearray(Sure),
     signal_publickey_get_public_key_bytes |-> get_bytearray(Sure),
     signal_publickey_compare |-> Fn(<<"handle", "handle">>, Sure, <<"raw">>),
     signal_publickey_verify |-> Fn(<<"handle", "slice", "slice">>, May, <<"raw">>),
     signal_publickey_clone |-> clone]

PrivateKeyFns ==
    [signal_privatekey_deserialize |-> deserialize,
     signal_privatekey_serialize |-> get_bytearray(Sure),
     signal_privatekey_generate |-> Fn(<<>>, Sure, <<"object">>),
     signal_privatekey_get_public_key |-> get_new_boxed_obj(Sure),
     signal_privatekey_sign |-> Fn(<<"slice", "handle">>, Sure, <<"bytes">>),
     signal_privatekey_agree |-> Fn(<<"handle", "handle">>, Sure, <<"bytes">>),
     signal_privatekey_clone |-> clone]

IdentityKeyPairFns ==
    [signal_identitykeypair_serialize |-> Fn(<<"handle", "handle">>, Sure, <<"bytes">>),
     signal_identitykeypair_deserialize |-> Fn(<<"slice">>, May, <<"object", "object">>)]

SessionRecordFns ==
    [signal_session_record_deserialize |-> deserialize,
     signal_session_record_serialize |-> get_bytearray(May),
     signal_session_record_get_remote_registration_id |-> get_uint32(May),
     signal_session_record_archive_current_state |-> Fn(<<"handle">>, May, <<>>),
     signal_session_record_clone |-> clone]

FingerprintFns ==
    [signal_fingerprint_format |-> Fn(<<"slice", "slice">>, May, <<"string">>),
     signal_fingerprint_new |->
         Fn(<<"slice", "handle", "slice", "handle">>, May, <<"object">>),
     signal_fingerprint_clone |-> clone,
     signal_fingerprint_display_string |-> get_cstring(May),
     signal_fingerprint_scannable_encoding |-> get_bytearray(May),
     signal_fingerprint_compare |-> Fn(<<"data", "data">>, May, <<"uint">>)]

SignalMessageFns ==
    [signal_message_deserialize |-> deserialize,
     signal_message_new |->
         Fn(<<"slice", "handle", "slice", "handle", "handle">>, May, <<"object">>),
     signal_message_clone |-> clone,
     signal_message_get_sender_ratchet_key |-> get_new_boxed_obj(Sure),
     signal_message_get_body |-> get_bytearray(Sure),
     signal_message_get_serialized |-> get_bytearray(Sure),
     signal_message_get_message_version |-> get_uint32(Sure),
     signal_message_get_counter |-> get_uint32(Sure),
     signal_message_verify_mac |->
         Fn(<<"handle", "handle", "handle", "slice">>, May, <<"raw">>)]

PreKeySignalMessageFns ==
    [signal_pre_key_signal_message_deserialize |-> deserialize,
     signal_pre_key_signal_message_new |->
         Fn(<<"option", "handle", "handle", "handle">>, May, <<"object">>),
     signal_pre_key_signal_message_clone |-> clone,
     signal_pre_key_signal_message_get_version |-> get_uint32(Sure),
     signal_pre_key_signal_message_get_registration_id |-> get_uint32(Sure),
     signal_pre_key_signal_message_get_pre_key_id |-> get_optional_uint32,
     signal_pre_key_signal_message_get_signed_pre_key_id |-> get_uint32(Sure),
     signal_pre_key_signal_message_get_base_key |-> get_new_boxed_obj(Sure),
     signal_pre_key_signal_message_get_identity_key |-> get_new_boxed_obj(Sure),
     signal_pre_key_signal_message_get_signal_message |-> get_new_boxed_obj(Sure),
     signal_pre_key_signal_message_serialize |-> get_bytearray(Sure)]

SenderKeyMessageFns ==
    [signal_sender_key_message_new |-> Fn(<<"slice", "handle">>, May, <<"object">>),
     signal_sender_key_message_deserialize |-> deserialize,
     signal_sender_key_message_clone |-> clone,
     signal_sender_key_message_get_key_id |-> get_uint32(Sure),
     signal_sender_key_message_get_iteration |-> get_uint32(Sure),
     signal_sender_key_message_get_cipher_text |-> get_bytearray(Sure),
     signal_sender_key_message_serialize |-> get_bytearray(Sure),
     signal_sender_key_message_verify_signature |->
         Fn(<<"handle", "handle">>, May, <<"raw">>)]

SenderKeyDistributionMessageFns ==
    [signal_sender_key_distribution_message_new |->
         Fn(<<"slice", "handle">>, May, <<"object">>),
     signal_sender_key_distribution_message_deserialize |-> deserialize,
     signal_sender_key_distribution_message_clone |-> clone,
     signal_sender_key_distribution_message_get_id |-> get_uint32(Sure),
     signal_sender_key_distribution_message_get_iteration |-> get_uint32(Sure),
     signal_sender_key_distribution_message_get_chain_key |-> get_bytearray(Sure),
     signal_sender_key_distribution_message_get_signature_key |-> get_new_boxed_obj(Sure),
     signal_sender_key_distribution_message_serialize |-> get_bytearray(Sure)]

PreKeyBundleFns ==
    [signal_pre_key_bundle_new |->
         Fn(<<"handle", "slice", "option", "option", "bare handle">>, May, <<"object">>),
     signal_pre_key_bundle_clone |-> clone,
     signal_pre_key_bundle_get_registration_id |-> get_uint32(Sure),
     signal_pre_key_bundle_get_device_id |-> get_uint32(Sure),
     signal_pre_key_bundle_get_signed_pre_key_id |-> get_uint32(Sure),
     signal_pre_key_bundle_get_pre_key_id |-> get_optional_uint32,
     signal_pre_key_bundle_get_pre_key_public |-> get_new_boxed_optional_obj,
     signal_pre_key_bundle_get_signed_pre_key_public |-> get_new_boxed_obj(Sure),
     signal_pre_key_bundle_get_identity_key |-> get_new_boxed_obj(Sure),
     signal_pre_key_bundle_get_signed_pre_key_signature |-> get_bytearray(Sure)]

SignedPreKeyRecordFns ==
    [signal_signed_pre_key_record_new |->
         Fn(<<"handle", "handle", "slice">>, Sure, <<"object">>),
     signal_signed_pre_key_record_deserialize |-> deserialize,
     signal_signed_pre_key_record_get_id |-> get_uint32(Sure),
     signal_signed_pre_key_record_get_timestamp |-> get_uint64,
     signal_signed_pre_key_record_get_public_key |-> get_new_boxed_obj(May),
     signal_signed_pre_key_record_get_private_key |-> get_new_boxed_obj(May),
     signal_signed_pre_key_record_get_signature |-> get_bytearray(Sure),
     signal_signed_pre_key_record_serialize |-> get_bytearray(May),
     signal_signed_pre_key_record_clone |-> clone]

PreKeyRecordFns ==
    [signal_pre_key_record_new |-> Fn(<<"handle", "handle">>, Sure, <<"object">>),
     signal_pre_key_record_deserialize |-> deserialize,
     signal_pre_key_record_get_id |-> get_uint32(Sure),
     signal_pre_key_record_get_public_key |-> get_new_boxed_obj(May),
     signal_pre_key_record_get_private_key |-> get_new_boxed_obj(May),
     signal_pre_key_record_serialize |-> get_bytearray(May),
     signal_pre_key_record_clone |-> clone]

SenderKeyNameFns ==
    [signal_sender_key_name_new |-> Fn(<<"cstring", "cstring">>, May, <<"object">>),
     signal_sender_key_name_clone |-> clone,
     signal_sender_key_name_get_group_id |-> get_cstring(Sure),
     signal_sender_key_name_get_sender_name |-> get_cstring(Sure),
     signal_sender_key_name_get_sender_device_id |-> get_uint32(Sure)]

SenderKeyRecordFns ==
    [signal_sender_key_record_new_fresh |-> Fn(<<>>, Sure, <<"object">>),
     signal_sender_key_record_clone |-> clone,
     signal_sender_key_record_deserialize |-> deserialize,
     signal_sender_key_record_serialize |-> get_bytearray(May)]

CiphertextMessageFns ==
    [signal_ciphertext_message_type |-> Fn(<<"handle">>, Sure, <<"raw">>),
     signal_ciphertext_message_serialize |-> get_bytearray(Sure)]

Api == HkdfFns @@ AddressFns @@ PublicKeyFns @@ PrivateKeyFns @@ IdentityKeyPairFns
           @@ SessionRecordFns @@ FingerprintFns @@ SignalMessageFns
           @@ PreKeySignalMessageFns @@ SenderKeyMessageFns
           @@ SenderKeyDistributionMessageFns @@ PreKeyBundleFns
           @@ SignedPreKeyRecordFns @@ PreKeyRecordFns @@ SenderKeyNameFns
           @@ SenderKeyRecordFns @@ CiphertextMessageFns
=============================================================================
