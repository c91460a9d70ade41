------------------------------- MODULE JniApi -------------------------------
(***************************************************************************)
(* The native methods of rust/bridge/jni/src/lib.rs that call no store:    *)
(* how each one converts its arguments, in which order, what its body may  *)
(* come to and what it gives back.                                         *)
(*                                                                         *)
(* Arguments: "handle" native_handle_cast, "bare handle" a handle that is  *)
(* not compared with 0, "option" a handle or an integer that may stand for *)
(* none, "bytes" convert_byte_array, "bytes?" an array that may be null,   *)
(* "string" get_string, "u8" and "u32" jint_to_u8 and jint_to_u32, "as" a  *)
(* Rust cast.  Results: "object" a boxed object, "optional" one or 0,      *)
(* "value" an int, a boolean, bytes or a string that Java owns.            *)
(***************************************************************************)
EXTENDS TLC

Method(args, body, out) == [args |-> args, body |-> body, out |-> out]

Sure == {"ok"}
May == {"ok", "error", "panic"}

\* The macros of util.rs.
deserialize == Method(<<"bytes">>, May, "object")
get_new_boxed_obj(body) == Method(<<"handle">>, body, "object")
get_new_boxed_optional_obj == Method(<<"handle">>, {"ok", "none"}, "optional")
get_jint(body) == Method(<<"handle">>, body, "value")
get_jstring(body) == Method(<<"handle">>, body, "value")
get_jbytearray(body) == Method(<<"handle">>, body, "value")
----------------------------------------------------------------------------
AddressMethods ==
    [ProtocolAddress_New |-> Method(<<"string", "u32">>, Sure, "object"),
     ProtocolAddress_Name |-> get_jstring(Sure),
     ProtocolAddress_DeviceId |-> get_jint(Sure)]

\* An offset behind the end of the data panics.
ECPublicKeyMethods ==
    [ECPublicKey_Deserialize |-> Method(<<"u32", "bytes">>, May, "object"),
     ECPublicKey_Compare |-> Method(<<"handle", "handle">>, Sure, "value"),
     ECPublicKey_Serialize |-> get_jbytearray(Sure),
     ECPublicKey_GetPublicKeyBytes |-> get_jbytearray(Sure),
     ECPublicKey_Verify |-> Method(<<"handle", "bytes", "bytes">>, May, "value")]

ECPrivateKeyMethods ==
    [ECPrivateKey_Deserialize |-> deserialize,
     ECPrivateKey_Serialize |-> get_jbytearray(Sure),
     ECPrivateKey_Generate |-> Method(<<>>, Sure, "object"),
     ECPrivateKey_GetPublicKey |-> get_new_boxed_obj(Sure),
     ECPrivateKey_Sign |-> Method(<<"bytes", "handle">>, Sure, "value"),
     ECPrivateKey_Agree |-> Method(<<"handle", "handle">>, Sure, "value"),
     IdentityKeyPair_Serialize |-> Method(<<"handle", "handle">>, Sure, "value")]

\* A fingerprint made by New always has a text and an encoding.
FingerprintMethods ==
    [DisplayableFingerprint_Format |-> Method(<<"bytes", "bytes">>, May, "value"),
     NumericFingerprintGenerator_New |->
         Method(<<"u32", "u32", "bytes", "bytes", "bytes", "bytes">>, May, "object"),
     NumericFingerprintGenerator_GetDisplayString |-> get_jstring(Sure),
     NumericFingerprintGenerator_GetScannableEncoding |-> get_jbytearray(Sure),
     ScannableFingerprint_Compare |-> Method(<<"bytes", "bytes">>, May, "value")]

HkdfMethods ==
    [HKDF_DeriveSecrets |->
         Method(<<"u32", "as", "bytes", "bytes?", "bytes?">>, May, "value")]

SignalMessageMethods ==
    [SignalMessage_Deserialize |-> deserialize,
     SignalMessage_New |->
         Method(<<"u8", "bytes", "handle", "u32", "u32", "bytes", "handle", "handle">>,
                May, "object"),
     SignalMessage_GetSenderRatchetKey |-> get_jbytearray(Sure),
     SignalMessage_GetBody |-> get_jbytearray(Sure),
     SignalMessage_GetSerialized |-> get_jbytearray(Sure),
     SignalMessage_GetMessageVersion |-> get_jint(Sure),
     SignalMessage_GetCounter |-> get_jint(Sure),
     SignalMessage_VerifyMac |->
         Method(<<"handle", "handle", "handle", "bytes">>, May, "value")]

PreKeySignalMessageMethods ==
    [PreKeySignalMessage_Deserialize |-> deserialize,
     PreKeySignalMessage_New |->
         Method(<<"as", "u32", "option", "u32", "handle", "handle", "handle">>,
                May, "object"),
     PreKeySignalMessage_GetVersion |-> get_jint(Sure),
     PreKeySignalMessage_GetRegistrationId |-> get_jint(Sure),
     PreKeySignalMessage_GetPreKeyId |-> get_jint(Sure),
     PreKeySignalMessage_GetSignedPreKeyId |-> get_jint(Sure),
     PreKeySignalMessage_GetBaseKey |-> get_jbytearray(Sure),
     PreKeySignalMessage_GetIdentityKey |-> get_jbytearray(Sure),
     PreKeySignalMessage_GetSignalMessage |-> get_jbytearray(Sure),
     PreKeySignalMessage_GetSerialized |-> get_jbytearray(Sure)]

SenderKeyMessageMethods ==
    [SenderKeyMessage_Deserialize |-> deserialize,
     SenderKeyMessage_New |->
         Method(<<"u32", "u32", "bytes", "handle">>, May, "object"),
     SenderKeyMessage_GetKeyId |-> get_jint(Sure),
     SenderKeyMessage_GetIteration |-> get_jint(Sure),
     SenderKeyMessage_GetCipherText |-> get_jbytearray(Sure),
     SenderKeyMessage_GetSerialized |-> get_jbytearray(Sure),
     SenderKeyMessage_VerifySignature |-> Method(<<"handle", "handle">>, May, "value")]

SenderKeyDistributionMessageMethods ==
    [SenderKeyDistributionMessage_Deserialize |-> deserialize,
     SenderKeyDistributionMessage_New |->
         Method(<<"u32", "u32", "bytes", "handle">>, May, "object"),
     SenderKeyDistributionMessage_GetId |-> get_jint(Sure),
     SenderKeyDistributionMessage_GetIteration |-> get_jint(Sure),
     SenderKeyDistributionMessage_GetChainKey |-> get_jbytearray(Sure),
     SenderKeyDistributionMessage_GetSignatureKey |-> get_jbytearray(Sure),
     SenderKeyDistributionMessage_GetSerialized |-> get_jbytearray(Sure)]

PreKeyBundleMethods ==
    [PreKeyBundle_New |->
         Method(<<"u32", "u32", "u32", "handle", "bytes", "option", "option", "bare handle">>,
                {"ok", "error"}, "object"),
     PreKeyBundle_GetRegistrationId |-> get_jint(Sure),
     PreKeyBundle_GetDeviceId |-> get_jint(Sure),
     PreKeyBundle_GetSignedPreKeyId |-> get_jint(Sure),
     PreKeyBundle_GetPreKeyId |-> get_jint(Sure),
     PreKeyBundle_GetPreKeyPublic |-> get_new_boxed_optional_obj,
     PreKeyBundle_GetSignedPreKeyPublic |-> get_new_boxed_obj(Sure),
     PreKeyBundle_GetIdentityKey |-> get_new_boxed_obj(Sure),
     PreKeyBundle_GetSignedPreKeySignature |-> get_jbytearray(Sure)]

SignedPreKeyRecordMethods ==
    [SignedPreKeyRecord_New |->
         Method(<<"handle", "handle", "u32", "as", "bytes">>, Sure, "object"),
     SignedPreKeyRecord_Deserialize |-> deserialize,
     SignedPreKeyRecord_GetId |-> get_jint(Sure),
     SignedPreKeyRecord_GetTimestamp |-> get_jint(Sure),
     SignedPreKeyRecord_GetPublicKey |-> get_new_boxed_obj(May),
     SignedPreKeyRecord_GetPrivateKey |-> get_new_boxed_obj(May),
     SignedPreKeyRecord_GetSignature |-> get_jbytearray(Sure),
     SignedPreKeyRecord_GetSerialized |-> get_jbytearray(May)]

PreKeyRecordMethods ==
    [PreKeyRecord_New |-> Method(<<"u32", "handle", "handle">>, Sure, "object"),
     PreKeyRecord_Deserialize |-> deserialize,
     PreKeyRecord_GetId |-> get_jint(Sure),
     PreKeyRecord_GetPublicKey |-> get_new_boxed_obj(May),
     PreKeyRecord_GetPrivateKey |-> get_new_boxed_obj(May),
     PreKeyRecord_GetSerialized |-> get_jbytearray(May)]

SenderKeyNameMethods ==
    [SenderKeyName_New |-> Method(<<"string", "string", "u32">>, May, "object"),
     SenderKeyName_GetGroupId |-> get_jstring(Sure),
     SenderKeyName_GetSenderName |-> get_jstring(Sure),
     SenderKeyName_GetSenderDeviceId |-> get_jint(Sure)]

SenderKeyRecordMethods ==
    [SenderKeyRecord_New |-> Method(<<>>, Sure, "object"),
     SenderKeyRecord_Deserialize |-> deserialize,
     SenderKeyRecord_GetSerialized |-> get_jbytearray(May)]

\* Exposed for the Java tests.
SessionStateMethods ==
    [SessionState_InitializeAliceSession |->
         Method(<<"handle", "handle", "handle", "handle", "handle", "handle", "handle">>,
                May, "value"),
     SessionState_InitializeBobSession |->
         Method(<<"handle", "handle", "handle", "handle", "handle", "handle", "handle",
                  "handle">>, May, "value")]

Native == AddressMethods @@ ECPublicKeyMethods @@ ECPrivateKeyMethods @@ FingerprintMethods
              @@ HkdfMethods @@ SignalMessageMethods @@ PreKeySignalMessageMethods
              @@ SenderKeyMessageMethods @@ SenderKeyDistributionMessageMethods
              @@ PreKeyBundleMethods @@ SignedPreKeyRecordMethods @@ PreKeyRecordMethods
              @@ SenderKeyNameMethods @@ SenderKeyRecordMethods @@ SessionStateMethods
=============================================================================
