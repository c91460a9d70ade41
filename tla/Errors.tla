------------------------------- MODULE Errors -------------------------------
(***************************************************************************)
(* How an error of the Rust crate (SignalProtocolError) reaches an         *)
(* application: the exception throw_error of the Java bridge raises, and   *)
(* the code of the C bridge with the Swift error checkError makes of it.   *)
(* "none" is success and "UnexpectedPanic" what catch_unwind caught.       *)
(***************************************************************************)
----------------------------------------------------------------------------
\* The errors that share an exception or a code in both bridges.
KeyIdErrors == {"InvalidPreKeyId", "InvalidSignedPreKeyId", "InvalidSenderKeyId"}
KeyErrors == {"NoKeyTypeIdentifier", "BadKeyType", "BadKeyLength"}
StateErrors == {"InvalidState", "NoSenderKeyState", "InvalidSessionStructure"}

throw_error(e) ==
    CASE e = "NullHandle" -> "NullPointerException"
      [] e \in {"UnexpectedPanic", "BadJniParameter", "UnexpectedJniResultType"} ->
             "AssertionError"
      [] e = "DuplicatedMessage" -> "DuplicateMessageException"
      [] e \in KeyIdErrors -> "InvalidKeyIdException"
      [] e \in KeyErrors \cup {"SignatureValidationFailed"} -> "InvalidKeyException"
      [] e = "SessionNotFound" -> "NoSessionException"
      [] e \in {"InvalidMessage", "CiphertextMessageTooShort",
                "UnrecognizedCiphertextVersion", "UnrecognizedMessageVersion",
                "InvalidCiphertext", "InvalidProtobufEncoding"} -> "InvalidMessageException"
      [] e = "LegacyCiphertextVersion" -> "LegacyMessageException"
      [] e = "UntrustedIdentity" -> "UntrustedIdentityException"
      [] e \in StateErrors -> "IllegalStateException"
      [] e = "InvalidArgument" -> "IllegalArgumentException"
      [] OTHER -> "RuntimeException"

SignalErrorCode(e) ==
    CASE e = "NullPointer" -> "NullParameter"
      [] e = "UnexpectedPanic" -> "InternalError"
      [] e \in {"InvalidType", "CallbackError", "InvalidUtf8String", "InsufficientOutputSize",
                "DuplicatedMessage", "SessionNotFound", "FingerprintIdentifierMismatch",
                "FingerprintVersionMismatch", "UnrecognizedMessageVersion",
                "LegacyCiphertextVersion", "UntrustedIdentity", "InvalidArgument"} -> e
      [] e \in {"ProtobufEncodingError", "ProtobufDecodingError"} -> "ProtobufError"
      [] e \in KeyIdErrors -> "InvalidKeyIdentifier"
      [] e = "SignatureValidationFailed" -> "InvalidSignature"
      [] e \in KeyErrors -> "InvalidKey"
      [] e \in {"CiphertextMessageTooShort", "InvalidCiphertext"} -> "InvalidCiphertext"
      [] e = "UnrecognizedCiphertextVersion" -> "UnknownCiphertextVersion"
      [] e \in {"InvalidMessage", "InvalidProtobufEncoding"} -> "InvalidMessage"
      [] e \in StateErrors -> "InvalidState"
      [] OTHER -> "UnknownError"

\* checkError: every code but UnknownError has a case of SignalError.
checkError(code) == IF code = "UnknownError" THEN "unknown" ELSE code
=============================================================================
