----------------------------- MODULE Conversions ------------------------------
(***************************************************************************)
(* What runtime/kernel/imports.cpp converts for the guest: time-outs,      *)
(* texts between one and two bytes a character, counted strings, and the   *)
(* settings of the console.                                                *)
(*                                                                         *)
(* A text is a sequence of bytes; `char` is signed.  A guest converts a    *)
(* text to UTF-16 and back with the sizes that it is told, and tries again *)
(* with a larger buffer when it is told that the first was too small.      *)
(* Guest time is signed and goes from -TimeSpan, -2^63 in the code; there  *)
(* are MsModulus counts of milliseconds, 2^32, and Unit is its 10000.      *)
(***************************************************************************)
EXTENDS Integers, Sequences, SequencesExt, FiniteSetsExt

CONSTANTS Texts,         \* texts that the guest converts
          Limits,        \* sizes in bytes that it gives its buffers
          BufferSize,    \* bound: characters that the buffers have room for
          TextLengths,   \* lengths of texts for RtlInitAnsiString
          Unit,          \* ticks of guest time in a millisecond
          TimeSpan,      \* half of the values of guest time
          MsModulus      \* the values of milliseconds

ASSUME ConversionsAssumption ==
    /\ Texts \subseteq Seq(0 .. 255) /\ Limits \subseteq Nat /\ TextLengths \subseteq Nat
    /\ BufferSize \in Nat /\ Unit \in Nat \ {0} /\ MsModulus \in Nat \ {0}
    /\ TimeSpan \in Nat /\ TimeSpan >= Unit * (MsModulus - 1)

VARIABLES request,         \* the last call: its name and arguments
          reply,        \* what it returned or wrote
          wide,          \* the buffer of RtlMultiByteToUnicodeN
          wideBytes,     \* what it stored through BytesInUnicodeString
          narrow,        \* the buffer of RtlUnicodeToMultiByteN
          narrowBytes    \* what it stored through BytesInMultiByteString

convVars == <<request, reply, wide, wideBytes, narrow, narrowBytes>>

Untouched == -1
Times == -TimeSpan .. TimeSpan - 1
Null == <<>>                \* a pointer: to no time, or to the time in <<time>>
INFINITE == MsModulus - 1
Width16 == 65536
EmptyBuffer == [i \in 1 .. BufferSize |-> Untouched]

ConversionsInit ==
    /\ request = [call |-> "none"]
    /\ reply = [status |-> "none"]
    /\ wide = EmptyBuffer /\ wideBytes = Untouched
    /\ narrow = EmptyBuffer /\ narrowBytes = Untouched

-----------------------------------------------------------------------------
(* Division of C, which truncates towards zero.                            *)
Divided(n, d) == IF n < 0 THEN -((-n) \div d) ELSE n \div d

(* The smallest time has no negative: the compiler may negate it to itself *)
(* or divide by -Unit at once.                                             *)
Negations(time) == IF time = -TimeSpan THEN {time, -time} ELSE {-time}

(* A bug the code could have: the time is divided before it is negated in  *)
(* a division that rounds down.                                            *)
MillisecondsRoundedUp(timeout) ==
    IF timeout = Null THEN {INFINITE} ELSE {(-(timeout[1] \div Unit)) % MsModulus}

GuestTimeoutToMilliseconds(timeout) ==
    IF timeout = Null THEN {INFINITE}
    ELSE {Divided(ticks, Unit) % MsModulus : ticks \in Negations(timeout[1])}

KeDelayExecutionThread(alertable, timeout) ==
    /\ request' = [call |-> "delay", alertable |-> alertable, timeout |-> timeout]
    /\ IF alertable THEN reply' = [status |-> "STATUS_USER_APC", slept |-> 0]
       ELSE \E ms \in GuestTimeoutToMilliseconds(timeout) :
              reply' = [status |-> "STATUS_SUCCESS", slept |-> ms]
    /\ UNCHANGED <<wide, wideBytes, narrow, narrowBytes>>

(* A length of 16 bits, and one more for the terminator in 16 bits too; a  *)
(* null pointer is a text of no bytes.                                     *)
RtlInitAnsiString(strlen) ==
    LET length == strlen % Width16
    IN  /\ request' = [call |-> "string", strlen |-> strlen]
        /\ reply' = [Length |-> length, MaximumLength |-> (length + 1) % Width16]
        /\ UNCHANGED <<wide, wideBytes, narrow, narrowBytes>>

-----------------------------------------------------------------------------
Written(buffer, characters) ==
    [i \in DOMAIN buffer |-> IF i <= Len(characters) THEN characters[i] ELSE buffer[i]]

SignExtended(byte) == IF byte >= 128 THEN Width16 - 256 + byte ELSE byte

(* Into a new buffer of `max` bytes.  A null BytesInUnicodeString is told  *)
(* nothing.                                                                *)
RtlMultiByteToUnicodeN(text, max, tells) ==
    LET length == Min({max \div 2, Len(text)})
    IN  /\ request' = [call |-> "widen", text |-> text, max |-> max]
        /\ wide' = Written(EmptyBuffer, [i \in 1 .. length |-> SignExtended(text[i])])
        /\ wideBytes' = IF tells THEN length * 2 ELSE Untouched
        /\ narrow' = EmptyBuffer /\ narrowBytes' = Untouched
        /\ reply' = [status |-> "STATUS_SUCCESS"]

Narrowed(unit) == IF unit < 256 THEN unit ELSE 63

(* A size is stored even for a call that fails; nothing else is.           *)
RtlUnicodeToMultiByteN(max, bytes, tells) ==
    LET reqSize == bytes \div 2
    IN  /\ request' = [call |-> "narrow", text |-> request.text, bytes |-> bytes, max |-> max]
        /\ narrowBytes' = IF tells THEN reqSize ELSE narrowBytes
        /\ IF reqSize > max THEN reply' = [status |-> "STATUS_FAIL_CHECK"] /\ UNCHANGED narrow
           ELSE /\ narrow' = Written(narrow, [i \in 1 .. reqSize |-> Narrowed(wide[i])])
                /\ reply' = [status |-> "STATUS_SUCCESS"]
        /\ UNCHANGED <<wide, wideBytes>>

-----------------------------------------------------------------------------
Refused == -1
UserSettings ==
    [setting \in 1 .. 7 \cup {9, 10, 12, 14} |->
       CASE setting = 9 -> 1 [] setting = 10 -> 262144 [] setting = 12 -> 1
         [] setting = 14 -> 103 [] OTHER -> 0]

(* The first word of `data`, or Refused.  The case of the secured category *)
(* has no break: it goes on into the user's, whose setting 2 is the name   *)
(* of a time zone.  An unknown category has no case, and succeeds.         *)
SettingData(category, setting) ==
    CASE category = 2 /\ setting # 2 -> Refused
      [] category \in {2, 3} -> IF setting \in DOMAIN UserSettings THEN UserSettings[setting] ELSE Refused
      [] OTHER -> 0

ExGetXConfigSetting(category, setting, size) ==
    LET data == SettingData(category, setting)
    IN  /\ request' = [call |-> "config", category |-> category, setting |-> setting, size |-> size]
        /\ reply' = IF data = Refused THEN [status |-> 1, written |-> 0]
                     ELSE [status |-> 0, data |-> data, required |-> 4, written |-> Min({size, 16})]
        /\ UNCHANGED <<wide, wideBytes, narrow, narrowBytes>>

-----------------------------------------------------------------------------
(* The guest narrows what it widened, of the size that it was told, or as  *)
(* much as its buffer would hold; after a failure it tries again with the  *)
(* size that it was told it needs.                                         *)
NarrowStep ==
    \/ /\ request.call = "widen" /\ wideBytes # Untouched
       /\ \E max \in Limits, tells \in BOOLEAN : RtlUnicodeToMultiByteN(max, wideBytes, tells)
    \/ /\ request.call = "narrow" /\ reply.status = "STATUS_FAIL_CHECK" /\ narrowBytes # Untouched
       /\ RtlUnicodeToMultiByteN(narrowBytes, request.bytes, TRUE)

FirstStep ==
    \/ \E alertable \in BOOLEAN : \E timeout \in {Null} \cup {<<time>> : time \in Times} :
          KeDelayExecutionThread(alertable, timeout)
    \/ \E strlen \in TextLengths : RtlInitAnsiString(strlen)
    \/ \E text \in Texts, max \in Limits, tells \in BOOLEAN :
          RtlMultiByteToUnicodeN(text, max, tells)
    \/ \E category \in {1, 2, 3}, setting \in 1 .. 15, size \in {0, 4, 20} :
          ExGetXConfigSetting(category, setting, size)

ConversionsNext == NarrowStep \/ (request.call = "none" /\ FirstStep)

ConversionsSpec == ConversionsInit /\ [][ConversionsNext]_convVars

-----------------------------------------------------------------------------
(* A thread that asks for a relative time sleeps for it rounded down to a  *)
(* millisecond, unless it asks for longer than milliseconds can say; only  *)
(* null asks for ever.                                                     *)
SleepsAsAsked ==
    request.call = "delay" =>
        \/ request.alertable /\ reply.slept = 0
        \/ request.timeout = Null /\ reply.slept = INFINITE
        \/ /\ request.timeout # Null
           /\ LET time == -request.timeout[1]
              IN  0 <= time /\ time < Unit * INFINITE =>
                     reply.slept * Unit <= time /\ time < (reply.slept + 1) * Unit

(* A counted string never reaches past its text, and has its length and    *)
(* room for the terminator when these fit 16 bits.                         *)
StringsFitTheirTexts ==
    request.call = "string" =>
        /\ reply.Length <= request.strlen
        /\ request.strlen < Width16 - 1 =>
             reply.Length = request.strlen /\ reply.MaximumLength = request.strlen + 1

(* A text that is narrowed after it was widened is the text as far as the  *)
(* guest was told, with a question mark for each byte that is not ASCII;   *)
(* nothing after it is touched; a conversion that fails touches nothing,   *)
(* and succeeds with the size that it asks for.                            *)
TextsComeBack ==
    request.call = "narrow" =>
        LET size == wideBytes \div 2
        IN  /\ reply.status = "STATUS_SUCCESS" =>
                 /\ size <= Len(request.text) /\ size <= request.max
                 /\ \A i \in DOMAIN narrow :
                      narrow[i] = IF i > size THEN Untouched
                                  ELSE IF request.text[i] < 128 THEN request.text[i] ELSE 63
            /\ reply.status # "STATUS_SUCCESS" => narrow = EmptyBuffer /\ request.max # narrowBytes

(* GuestTimeoutToMilliseconds, RtlInitAnsiString and the conversions of    *)
(* texts give what their callers go by: relative times are not lengthened, *)
(* sizes are exact, texts in ASCII come back.                              *)
ConversionsAreTrue == SleepsAsAsked /\ StringsFitTheirTexts /\ TextsComeBack

(* XCONFIG_SECURED_AV_REGION is 0x1000, "USA/Canada", for a guest that is  *)
(* told of success.                                                        *)
RegionIsNorthAmerica ==
    request.call = "config" /\ request.category = 2 /\ reply.status = 0 /\ reply.written >= 4
        => reply.data = 4096

=============================================================================
