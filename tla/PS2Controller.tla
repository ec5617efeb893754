---------------------------- MODULE PS2Controller ----------------------------
(***************************************************************************)
(* PS2Controller::Init, the start of the 8042 and of what is plugged into it. *)
(* The 8042 and the devices are not the kernel's code: they queue the bytes   *)
(* they answer with.  ReadData does not wait for an answer; one that is late  *)
(* leaves it with the byte that was read last.  The configuration byte is none*)
(* of the bytes that Init looks for.                                         *)
(***************************************************************************)
EXTENDS Naturals, Sequences

CONSTANTS MaxAttempts,  \* reads of a reset's outcome (255 in the code)
          MaxLate       \* bound on the answers that come late

VARIABLES pc,           \* where Init is
          plugged,      \* what each port has: "none", "keyboard" or "mouse"
          config,       \* set bits of the controller's configuration byte
          out,          \* the output buffer: bytes to be read
          latest,       \* the byte that was read last
          late,         \* answers that came late
          m_DualChannel, stage, attempts, bytes,
          m_Devices     \* the types Init has entered

ps2 == <<pc, plugged, config, out, latest, late, m_DualChannel, stage, attempts, bytes, m_Devices>>

ACK == "FA"
Resend == "FE"
Done == "AA"

(* What a device answers.  A mouse sends its identity after a reset too.        *)
ResetReply(device) ==
    CASE device = "keyboard" -> {<<ACK, Done>>, <<Resend, ACK, Done>>}
      [] device = "mouse" -> {<<ACK, Done, "00">>}
      [] OTHER -> {<<Resend, Resend, Resend, Resend>>}
Identity(device) == IF device = "keyboard" THEN {<<"AB", "83">>, <<>>} ELSE {<<"00">>}

\* GetDeviceType: TRUE for a mouse.
GetDeviceType(id) == Len(id) = 1 /\ id[1] \in {"00", "03", "04"}

Init ==
    /\ pc = "flush"
    /\ plugged \in [1 .. 2 -> {"none", "keyboard", "mouse"}]
    /\ config \in {{}, {"int1"}, {"int1", "int2", "translate"}}
    /\ out \in {<<>>, <<"1C">>}
    /\ latest = "" /\ late = 0
    /\ m_DualChannel = FALSE /\ stage = FALSE /\ attempts = MaxAttempts /\ bytes = <<>>
    /\ m_Devices = [i \in 1 .. 2 |-> "unset"]

(* The byte ReadData returns of the pending ones, and what is left of them.     *)
ReadData(pending, b, rest) ==
    \/ pending # <<>> /\ b = Head(pending) /\ rest = Tail(pending)
    \/ b = latest /\ rest = pending /\ (pending = <<>> \/ late < MaxLate)
Answers(pending) ==
    {r \in ({latest} \cup {pending[i] : i \in DOMAIN pending}) \X {pending, SubSeq(pending, 2, Len(pending))} :
        ReadData(pending, r[1], r[2])}

Took(r, pending) ==
    /\ latest' = r[1]
    /\ out' = r[2]
    /\ late' = IF r[2] = pending /\ pending # <<>> THEN late + 1 ELSE late

\* The byte that is in the output buffer, if there is one, is dropped.
Flush ==
    /\ pc = "flush" /\ pc' = "config"
    /\ out' = <<>> /\ latest' = IF out = <<>> THEN latest ELSE Head(out)
    /\ UNCHANGED <<plugged, config, late, m_DualChannel, stage, attempts, bytes, m_Devices>>

(* The bits of a byte that is taken for the configuration; of what was in the    *)
(* output buffer before the first read nothing is known.                        *)
Switches == {"int1", "int2", "translate"}
BitsOf(b) ==
    CASE b = "config" -> {config}
      [] b = "1C" -> {{}}
      [] b = "55" -> {{"int1", "translate"}}
      [] b = ACK -> {{"int2", "translate"}}
      [] OTHER -> SUBSET Switches

\* Interrupts and translation off, in the byte that was read.
Cleared(bits) == bits \ Switches
Configure ==
    \E r \in Answers(Append(out, "config")) : \E bits \in BitsOf(r[1]) :
        /\ pc = "config" /\ pc' = "self_test"
        /\ Took(r, Append(out, "config"))
        /\ config' = Cleared(bits)
        /\ UNCHANGED <<plugged, m_DualChannel, stage, attempts, bytes, m_Devices>>

SelfTest ==
    \E r \in Answers(Append(out, "55")) :
        /\ pc = "self_test"
        /\ Took(r, Append(out, "55"))
        /\ pc' = IF r[1] = "55" THEN "dual" ELSE "panic"
        /\ UNCHANGED <<plugged, config, m_DualChannel, stage, attempts, bytes, m_Devices>>

(* "Check if it is a dual channel controller": the bit that is looked at is the *)
(* second port's interrupt, which Configure cleared.                           *)
DualChannel ==
    \E r \in Answers(Append(out, "config")) : \E bits \in BitsOf(r[1]) :
        /\ pc = "dual" /\ pc' = "test"
        /\ Took(r, Append(out, "config"))
        /\ m_DualChannel' = ("int2" \in bits)
        /\ UNCHANGED <<plugged, config, stage, attempts, bytes, m_Devices>>

(* The interface tests, the ports on, and the reset sent to port 1.  What Init  *)
(* does with port 2 when m_DualChannel is set is left out: it never is,   *)
(* however late the answers, since Comes would fail here.                       *)
TestPort ==
    \E r \in Answers(Append(out, "00")), reply \in ResetReply(plugged[1]) :
        /\ pc = "test" /\ ~m_DualChannel
        /\ latest' = r[1]
        /\ late' = IF Len(r[2]) = Len(out) + 1 THEN late + 1 ELSE late
        /\ out' = r[2] \o reply
        /\ pc' = IF r[1] = "00" THEN "reset" ELSE "panic"
        /\ stage' = FALSE /\ attempts' = MaxAttempts
        /\ UNCHANGED <<plugged, config, m_DualChannel, bytes, m_Devices>>

\* Fault: the attempts are not counted.
AttemptsKept(n) == n

\* Fault: they are counted up.
AttemptsUp(n) == n + 1

\* One turn of the loop that waits for the reset.
Attempts(n) == n - 1
ResetRead ==
    \E r \in Answers(out) :
        /\ pc = "reset"
        /\ Took(r, out)
        /\ attempts' = Attempts(attempts)
        /\ stage' = IF r[1] = ACK THEN TRUE ELSE IF r[1] = Resend THEN FALSE ELSE stage
        /\ pc' = CASE r[1] = Done -> "disable"
                   [] r[1] \notin {ACK, Resend, Done} -> "panic"
                   [] OTHER -> IF attempts' > 0 THEN "reset" ELSE "panic"
        /\ UNCHANGED <<plugged, config, m_DualChannel, bytes, m_Devices>>

(* A command to the device and one byte back that has to be its ACK: disable    *)
(* scanning, identify (which is followed by the identity), enable scanning.     *)
Command(from, to, reply) ==
    \E r \in Answers(Append(out, ACK) \o reply) :
        /\ pc = from
        /\ Took(r, Append(out, ACK) \o reply)
        /\ pc' = IF r[1] = ACK THEN to ELSE "panic"
        /\ UNCHANGED <<plugged, config, m_DualChannel, stage, attempts, bytes, m_Devices>>

Identify == \E id \in Identity(plugged[1]) : Command("identify", "bytes", id)

(* This loop does look at the status: it takes two bytes, or what there is when *)
(* it has waited long enough.                                                   *)
ReadIdentity ==
    /\ pc = "bytes"
    /\ bytes' = SubSeq(out, 1, IF Len(out) < 2 THEN Len(out) ELSE 2)
    /\ out' = SubSeq(out, Len(bytes') + 1, Len(out))
    /\ latest' = IF bytes' = <<>> THEN latest ELSE bytes'[Len(bytes')]
    /\ pc' = "enable"
    /\ UNCHANGED <<plugged, config, late, m_DualChannel, stage, attempts, m_Devices>>

\* The interrupt of port 1 is set in what is read for the configuration.
EnableInterrupts ==
    \E r \in Answers(Append(out, "config")) : \E bits \in BitsOf(r[1]) :
        /\ Took(r, Append(out, "config"))
        /\ config' = bits \cup {"int1"}

\* The device is entered; a keyboard's Initialise turns its interrupt on.
Enter ==
    LET mouse == GetDeviceType(bytes) IN
    /\ pc = "enter" /\ pc' = "done"
    /\ m_Devices' = [m_Devices EXCEPT ![1] = IF mouse THEN "mouse" ELSE "keyboard"]
    /\ IF mouse THEN UNCHANGED <<config, out, latest, late>> ELSE EnableInterrupts
    /\ UNCHANGED <<plugged, m_DualChannel, stage, attempts, bytes>>

Next ==
    \/ Flush \/ Configure \/ SelfTest \/ DualChannel \/ TestPort \/ ResetRead
    \/ Command("disable", "identify", <<>>) \/ Identify \/ ReadIdentity
    \/ Command("enable", "enter", <<>>) \/ Enter

Spec == Init /\ [][Next]_ps2 /\ WF_ps2(Next)

---------------------------------------------------------------------------
\* Type correctness.
TypeOK ==
    /\ config \subseteq Switches
    /\ attempts \in 0 .. MaxAttempts
    /\ m_DualChannel \in BOOLEAN /\ stage \in BOOLEAN /\ Len(bytes) <= 2

(* Init gets to its end only with a keyboard on the first port, enters it as    *)
(* one and turns its interrupt on, however late the answers are.  When they are  *)
(* all in time, a keyboard does get there, with translation and the second port's*)
(* interrupt off and no byte left over; a late answer to EnableInterrupts has an  *)
(* ACK written as the configuration, which turns both on.                       *)
KeyboardFound ==
    /\ pc = "done" => /\ plugged[1] = "keyboard" /\ m_Devices[1] = "keyboard"
                      /\ "int1" \in config
    /\ late = 0 => /\ pc = "done" => config = {"int1"} /\ out = <<>>
                   /\ pc = "panic" => plugged[1] # "keyboard"

(* Init comes to an end, with a device or a panic, whatever the devices answer: *)
(* the reset loop gives up after its attempts.                                  *)
Comes == <>(pc \in {"done", "panic"})
=============================================================================
