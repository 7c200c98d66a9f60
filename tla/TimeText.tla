------------------------------- MODULE TimeText -------------------------------
(***************************************************************************)
(* Times as text: how pages (frontend/src/lib/utils.ts) and the service    *)
(* (time.utils.ts) write them, and how pages, service and the page of      *)
(* applications read them.  A text is the sequence of its numbers; all but *)
(* the first have two digits, so what pads or cuts them leaves them alone. *)
(***************************************************************************)
EXTENDS Integers, Sequences

Minute == 60000
Sec == 1000

(* Milliseconds as minutes, seconds and hundredths, or without minutes.    *)
msToTime(ms) ==
    LET sec  == (ms % Minute) \div Sec
        hund == (ms % Sec) \div 10
    IN  IF ms \div Minute > 0 THEN <<ms \div Minute, sec, hund>> ELSE <<sec, hund>>

(* Two numbers a page reads as minutes and seconds if they can be that.    *)
MaySeconds(text) == text[1] < 10 /\ text[2] < 60

PageParse(text) ==
    IF Len(text) = 3 THEN text[1] * Minute + text[2] * Sec + text[3] * 10
    ELSE IF MaySeconds(text) THEN text[1] * Minute + text[2] * Sec
    ELSE text[1] * Sec + text[2] * 10

(* The service, and the page of applications, take two numbers for seconds *)
(* and hundredths.                                                         *)
ServiceParse(text) ==
    IF Len(text) = 3 THEN text[1] * Minute + text[2] * Sec + text[3] * 10
    ELSE text[1] * Sec + text[2] * 10
=============================================================================
