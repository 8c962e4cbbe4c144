------------------------------ MODULE Download ------------------------------
(***************************************************************************)
(* blob.go: Download with a range, and partReader, under a caller that     *)
(* writes what it reads at the offset it asked for, takes up a download    *)
(* where it broke off, and starts again where IsRangeIgnored says to.  The *)
(* server answers as it likes: it ignores a range, answers with another    *)
(* part than it was asked for or with a part where it was asked for none,  *)
(* or with a body that is not as long as it says.  What it says of the     *)
(* size of the blob, which is what the length of a whole answer says, and  *)
(* the octets it sends for the place it says they are from, are right.     *)
(***************************************************************************)
EXTENDS Integers, Sequences

CONSTANTS
  Sizes,       \* how long the blob may be
  Lengths,     \* DownloadOptions.Length: how much the caller asks for at a time
  WordMax,     \* the largest int64
  Buffers,     \* how much the caller reads at once
  MaxAsks      \* bound: downloads the caller makes

ASSUME SizesAssumption == WordMax \in Nat /\ Sizes \subseteq 0..WordMax /\ Lengths \subseteq 0..WordMax
ASSUME AsksAssumption == MaxAsks \in Nat /\ Buffers \subseteq Nat \ {0}

VARIABLES
  size,        \* the size of the blob
  opts,        \* From and Length of the download in progress
  answer,      \* the response: its status, what it says of its part and its length
  body,        \* the octets of it still to come, and how it ends after them
  left,        \* partReader.left, or NoReader where the body is read as it is
  file,        \* the octets the caller has written, the first at place 1
  unplaced,    \* history: how many octets the file begins with that came in a part no range asked for
  asks,        \* downloads made
  stage

downloadVars == <<size, opts, answer, body, left, file, unplaced, asks, stage>>

Unknown == -1
Malformed == -1
NoReader == -1
NoAnswer == [status |-> 0, from |-> 0, to |-> 0, total |-> Unknown, stated |-> Unknown]

(* An int64 that a sum of two others has passed.                           *)
Wrapped(n) == IF n > WordMax THEN n - 2 * (WordMax + 1) ELSE n

DownloadInit ==
  /\ size \in Sizes
  /\ opts = [from |-> 0, length |-> 0]
  /\ answer = NoAnswer /\ body = [octets |-> <<>>, ends |-> "eof"] /\ left = NoReader
  /\ file = <<>> /\ unplaced = 0 /\ asks = 0 /\ stage = "idle"

(* The octet after the last one asked for is where the next part begins,   *)
(* so the caller asks for what follows the file.                           *)
Ask ==
  /\ stage = "idle" /\ asks < MaxAsks
  /\ \E l \in Lengths : opts' = [from |-> Len(file), length |-> l]
  /\ asks' = asks + 1
  /\ stage' = "asked"
  /\ UNCHANGED <<size, answer, body, left, file, unplaced>>

Wanted == opts.from # 0 \/ opts.length # 0

(* The last octet asked for, where the length is known.                    *)
LastAsked == Wrapped(opts.from + opts.length - 1)

(* A response of the octets from first on, n of them.                      *)
Responds(a, first, n, ends) ==
  /\ answer' = a
  /\ body' = [octets |-> [i \in 1..n |-> first + i - 1], ends |-> ends]
  /\ stage' = "answered"

(* The end of a body of n octets, where its length is stated, is the       *)
(* connection's only when octets are missing; where it is not, a body that *)
(* the connection delimits may end anywhere as if it were all there.       *)
EndOf(n, stated) == IF stated = Unknown THEN {"eof", "dropped"} ELSE {IF n = stated THEN "eof" ELSE "dropped"}

ServerAnswersWhole ==
  /\ stage = "asked"
  /\ \E n \in 0..size, stated \in {Unknown, size} :
       \E ends \in EndOf(n, stated) :
         Responds([status |-> 200, from |-> 0, to |-> 0, total |-> Unknown, stated |-> stated], 0, n, ends)
  /\ UNCHANGED <<size, opts, left, file, unplaced, asks>>

ServerAnswersPart ==
  /\ stage = "asked"
  /\ \E f \in 0..size, t \in 0..size, n \in 0..size, total \in {Unknown, size} :
       \E from \in {f, Malformed}, stated \in {Unknown} \cup 0..(size + 1) :
         \E ends \in EndOf(n, stated) :
           /\ f + n <= size
           /\ stated # Unknown => n <= stated
           /\ Responds([status |-> 206, from |-> from, to |-> t, total |-> total, stated |-> stated], f, n, ends)
  /\ UNCHANGED <<size, opts, left, file, unplaced, asks>>

ServerRefuses ==
  /\ stage = "asked"
  /\ Responds([NoAnswer EXCEPT !.status = 416], 0, 0, "eof")
  /\ UNCHANGED <<size, opts, left, file, unplaced, asks>>

------------------------------------------------------------------------------
\* Download, once the response is there.

(* Mutant: a part that ends sooner is taken at its word.                   *)
EndsWhereAskedOrSooner(a) ==
  /\ ~(a.total >= 0 /\ a.to >= a.total)
  /\ opts.length > 0 => a.to <= LastAsked

(* endsWhereAsked.                                                         *)
EndsWhereAsked(a) ==
  /\ ~(a.total >= 0 /\ a.to >= a.total)
  /\ IF opts.length > 0
     THEN /\ a.to <= LastAsked
          /\ a.to = LastAsked \/ (a.total >= 0 /\ a.to = a.total - 1)
     ELSE a.total < 0 \/ a.to = a.total - 1

(* Mutant: where a part begins is not looked at.                           *)
PlacedAnywhere(a) ==
  /\ a.from # Malformed /\ a.to >= a.from /\ EndsWhereAsked(a)
  /\ a.stated >= 0 => a.stated = a.to - a.from + 1

(* The part can be read, is the one asked for, and is as long as it says.  *)
Placed(a) ==
  /\ a.from # Malformed /\ a.from = opts.from /\ a.to >= a.from /\ EndsWhereAsked(a)
  /\ a.stated >= 0 => a.stated = a.to - a.from + 1

Ignored == stage' = "ignored" /\ UNCHANGED left

(* What is answered is compared with what was asked for only where a range *)
(* was: without one, a part is handed on as if it were the whole.  A body  *)
(* in chunks says how long it is only by ending, and is read through       *)
(* partReader where it is a part.                                          *)
Accept ==
  /\ stage = "answered"
  /\ \/ answer.status \notin {200, 206} /\ stage' = "failed" /\ UNCHANGED left
     \/ answer.status \in {200, 206} /\ ~Wanted /\ stage' = "reading" /\ left' = NoReader
     \/ answer.status = 200 /\ Wanted /\ Ignored
     \/ answer.status = 206 /\ Wanted /\ ~Placed(answer) /\ Ignored
     \/ /\ answer.status = 206 /\ Wanted /\ Placed(answer)
        /\ left' = IF answer.stated < 0 THEN answer.to - answer.from + 1 ELSE NoReader
        /\ stage' = "reading"
  /\ UNCHANGED <<size, opts, answer, body, file, unplaced, asks>>

------------------------------------------------------------------------------
\* Reading.

Smaller(a, b) == IF a <= b THEN a ELSE b

(* The body gives n of its octets, and with the last of them, or after     *)
(* them, how it ends.                                                      *)
Gives(n, err) ==
  /\ n <= Len(body.octets)
  /\ body' = [body EXCEPT !.octets = SubSeq(@, n + 1, Len(@))]
  /\ \/ err = "none" /\ n > 0
     \/ err = body.ends /\ n = Len(body.octets)

Write(n) == file' = file \o SubSeq(body.octets, 1, n)

(* A part that no range asked for is read as the whole, and is all that    *)
(* the file begins with.                                                   *)
Unasked == answer.status = 206 /\ ~Wanted

ReadBody ==
  /\ stage = "reading" /\ left = NoReader
  /\ \E b \in Buffers, err \in {"none", "eof", "dropped"} :
       \E n \in 0..b : /\ Gives(n, err) /\ Write(n)
                       /\ stage' = CASE err = "none" -> "reading" [] err = "eof" -> "done" [] OTHER -> "short"
  /\ unplaced' = IF Unasked THEN Len(file') ELSE unplaced
  /\ UNCHANGED <<size, opts, answer, left, asks>>

(* partReader.Read while there is something left of the part.              *)
ReadPart ==
  /\ stage = "reading" /\ left > 0
  /\ \E b \in Buffers, err \in {"none", "eof", "dropped"} :
       \E n \in 0..Smaller(b, left) :
         /\ Gives(n, err) /\ Write(n)
         /\ left' = left - n
         /\ stage' = CASE err = "none" \/ (err = "eof" /\ left' = 0) -> "reading" [] OTHER -> "short"
  /\ UNCHANGED <<size, opts, answer, unplaced, asks>>

(* partReader.Read once the part is all there: what follows has to be the  *)
(* end of the body.                                                        *)
ReadPastPart ==
  /\ stage = "reading" /\ left = 0
  /\ \E err \in {"none", "eof", "dropped"} :
       \E n \in 0..1 :
         /\ Gives(n, err)
         /\ stage' = CASE n > 0 -> "ignored" [] n = 0 /\ err = "eof" -> "done" [] OTHER -> "short"
  /\ UNCHANGED <<size, opts, answer, left, file, unplaced, asks>>

(* The caller: where the range was ignored it downloads the whole blob     *)
(* instead, and where the part broke off it asks for what follows.         *)
TakeUp ==
  /\ stage \in {"ignored", "short", "failed", "done"}
  /\ file' = IF stage = "ignored" THEN <<>> ELSE file
  /\ unplaced' = IF stage = "ignored" THEN 0 ELSE unplaced
  /\ opts' = [from |-> 0, length |-> 0]
  /\ asks' = IF stage = "ignored" THEN Smaller(asks + 1, MaxAsks) ELSE asks
  /\ stage' = IF stage = "ignored" /\ asks < MaxAsks THEN "asked" ELSE "idle"
  /\ answer' = NoAnswer /\ body' = [octets |-> <<>>, ends |-> "eof"] /\ left' = NoReader
  /\ UNCHANGED size

Server == ServerAnswersWhole \/ ServerAnswersPart \/ ServerRefuses

Read == ReadBody \/ ReadPart \/ ReadPastPart

DownloadNext == Ask \/ Server \/ Accept \/ Read \/ TakeUp

DownloadSpec == DownloadInit /\ [][DownloadNext]_downloadVars

------------------------------------------------------------------------------

(* Whatever the server answers, and wherever downloads broke off and were  *)
(* taken up, no octet is written in another place than its own, and none   *)
(* twice: the file is the beginning of the blob, save for what it begins   *)
(* with of a part that came where no range was asked for, which nothing    *)
(* compares with what was.                                                 *)
FileIsTheBlob == \A i \in DOMAIN file : i > unplaced => file[i] = i - 1

(* A download that ends without an error has brought all that was asked    *)
(* for that the blob has, and no more: to the end of the blob, save where  *)
(* the server did not say where that is.  One without a range has brought  *)
(* what the answer said its length was, which is the blob's where the      *)
(* answer is the whole; where it said none, the end it came to is its end. *)
BroughtWhatWasAsked ==
  stage = "done" =>
    /\ opts.length > 0 => Len(file) = Smaller(opts.from + opts.length, size)
    /\ opts.length = 0 /\ Wanted => Len(file) = size \/ (answer.total = Unknown /\ Len(file) = answer.to + 1)
    /\ ~Wanted /\ answer.stated # Unknown => Len(file) = answer.stated

==============================================================================
