-------------------------------- MODULE Config --------------------------------
(***************************************************************************)
(* The configuration (src/scamp/config.go): Load, which reads settings from *)
(* a file line by line, Set, and the getters.                               *)
(*                                                                          *)
(* doLoad keeps what the regular expression matched, a slice of the line    *)
(* that scanner.Bytes() returns, and that line is a slice of the scanner's  *)
(* buffer.  So a value is modelled as what it is in memory: a place in an   *)
(* array.  Text is a sequence of symbols: a key with its equals sign, a     *)
(* symbol of a value, a space or a newline.  (The key of "a=b=c", which the *)
(* expression takes to be "a=b", and blanks before a value are left out.)   *)
(***************************************************************************)
EXTENDS Naturals, Sequences, FiniteSets, SequencesExt

CONSTANTS
  Symbols,       \* what values are made of
  Texts,         \* contents of configuration files
  Numbers,       \* values strconv takes for a port
  Addresses,     \* values net.ParseIP takes for an address
  StartBufSize,  \* the scanner's first buffer, 4096 bytes in bufio
  MaxTokenSize,  \* its largest, 64 KiB in bufio
  MaxCalls,      \* bound: calls of Load and Set
  SetValues      \* bound: values given to Set

(* The settings some getter asks for.                                       *)
Keys == {"soa_key", "discovery.port", "discovery.multicast_address", "service.running_service_file_dir_path"}

Newline == "newline"
Space == "space"
Unused == "unused"     \* memory that was not written yet
Nil == <<"nil">>       \* in place of a value: the map has no such key

ASSUME TextsAssumption ==
  /\ Texts \subseteq Seq(Keys \cup Symbols \cup {Newline, Space})
  /\ Keys \cap Symbols = {}
  /\ {Newline, Space, Unused} \cap (Keys \cup Symbols) = {}
ASSUME BufferAssumption ==
  StartBufSize \in Nat \ {0} /\ MaxTokenSize \in Nat /\ StartBufSize <= MaxTokenSize
ASSUME CallsAssumption ==
  MaxCalls \in Nat /\ SetValues \subseteq Seq(Keys \cup Symbols \cup {Newline, Space})

VARIABLES
  values,    \* conf.values: [keys set so far -> place in memory]
  memory,    \* the arrays values and the scanner refer to
  scanner,   \* its local state in Load; array = 0 when no Load is in progress
  written,   \* history: what the files loaded and the calls of Set say
  small,     \* history: so far every file fitted into the first buffer
  calls      \* calls of Load and Set so far

configVars == <<values, memory, scanner, written, small, calls>>

-----------------------------------------------------------------------------
(* External: bufio.Scanner with ScanLines.  Its buffer is the array, of     *)
(* which start+1..end is read but not handed out yet.                       *)

Idle == [array |-> 0, start |-> 0, end |-> 0, rest |-> <<>>, eof |-> FALSE]

Loading == scanner.array # 0
Buf == memory[scanner.array]
Pending == SubSeq(Buf, scanner.start + 1, scanner.end)
IsNewline(c) == c = Newline

(* The next line, and how far the scanner moves on for it: past the newline *)
(* if there is one, the rest at the end of the file if there is none.       *)
HasToken == Contains(Pending, Newline) \/ (scanner.eof /\ Pending # <<>>)
Token ==
  IF Contains(Pending, Newline)
  THEN SubSeq(Pending, 1, SelectInSeq(Pending, IsNewline) - 1)
  ELSE Pending
Advance == IF Contains(Pending, Newline) THEN Len(Token) + 1 ELSE Len(Token)

(* What is left is moved to the front of the buffer when the buffer is full *)
(* or more than half of it is behind.                                       *)
Shifts == scanner.start > 0 /\ (scanner.end = Len(Buf) \/ scanner.start > Len(Buf) \div 2)
ShiftedBuf ==
  IF Shifts THEN Pending \o SubSeq(Buf, Len(Pending) + 1, Len(Buf)) ELSE Buf
ShiftedStart == IF Shifts THEN 0 ELSE scanner.start
ShiftedEnd == IF Shifts THEN Len(Pending) ELSE scanner.end

(* Then it is read on, over what stood there; the end of the file is found  *)
(* by a read that returns nothing.                                          *)
ScanRead ==
  /\ Loading /\ ~HasToken /\ ~scanner.eof
  /\ ShiftedEnd < Len(Buf)
  /\ LET n == IF Len(scanner.rest) < Len(Buf) - ShiftedEnd
              THEN Len(scanner.rest) ELSE Len(Buf) - ShiftedEnd
     IN  /\ memory' = [memory EXCEPT ![scanner.array] =
                         SubSeq(ShiftedBuf, 1, ShiftedEnd) \o SubSeq(scanner.rest, 1, n)
                           \o SubSeq(ShiftedBuf, ShiftedEnd + n + 1, Len(Buf))]
         /\ scanner' = [array |-> scanner.array, start |-> ShiftedStart, end |-> ShiftedEnd + n,
                        rest |-> SubSeq(scanner.rest, n + 1, Len(scanner.rest)), eof |-> n = 0]
  /\ UNCHANGED <<values, written, small, calls>>

(* A line that fills the buffer is copied to a new one of twice the size,   *)
(* or of the largest.                                                       *)
NewSize == IF 2 * Len(Buf) <= MaxTokenSize THEN 2 * Len(Buf) ELSE MaxTokenSize
ScanGrow ==
  /\ Loading /\ ~HasToken /\ ~scanner.eof
  /\ ShiftedEnd = Len(Buf) /\ Len(Buf) < MaxTokenSize
  /\ memory' = Append(memory, Buf \o [k \in 1..(NewSize - Len(Buf)) |-> Unused])
  /\ scanner' = [scanner EXCEPT !.array = Len(memory) + 1]
  /\ UNCHANGED <<values, written, small, calls>>

-----------------------------------------------------------------------------
(* Config *)

(* configLine: a key, an equals sign and a value up to the next blank.      *)
Matches(line) == Len(line) >= 2 /\ line[1] \in Keys /\ line[2] \in Symbols
ValueLen(line) ==
  Cardinality({k \in 2..Len(line) : \A j \in 2..k : line[j] # Space})

Deref(place) == SubSeq(memory[place.array], place.first, place.first + place.len - 1)
Put(f, key, value) == [k \in DOMAIN f \cup {key} |-> IF k = key THEN value ELSE f[k]]

(* The lines of a text by the position of their first symbol, and those the *)
(* scanner gets to: a line that is too long for it ends the scan.           *)
Newlines(text) == {k \in DOMAIN text : text[k] = Newline}
Starts(text) == {k \in DOMAIN text : k = 1 \/ (k - 1) \in Newlines(text)}
LineAt(text, k) ==
  LET ends == {j \in Newlines(text) : j >= k}
  IN  IF ends = {} THEN SubSeq(text, k, Len(text))
      ELSE SubSeq(text, k, (CHOOSE j \in ends : \A i \in ends : j <= i) - 1)
ReadLines(text) ==
  {k \in Starts(text) : \A j \in Starts(text) : j <= k => Len(LineAt(text, j)) < MaxTokenSize}
LinesOf(text, key) == {k \in ReadLines(text) : Matches(LineAt(text, k)) /\ text[k] = key}

(* What a text sets, whatever is done to read it: the last line of each key *)
(* counts.                                                                  *)
Says(text) ==
  [key \in {key \in Keys : LinesOf(text, key) # {}} |->
     LET line == LineAt(text, CHOOSE k \in LinesOf(text, key) : \A j \in LinesOf(text, key) : j <= k)
     IN  SubSeq(line, 2, ValueLen(line) + 1)]

(* Load opens the file and makes a scanner.  (A file that cannot be opened  *)
(* changes nothing.)                                                        *)
Load(text) ==
  /\ ~Loading
  /\ calls < MaxCalls
  /\ calls' = calls + 1
  /\ memory' = Append(memory, [k \in 1..StartBufSize |-> Unused])
  /\ scanner' = [array |-> Len(memory) + 1, start |-> 0, end |-> 0, rest |-> text, eof |-> FALSE]
  /\ written' = [key \in DOMAIN written \cup DOMAIN Says(text) |->
                   IF key \in DOMAIN Says(text) THEN Says(text)[key] ELSE written[key]]
  /\ small' = (small /\ Len(text) <= StartBufSize /\ (text = <<>> \/ Last(text) = Newline))
  /\ UNCHANGED values

(* Mutant of LoadLine: the value is taken to reach one symbol further.      *)
LoadLineOver ==
  /\ Loading
  /\ HasToken
  /\ values' = IF Matches(Token)
               THEN Put(values, Token[1], [array |-> scanner.array, first |-> scanner.start + 2,
                                           len |-> ValueLen(Token) + 1])
               ELSE values
  /\ scanner' = [scanner EXCEPT !.start = @ + Advance]
  /\ UNCHANGED <<memory, written, small, calls>>

(* Mutant of LoadLine: the first line that sets a key counts.               *)
LoadLineFirst ==
  /\ Loading
  /\ HasToken
  /\ values' = IF Matches(Token) /\ Token[1] \notin DOMAIN values
               THEN Put(values, Token[1], [array |-> scanner.array, first |-> scanner.start + 2,
                                           len |-> ValueLen(Token)])
               ELSE values
  /\ scanner' = [scanner EXCEPT !.start = @ + Advance]
  /\ UNCHANGED <<memory, written, small, calls>>

(* One turn of doLoad's loop: the value is kept where it stands.            *)
LoadLine ==
  /\ Loading
  /\ HasToken
  /\ values' = IF Matches(Token)
               THEN Put(values, Token[1], [array |-> scanner.array, first |-> scanner.start + 2,
                                           len |-> ValueLen(Token)])
               ELSE values
  /\ scanner' = [scanner EXCEPT !.start = @ + Advance]
  /\ UNCHANGED <<memory, written, small, calls>>

(* Scan returns false, at the end of the file or at a line that is too      *)
(* long; Load returns no error in either case.                              *)
LoadEnd ==
  /\ Loading /\ ~HasToken
  /\ scanner.eof \/ (ShiftedEnd = Len(Buf) /\ Len(Buf) >= MaxTokenSize)
  /\ scanner' = Idle
  /\ UNCHANGED <<values, memory, written, small, calls>>

(* Set makes a slice of its own.                                            *)
Set(key, value) ==
  /\ ~Loading
  /\ calls < MaxCalls
  /\ calls' = calls + 1
  /\ memory' = Append(memory, value)
  /\ values' = Put(values, key, [array |-> Len(memory) + 1, first |-> 1, len |-> Len(value)])
  /\ written' = Put(written, key, value)
  /\ UNCHANGED <<scanner, small>>

ConfigInit ==
  /\ values = << >> /\ memory = << >> /\ scanner = Idle
  /\ written = << >> /\ small = TRUE /\ calls = 0

LoadStep == ScanRead \/ ScanGrow \/ LoadLine \/ LoadEnd

ConfigNext ==
  \/ \E text \in Texts : Load(text)
  \/ LoadStep
  \/ \E key \in Keys, value \in SetValues : Set(key, value)

ConfigSpec == ConfigInit /\ [][ConfigNext]_configVars

-----------------------------------------------------------------------------
(* The getters *)

Get(key) == IF key \in DOMAIN values THEN Deref(values[key]) ELSE Nil

(* ServiceKeyPath and ServiceCertPath make a path of the service's name if  *)
(* none is set.                                                             *)
DefaultPath == <<"/etc/GT_private/services">>
ServicePath(raw) == IF raw = Nil THEN DefaultPath ELSE raw

(* An address that cannot be parsed is no address; a port or a log level    *)
(* that cannot be parsed is the default one.                                *)
DefaultGroupIP == <<"239.63.248.106">>
MulticastIP(raw) == CASE raw = Nil -> DefaultGroupIP
                      [] raw # Nil -> IF raw \in Addresses THEN raw ELSE Nil
DefaultNumber == <<"5555">>
Number(raw) == IF raw \in Numbers THEN raw ELSE DefaultNumber

(* No directory is an error.                                                *)
RunningServiceFileDirPath(raw) == raw

(* What they return, of the raw value of every key; the getters for the     *)
(* local address and port do the same with keys of their own.               *)
Settings(raw) ==
  [path |-> ServicePath(raw["soa_key"]),
   ip   |-> MulticastIP(raw["discovery.multicast_address"]),
   port |-> Number(raw["discovery.port"]),
   dir  |-> RunningServiceFileDirPath(raw["service.running_service_file_dir_path"])]

-----------------------------------------------------------------------------
(* Properties *)

Written(key) == IF key \in DOMAIN written THEN written[key] ELSE Nil

(* Every value is a place inside what was read into an array, and the       *)
(* scanner stays inside its array.                                          *)
ConfigTypeOK ==
  /\ \A key \in DOMAIN values :
       /\ key \in Keys
       /\ values[key].array \in DOMAIN memory
       /\ values[key].first + values[key].len - 1 <= Len(memory[values[key].array])
       /\ ~Contains(Deref(values[key]), Unused)
  /\ scanner.array \in 0..Len(memory)
  /\ Loading => scanner.start <= scanner.end /\ scanner.end <= Len(Buf)
  /\ small \in BOOLEAN /\ calls \in 0..MaxCalls

(* Between calls every getter returns what the last line or Set that names  *)
(* its key said: "Load loads configuration k/v pairs from the file"         *)
(* (config.go:91), and a getter "uses the configuration" (config.go:121).   *)
LoadKeepsValues ==
  ~Loading => Settings([key \in Keys |-> Get(key)]) = Settings([key \in Keys |-> Written(key)])

(* That holds as long as the files fit into the scanner's first buffer and  *)
(* end in a newline, so that no text moves in it, however often they are    *)
(* loaded over each other and over values given to Set; and whatever the    *)
(* file, its keys are set and no others.                                    *)
SmallFilesAreKept ==
  ~Loading => /\ DOMAIN values = DOMAIN written
              /\ small => LoadKeepsValues
=============================================================================
