------------------------------- MODULE Config -------------------------------
(***************************************************************************)
(* The configuration (config.rs): what the arguments and the file of the   *)
(* server make of it.                                                      *)
(*                                                                         *)
(* A text is the sequence that its reader makes of it: one number, nothing *)
(* for a text that is no number; the characters of a name or a password;   *)
(* the entries of a whitelist (see Whitelist); the servers of a list of    *)
(* name servers, where Blank is an entry that is none.  An argument is an  *)
(* option with its value, None if there is none; the two spellings of an   *)
(* option and "option=value" are alike.                                    *)
(*                                                                         *)
(* A line is spelt plainly, or in a way that not every reader takes for    *)
(* the same: "wide" with white space beyond ASCII where trim() removes it, *)
(* "return" with one carriage return more at its end, "foreign" with bytes *)
(* that are not UTF-8.                                                     *)
(***************************************************************************)
EXTENDS Whitelist, SequencesExt

CONSTANTS MaxPort,     \* u16::MAX
          MaxBytes,    \* the longest user name and password, 255
          MaxServers,  \* the most name servers, 8
          DefaultDns   \* the name servers if none are given

\* A loop over a sequence.  (FoldLeft of SequencesExt goes by sets of indices,
\* which takes too long for the number of files that the checks read.)
Along(body(_, _), before, s) ==
  LET after[i \in 0 .. Len(s)] == IF i = 0 THEN before ELSE body(after[i - 1], s[i])
  IN after[Len(s)]

Assign(key, value) == [form |-> "assign", key |-> key, value |-> value, spelt |-> "plain"]
Comment == [form |-> "skip", spelt |-> "plain"]    \* a comment or an empty line
NoEquals == [form |-> "bad", spelt |-> "plain"]
As(line, spelling) == [line EXCEPT !.spelt = spelling]
Option(key, value) == [key |-> key, value |-> value]

Keys == {"port", "username", "password", "whitelist", "tcp_timeout", "udp_timeout",
         "dns_servers"}

Numeral(n) == <<[number |-> n]>>
Word(n)    == [i \in 1 .. n |-> [character |-> 1]]

DnsPort == 53
Server(ip, port) == [blank |-> FALSE, ip |-> ip, port |-> port]

Defaults ==
  [port |-> 1080, username |-> <<>>, password |-> <<>>, whitelist |-> {},
   tcp_timeout |-> None, udp_timeout |-> 60, dns_servers |-> DefaultDns]

------------------------------------------------------------------------------
\* The value that the text of a key stands for.
value_of(key, text) ==
  LET number == text[1].number
      servers == [i \in DOMAIN text |->
                    IF text[i].blank \/ text[i].port # None THEN text[i]
                    ELSE Server(text[i].ip, DnsPort)]
      Unusable(s) == s.blank \/ is_unspecified(s.ip) \/ s.port = 0
  IN CASE key = "port" ->
            IF text # <<>> /\ number \in 1 .. MaxPort THEN Ok(number) ELSE Err("port")
       [] key \in {"username", "password"} -> Ok(text)
       [] key = "whitelist" -> parse(text)
       [] key = "tcp_timeout" ->
            IF text = <<>> THEN Err("timeout")
            ELSE Ok(IF number = 0 THEN None ELSE number)
       [] key = "udp_timeout" -> IF text = <<>> THEN Err("timeout") ELSE Ok(number)
       [] key = "dns_servers" ->
            IF Len(text) \in 1 .. MaxServers /\ \A i \in DOMAIN text : ~Unusable(servers[i])
              THEN Ok(servers) ELSE Err("dns")
       [] OTHER -> Err("key")

\* Mutant: a key that is set already is left as it is.
apply_value_once(r, key, text) ==
  LET v == value_of(key, text) IN
  IF ~r.ok THEN r
  ELSE IF ~v.ok THEN v
  ELSE IF r.value[key] # Defaults[key] THEN r
  ELSE Ok([r.value EXCEPT ![key] = v.value])

\* apply_value to a configuration that has not failed before.
apply_value(r, key, text) ==
  LET v == value_of(key, text) IN
  IF ~r.ok THEN r
  ELSE IF ~v.ok THEN v
  ELSE Ok([r.value EXCEPT ![key] = v.value])

\* One line of the file.  (Here all of trim() and both of two carriage returns
\* go; see load_line of Installer for the other reader.)
read_line(acc, l) ==
  IF ~acc.ok \/ l.form = "skip" THEN acc
  ELSE IF l.form = "bad" THEN Err("line")
  ELSE apply_value(acc, l.key, l.value)

\* read_to_string takes UTF-8 only, as a whole.
read_file(r, lines) ==
  IF lines = None \/ \E i \in DOMAIN lines : lines[i].spelt = "foreign" THEN Err("file")
  ELSE Along(read_line, r, lines)

validate(c) ==
  /\ (c.username = <<>>) = (c.password = <<>>)
  /\ Len(c.username) <= MaxBytes /\ Len(c.password) <= MaxBytes

------------------------------------------------------------------------------
\* The arguments in their order: the path, the options to apply later.
read_arg(acc, a) ==
  IF ~acc.ok \/ acc.value.exit THEN acc
  ELSE IF a.key = "help" THEN Ok([acc.value EXCEPT !.exit = TRUE])
  ELSE IF a.key \notin Keys \cup {"config"} \/ a.value = None THEN Err("argument")
  ELSE IF a.key # "config" THEN Ok([acc.value EXCEPT !.overrides = Append(@, a)])
  ELSE IF a.value = <<>> \/ acc.value.path # None THEN Err("path")
  ELSE Ok([acc.value EXCEPT !.path = a.value])

read_args(args) ==
  Along(read_arg, Ok([exit |-> FALSE, path |-> None, overrides |-> <<>>]), args)

override(acc, option) == apply_value(acc, option.key, option.value)

\* Config::parse, with the lines of the file that --config names, None if it
\* cannot be read.  Ok(None) is the end after --help or --version.
parse_config(args, lines) ==
  LET a == read_args(args)
      file  == IF a.value.path = None THEN Ok(Defaults) ELSE read_file(Ok(Defaults), lines)
      final == Along(override, file, a.value.overrides)
  IN IF ~a.ok THEN a
     ELSE IF a.value.exit THEN Ok(None)
     ELSE IF ~final.ok THEN final
     ELSE IF ~validate(final.value) THEN Err("credentials")
     ELSE final

------------------------------------------------------------------------------
(* The reference: the texts that are given for a key, in the order in which*)
(* they count, and what is wrong with a start.                             *)
Asks(args, key) == \E i \in DOMAIN args : args[i].key = key

Given(args, lines, key) ==
  LET texts(s) == [i \in DOMAIN s |-> s[i].value]
      read == IF Asks(args, "config") THEN lines ELSE <<>>
  IN texts(SelectSeq(read, LAMBDA l : l.form = "assign" /\ l.key = key))
       \o texts(SelectSeq(args, LAMBDA a : a.key = key))

\* The value in force for a key: that of the last text, or the default.
InForce(args, lines, key) ==
  LET texts == Given(args, lines, key) IN
  IF texts = <<>> THEN Ok(Defaults[key]) ELSE value_of(key, Last(texts))

SoundArgs(args) ==
  \A i \in DOMAIN args :
    /\ args[i].value # None
    /\ \/ args[i].key \in Keys /\ value_of(args[i].key, args[i].value).ok
       \/ /\ args[i].key = "config" /\ args[i].value # <<>>
          /\ \A j \in 1 .. i - 1 : args[j].key # "config"

SoundLines(lines) ==
  /\ lines # None
  /\ \A i \in DOMAIN lines :
       /\ lines[i].spelt # "foreign"
       /\ \/ lines[i].form = "skip"
          \/ lines[i].form = "assign" /\ value_of(lines[i].key, lines[i].value).ok

Sound(args, lines) ==
  /\ SoundArgs(args)
  /\ Asks(args, "config") => SoundLines(lines)
  /\ validate([key \in Keys |-> InForce(args, lines, key).value])
=============================================================================
