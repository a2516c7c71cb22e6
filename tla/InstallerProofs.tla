--------------------------- MODULE InstallerProofs ---------------------------
(***************************************************************************)
(* Proofs about Installer, for any ports, widths and default name servers: *)
(* what the two programs that read the configuration file make of it, and  *)
(* that whatever operations are chosen, fail or are cut off, the service   *)
(* finds what it needs, its rules and its process are those of its         *)
(* settings, and an upgrade loses no settings.                             *)
(***************************************************************************)
EXTENDS Installer, Loops, SequenceTheorems

------------------------------------------------------------------------------
(* Settings and lines, with any texts.                                     *)
SettingKeys == {"port", "whitelist", "dns_servers"}

\* The settings whose texts are of the kinds K.
Of(K) == [port : K["port"], whitelist : K["whitelist"], dns_servers : K["dns_servers"]]

\* None is no settings, and the script begins with some.
Kinds(K) == None \notin Of(K) /\ Unset \in Of(K)

\* A line with a text for one of the keys, or a wrong one, in any spelling.  (Of
\* the server's other keys none is there.)
IsLine(l, K) ==
  /\ l.form \in {"skip", "bad", "assign"}
  /\ l.form = "assign" =>
       IF l.key \in SettingKeys
         THEN l.value \in K[l.key] /\ (l.spelt = "return" => Marred \in K[l.key])
         ELSE l.key \notin Keys

IsFile(file, K) ==
  /\ file # None /\ Len(file) \in Nat /\ DOMAIN file = 1 .. Len(file)
  /\ \A n \in 1 .. Len(file) : IsLine(file[n], K)

LEMMA OfLemma ==
  ASSUME NEW K, NEW s \in Of(K)
  PROVE  /\ DOMAIN s = SettingKeys
         /\ \A key \in SettingKeys : s[key] \in K[key]
         /\ \A key \in SettingKeys : \A text \in K[key] :
              /\ [s EXCEPT ![key] = text] \in Of(K)
              /\ [s EXCEPT ![key] = text][key] = text
<1>1. DOMAIN s = SettingKeys
  BY DEF Of, SettingKeys
<1>2. \A key \in SettingKeys : s[key] \in K[key]
  BY DEF Of, SettingKeys
<1>3. ASSUME NEW key \in SettingKeys, NEW text \in K[key]
      PROVE  [s EXCEPT ![key] = text] \in Of(K)
  <2>1. CASE key = "port"
    BY <1>3, <2>1 DEF Of
  <2>2. CASE key = "whitelist"
    BY <1>3, <2>2 DEF Of
  <2>3. CASE key = "dns_servers"
    BY <1>3, <2>3 DEF Of
  <2> QED
    BY <2>1, <2>2, <2>3 DEF SettingKeys
<1> QED
  BY <1>1, <1>2, <1>3

LEMMA UnsetLemma == DOMAIN Unset = SettingKeys
BY DEF Unset, SettingKeys

\* What the server makes of settings, if it accepts them.
Meaning(s) ==
  [key \in Keys |-> IF key \in SettingKeys THEN value_of(key, s[key]).value
                     ELSE Defaults[key]]

LEMMA DefaultsLemma ==
  /\ Defaults = [key \in Keys |-> Defaults[key]]
  /\ SettingKeys \subseteq Keys
  /\ {"username", "password"} \subseteq Keys \ SettingKeys
<1>1. \A a, b, c, d, e, f, g, r :
        r = [port |-> a, username |-> b, password |-> c, whitelist |-> d,
             tcp_timeout |-> e, udp_timeout |-> f, dns_servers |-> g]
          => r = [key \in DOMAIN r |-> r[key]]
  OBVIOUS
<1> DEFINE empty == <<>>
           all == {}
<1>2. Defaults = [port |-> 1080, username |-> empty, password |-> empty, whitelist |-> all,
                  tcp_timeout |-> None, udp_timeout |-> 60, dns_servers |-> DefaultDns]
  BY DEF Defaults
<1> HIDE DEF empty, all
<1>3. Defaults = [key \in DOMAIN Defaults |-> Defaults[key]]
  BY <1>1, <1>2
<1>4. DOMAIN Defaults = Keys
  BY <1>2 DEF Keys
<1> QED
  BY <1>3, <1>4 DEF Keys, SettingKeys

LEMMA MeaningUnset ==
  /\ Meaning(Unset) = Defaults
  /\ \A key \in SettingKeys : value_of(key, Unset[key]).ok
<1>1. \A key \in SettingKeys : value_of(key, Unset[key]) = Ok(Defaults[key])
  BY InstallerAssumption, UnsetLemma
<1>2. \A key \in SettingKeys : /\ value_of(key, Unset[key]).value = Defaults[key]
                               /\ value_of(key, Unset[key]).ok
  <2>1. \A x : Ok(x).value = x /\ Ok(x).ok
    BY DEF Ok
  <2> QED
    BY <1>1, <2>1
<1>3. Meaning(Unset) = [key \in Keys |-> Defaults[key]]
  BY <1>2 DEF Meaning
<1> QED
  BY <1>2, <1>3, DefaultsLemma

\* One assignment means the same to the script and to the server, if the server
\* accepts it at all.
LEMMA ApplyLemma ==
  ASSUME NEW K, NEW s \in Of(K), NEW key \in SettingKeys, NEW text
  PROVE  apply_value(Ok(Meaning(s)), key, text)
           = IF value_of(key, text).ok THEN Ok(Meaning([s EXCEPT ![key] = text]))
                                       ELSE value_of(key, text)
<1> DEFINE v == value_of(key, text)
           m == Meaning(s)
<1>1. m = [k \in Keys |-> IF k \in SettingKeys THEN value_of(k, s[k]).value
                           ELSE Defaults[k]]
  BY DEF Meaning
<1>2. DOMAIN s = SettingKeys
  BY OfLemma
<1>3. [m EXCEPT ![key] = v.value] = Meaning([s EXCEPT ![key] = text])
  BY <1>1, <1>2, DefaultsLemma DEF Meaning
<1> HIDE DEF m
<1>4. apply_value(Ok(m), key, text)
        = IF v.ok THEN Ok([m EXCEPT ![key] = v.value]) ELSE v
  <2> HIDE DEF v
  <2>1. apply_value(Ok(m), key, text)
          = IF ~Ok(m).ok THEN Ok(m) ELSE IF ~v.ok THEN v
            ELSE Ok([Ok(m).value EXCEPT ![key] = v.value])
    BY DEF apply_value, v
  <2>2. Ok(m).ok /\ Ok(m).value = m
    BY DEF Ok
  <2> QED
    BY <2>1, <2>2
<1> QED
  BY <1>3, <1>4 DEF m

LEMMA UnknownKey ==
  ASSUME NEW key, key \notin Keys, NEW text
  PROVE  value_of(key, text) = Err("key") /\ ~value_of(key, text).ok
<1>1. /\ key # "port" /\ key \notin {"username", "password"} /\ key # "whitelist"
      /\ key # "tcp_timeout" /\ key # "udp_timeout" /\ key # "dns_servers"
  BY DEF Keys
<1>2. value_of(key, text) = Err("key")
  BY <1>1, Zenon DEF value_of
<1>3. ~Err("key").ok
  BY DEF Err
<1> QED
  BY <1>2, <1>3

------------------------------------------------------------------------------
(* The two readers of the file.                                            *)
\* What load_config_file computes, line by line.
IsLoading(g, file, K) ==
  /\ g \in [0 .. Len(file) -> Of(K) \cup {None}] /\ g[0] = Unset
  /\ \A n \in 1 .. Len(file) : g[n] = load_line(g[n - 1], file[n])

LEMMA LoadLineLemma ==
  ASSUME NEW K, Kinds(K), NEW acc \in Of(K) \cup {None}, NEW l, IsLine(l, K)
  PROVE  /\ load_line(acc, l) \in Of(K) \cup {None}
         /\ acc = None \/ l.spelt = "wide" => load_line(acc, l) = None
         /\ acc # None /\ l.spelt = "plain" =>
              /\ l.form = "skip" => load_line(acc, l) = acc
              /\ l.form = "bad" => load_line(acc, l) = None
              /\ l.form = "assign" =>
                   load_line(acc, l) = IF l.key \in SettingKeys
                                         THEN [acc EXCEPT ![l.key] = l.value] ELSE None
<1>1. l.form \in {"skip", "bad", "assign"}
  BY DEF IsLine
<1>2. acc = None \/ l.spelt = "wide" => load_line(acc, l) = None
  BY DEF load_line
<1>3. ASSUME acc # None, l.spelt # "wide", l.form # "assign" \/ l.key \notin SettingKeys
      PROVE  load_line(acc, l) = IF l.form = "skip" THEN acc ELSE None
  BY <1>1, <1>3, UnsetLemma DEF load_line
<1>4. ASSUME acc # None, l.spelt # "wide", l.form = "assign", l.key \in SettingKeys
      PROVE  /\ load_line(acc, l) \in Of(K)
             /\ l.spelt = "plain" => load_line(acc, l) = [acc EXCEPT ![l.key] = l.value]
  <2> DEFINE text == IF l.spelt = "return" THEN Marred ELSE l.value
  <2>1. text \in K[l.key] /\ (l.spelt = "plain" => text = l.value)
    BY <1>4 DEF IsLine
  <2>2. load_line(acc, l) = [acc EXCEPT ![l.key] = text]
    BY <1>4, UnsetLemma DEF load_line
  <2> HIDE DEF text
  <2>3. [acc EXCEPT ![l.key] = text] \in Of(K)
    BY <1>4, <2>1, OfLemma
  <2> QED
    BY <2>1, <2>2, <2>3
<1>5. load_line(acc, l) \in Of(K) \cup {None}
  BY <1>2, <1>3, <1>4
<1> QED
  BY <1>1, <1>2, <1>3, <1>4, <1>5

LEMMA LoadLemma ==
  ASSUME NEW K, Kinds(K), NEW file, IsFile(file, K)
  PROVE  \E g : IsLoading(g, file, K) /\ load_config_file(file) = g[Len(file)]
<1> DEFINE V == Of(K) \cup {None}
           after[n \in 0 .. Len(file)] ==
             IF n = 0 THEN Unset ELSE load_line(after[n - 1], file[n])
           step == [n \in 1 .. Len(file) |-> [v \in V |-> load_line(v, file[n])]]
<1>1. Len(file) \in Nat /\ \A n \in 1 .. Len(file) : IsLine(file[n], K)
  BY DEF IsFile
<1>2. Unset \in V /\ step \in [1 .. Len(file) -> [V -> V]]
  BY <1>1, LoadLineLemma DEF Kinds
<1>3. \A n \in 1 .. Len(file), v \in V : step[n][v] = load_line(v, file[n])
  OBVIOUS
<1>4. load_config_file(file) = after[Len(file)]
  BY DEF load_config_file, Along
<1> HIDE DEF step
<1>5. PICK g : IsRecursive(g, Unset, Len(file), V, step)
  BY <1>1, <1>2, RecursionLemma
<1>6. \A n \in 1 .. Len(file) : g[n - 1] \in V
  BY <1>1, <1>5 DEF IsRecursive
<1>7. IsLoading(g, file, K)
  BY <1>3, <1>5, <1>6 DEF IsRecursive, IsLoading
<1>8. g = [n \in 0 .. Len(file) |-> IF n = 0 THEN Unset ELSE load_line(g[n - 1], file[n])]
  BY <1>1, <1>7 DEF IsLoading
<1>9. after = [n \in 0 .. Len(file) |->
                 IF n = 0 THEN Unset ELSE load_line(after[n - 1], file[n])]
  BY <1>8, Zenon
<1> HIDE DEF after
<1>10. \A n \in 1 .. Len(file) : after[n - 1] = g[n - 1] => after[n] = g[n]
  BY <1>1, <1>7, <1>9 DEF IsLoading
<1>11. after[0] = g[0]
  BY <1>1, <1>7, <1>9 DEF IsLoading
<1>12. after[Len(file)] = g[Len(file)]
  BY <1>1, <1>10, <1>11, SameLoop
<1> QED
  BY <1>4, <1>7, <1>12

\* What the server has read, line by line.
IsServing(h, file) ==
  /\ h[0] = Ok(Defaults)
  /\ \A n \in 1 .. Len(file) : h[n] = read_line(h[n - 1], file[n])

SoundLine(l) ==
  \/ l.form = "skip"
  \/ l.form = "assign" /\ value_of(l.key, l.value).ok

\* A reader that has accepted everything so far, or refused something.
Accepted(K) == {Ok(Meaning(s)) : s \in Of(K)}
Refused(K)  ==
  {Err("line")} \cup {v \in {value_of(key, text) : key \in SettingKeys,
                             text \in K["port"] \cup K["whitelist"] \cup K["dns_servers"]}
                           : ~v.ok}
                \cup {Err("key")}

LEMMA RefusedLemma ==
  ASSUME NEW K
  PROVE  /\ \A r \in Refused(K) : ~r.ok
         /\ \A r \in Accepted(K) : r.ok
         /\ Err("line") \in Refused(K)
         /\ \A key \in SettingKeys : \A text \in K[key] :
              ~value_of(key, text).ok => value_of(key, text) \in Refused(K)
<1>1. \A e : ~Err(e).ok
  BY DEF Err
<1>2. \A c : Ok(c).ok
  BY DEF Ok
<1>3. \A r \in Refused(K) : ~r.ok
  BY <1>1 DEF Refused
<1>4. \A r \in Accepted(K) : r.ok
  BY <1>2 DEF Accepted
<1>5. Err("line") \in Refused(K)
  BY DEF Refused
<1>6. ASSUME NEW key \in SettingKeys, NEW text \in K[key], ~value_of(key, text).ok
      PROVE  value_of(key, text) \in Refused(K)
  <2>1. text \in K["port"] \cup K["whitelist"] \cup K["dns_servers"]
    BY DEF SettingKeys
  <2> QED
    BY <1>6, <2>1 DEF Refused
<1> QED
  BY <1>3, <1>4, <1>5, <1>6

\* One line: what is refused stays refused, what is sound is taken over.
LEMMA ReadLineLemma ==
  ASSUME NEW K, NEW l, IsLine(l, K)
  PROVE  /\ \A r : ~r.ok => read_line(r, l) = r
         /\ \A s \in Of(K) :
              LET r == read_line(Ok(Meaning(s)), l) IN
              /\ ~SoundLine(l) => r \in Refused(K)
              /\ l.form = "skip" => r = Ok(Meaning(s))
              /\ SoundLine(l) /\ l.form = "assign" =>
                   /\ l.key \in SettingKeys /\ [s EXCEPT ![l.key] = l.value] \in Of(K)
                   /\ r = Ok(Meaning([s EXCEPT ![l.key] = l.value]))
<1>1. \A r : ~r.ok => read_line(r, l) = r
  BY DEF read_line
<1>2. ASSUME NEW s \in Of(K)
      PROVE  LET r == read_line(Ok(Meaning(s)), l) IN
             /\ ~SoundLine(l) => r \in Refused(K)
             /\ l.form = "skip" => r = Ok(Meaning(s))
             /\ SoundLine(l) /\ l.form = "assign" =>
                  /\ l.key \in SettingKeys /\ [s EXCEPT ![l.key] = l.value] \in Of(K)
                  /\ r = Ok(Meaning([s EXCEPT ![l.key] = l.value]))
  <2> DEFINE c == Ok(Meaning(s))
             r == read_line(c, l)
  <2>1. c.ok
    BY DEF Ok
  <2>2. CASE l.form = "skip"
    <3>1. r = c
      BY <2>2 DEF read_line
    <3> QED
      BY <2>2, <3>1 DEF SoundLine
  <2>3. CASE l.form = "bad"
    <3>1. r = Err("line")
      BY <2>1, <2>3 DEF read_line
    <3> QED
      BY <2>3, <3>1, RefusedLemma DEF SoundLine
  <2>4. CASE l.form = "assign" /\ l.key \in SettingKeys
    <3>1. r = apply_value(c, l.key, l.value)
      <4> HIDE DEF c
      <4> QED
        BY <2>1, <2>4 DEF read_line
    <3>2. r = IF value_of(l.key, l.value).ok THEN Ok(Meaning([s EXCEPT ![l.key] = l.value]))
                                             ELSE value_of(l.key, l.value)
      BY <2>4, <3>1, ApplyLemma
    <3>3. l.value \in K[l.key]
      BY <2>4 DEF IsLine
    <3>4. [s EXCEPT ![l.key] = l.value] \in Of(K)
      BY <2>4, <3>3, OfLemma
    <3>5. SoundLine(l) <=> value_of(l.key, l.value).ok
      BY <2>4 DEF SoundLine
    <3>6. ~SoundLine(l) => r \in Refused(K)
      BY <2>4, <3>2, <3>3, <3>5, RefusedLemma
    <3>7. SoundLine(l) => r = Ok(Meaning([s EXCEPT ![l.key] = l.value]))
      BY <3>2, <3>5
    <3> HIDE DEF r, c
    <3> QED
      BY <2>4, <3>4, <3>6, <3>7 DEF r, c
  <2>5. CASE l.form = "assign" /\ l.key \notin SettingKeys
    <3>1. l.key \notin Keys
      BY <2>5 DEF IsLine
    <3>2. value_of(l.key, l.value) = Err("key")
      BY <3>1, UnknownKey
    <3>3. r = Err("key")
      <4>1. ~Err("key").ok
        BY DEF Err
      <4> HIDE DEF c
      <4> QED
        BY <2>1, <2>5, <3>2, <4>1 DEF read_line, apply_value
    <3>4. ~SoundLine(l) /\ r \in Refused(K)
      BY <2>5, <3>1, <3>3, UnknownKey DEF SoundLine, Refused
    <3> QED
      BY <2>5, <3>4
  <2> QED
    BY <2>2, <2>3, <2>4, <2>5 DEF IsLine
<1> QED
  BY <1>1, <1>2

LEMMA ServeLemma ==
  ASSUME NEW K, Kinds(K), NEW file, IsFile(file, K)
  PROVE  \E h : IsServing(h, file) /\ Along(read_line, Ok(Defaults), file) = h[Len(file)]
<1> DEFINE V == Accepted(K) \cup Refused(K)
           start == Ok(Defaults)
           after[n \in 0 .. Len(file)] ==
             IF n = 0 THEN start ELSE read_line(after[n - 1], file[n])
           step == [n \in 1 .. Len(file) |-> [v \in V |-> read_line(v, file[n])]]
<1>1. Len(file) \in Nat /\ \A n \in 1 .. Len(file) : IsLine(file[n], K)
  BY DEF IsFile
<1>2. start \in V
  BY MeaningUnset DEF Accepted, Kinds
<1>3. \A n \in 1 .. Len(file), v \in V : read_line(v, file[n]) \in V
  <2> SUFFICES ASSUME NEW n \in 1 .. Len(file), NEW v \in V
               PROVE  read_line(v, file[n]) \in V
    OBVIOUS
  <2> DEFINE l == file[n]
  <2>1. IsLine(l, K)
    BY <1>1
  <2> HIDE DEF l
  <2>2. CASE v \in Refused(K)
    BY <2>1, <2>2, RefusedLemma, ReadLineLemma DEF l
  <2>3. CASE v \in Accepted(K)
    <3>1. PICK s \in Of(K) : v = Ok(Meaning(s))
      BY <2>3 DEF Accepted
    <3>2. \/ read_line(v, l) \in Refused(K)
          \/ read_line(v, l) = Ok(Meaning(s))
          \/ /\ [s EXCEPT ![l.key] = l.value] \in Of(K)
             /\ read_line(v, l) = Ok(Meaning([s EXCEPT ![l.key] = l.value]))
      BY <2>1, <3>1, ReadLineLemma DEF SoundLine
    <3>3. \A t \in Of(K) : Ok(Meaning(t)) \in Accepted(K)
      BY DEF Accepted
    <3> QED
      BY <3>2, <3>3 DEF l
  <2> QED
    BY <2>2, <2>3
<1>4. step \in [1 .. Len(file) -> [V -> V]]
  BY <1>3
<1>5. \A n \in 1 .. Len(file), v \in V : step[n][v] = read_line(v, file[n])
  OBVIOUS
<1>6. Along(read_line, Ok(Defaults), file) = after[Len(file)]
  BY DEF Along
<1> HIDE DEF step, V, start
<1>7. PICK h : IsRecursive(h, start, Len(file), V, step)
  BY <1>1, <1>2, <1>4, RecursionLemma
<1>8. /\ \A n \in 1 .. Len(file) : h[n - 1] \in V
      /\ h[0] = start /\ h \in [0 .. Len(file) -> V]
  BY <1>1, <1>7 DEF IsRecursive
<1>9. \A n \in 1 .. Len(file) : h[n] = read_line(h[n - 1], file[n])
  BY <1>5, <1>7, <1>8 DEF IsRecursive
<1>10. h = [n \in 0 .. Len(file) |-> IF n = 0 THEN start ELSE read_line(h[n - 1], file[n])]
  BY <1>1, <1>8, <1>9
<1>11. after = [n \in 0 .. Len(file) |->
                 IF n = 0 THEN start ELSE read_line(after[n - 1], file[n])]
  BY <1>10, Zenon
<1> HIDE DEF after
<1>12. \A n \in 1 .. Len(file) : after[n - 1] = h[n - 1] => after[n] = h[n]
  BY <1>1, <1>9, <1>11
<1>13. after[0] = h[0]
  BY <1>1, <1>8, <1>11
<1>14. after[Len(file)] = h[Len(file)]
  BY <1>1, <1>12, <1>13, SameLoop
<1> QED
  BY <1>6, <1>8, <1>9, <1>14 DEF IsServing, start

\* After every line the server has what the script has, unless it has refused a
\* value; the script has given up on a line that is none.
LEMMA ReadersLemma ==
  ASSUME NEW K, Kinds(K), NEW file, IsFile(file, K),
         \A n \in 1 .. Len(file) : file[n].spelt = "plain",
         NEW g, IsLoading(g, file, K), NEW h, IsServing(h, file)
  PROVE  \A n \in 0 .. Len(file) :
           /\ (\A i \in 1 .. n : SoundLine(file[i])) =>
                g[n] \in Of(K) /\ h[n] = Ok(Meaning(g[n]))
           /\ (\E i \in 1 .. n : ~SoundLine(file[i])) => ~h[n].ok
<1> DEFINE Sound_(n) == \A i \in 1 .. n : SoundLine(file[i])
           P(n) == /\ Sound_(n) => g[n] \in Of(K) /\ h[n] = Ok(Meaning(g[n]))
                   /\ ~Sound_(n) => ~h[n].ok
           S == {n \in Nat : n <= Len(file) => P(n)}
<1>1. Len(file) \in Nat /\ \A n \in 1 .. Len(file) : IsLine(file[n], K)
  BY DEF IsFile
<1>2. 0 \in S
  <2>1. g[0] = Unset /\ h[0] = Ok(Meaning(g[0])) /\ g[0] \in Of(K)
    BY MeaningUnset DEF IsLoading, IsServing, Kinds
  <2> QED
    BY <2>1
<1>3. ASSUME NEW n \in Nat, n \in S PROVE n + 1 \in S
  <2> DEFINE m == n + 1
             l == file[m]
             s == g[n]
  <2> SUFFICES ASSUME m <= Len(file) PROVE P(m)
    OBVIOUS
  <2>1. P(n) /\ m \in 1 .. Len(file) /\ m - 1 = n
    BY <1>1, <1>3
  <2>2. (Sound_(m) <=> Sound_(n) /\ SoundLine(l)) /\ IsLine(l, K) /\ l.spelt = "plain"
    BY <1>1, <2>1
  <2>3. g[m] = load_line(s, l) /\ h[m] = read_line(h[n], l)
    BY <2>1 DEF IsLoading, IsServing
  <2>4. CASE ~Sound_(n)
    <3>1. ~h[n].ok
      BY <2>1, <2>4
    <3> HIDE DEF Sound_, l, m
    <3>2. read_line(h[n], l) = h[n]
      BY <2>2, <3>1, ReadLineLemma
    <3> QED
      BY <2>2, <2>3, <2>4, <3>1, <3>2
  <2>5. CASE Sound_(n)
    <3>1. s \in Of(K) /\ h[n] = Ok(Meaning(s)) /\ s # None
      BY <2>1, <2>5 DEF Kinds
    <3> HIDE DEF Sound_, l, m, s
    <3>2. CASE ~SoundLine(l)
      <4>1. h[m] \in Refused(K)
        <5>1. read_line(Ok(Meaning(s)), l) \in Refused(K)
          BY <2>2, <3>1, <3>2, ReadLineLemma
        <5> QED
          BY <2>3, <3>1, <5>1
      <4> QED
        BY <2>2, <3>2, <4>1, RefusedLemma
    <3>3. CASE SoundLine(l) /\ l.form = "skip"
      <4>1. h[m] = Ok(Meaning(s))
        <5>1. read_line(Ok(Meaning(s)), l) = Ok(Meaning(s))
          BY <3>3 DEF read_line
        <5> QED
          BY <2>3, <3>1, <5>1
      <4>2. g[m] = s
        BY <2>2, <2>3, <3>1, <3>3, LoadLineLemma
      <4> QED
        BY <2>2, <2>5, <3>1, <3>3, <4>1, <4>2
    <3>4. CASE SoundLine(l) /\ l.form = "assign"
      <4> DEFINE t == [s EXCEPT ![l.key] = l.value]
      <4>1. h[m] = Ok(Meaning(t)) /\ t \in Of(K) /\ l.key \in SettingKeys
        BY <2>2, <2>3, <3>1, <3>4, ReadLineLemma
      <4>2. g[m] = t
        BY <2>2, <2>3, <3>1, <3>4, <4>1, LoadLineLemma
      <4> QED
        BY <2>2, <2>5, <3>4, <4>1, <4>2
    <3> QED
      BY <3>2, <3>3, <3>4 DEF SoundLine
  <2> QED
    BY <2>4, <2>5
<1> HIDE DEF S
<1>4. \A n \in Nat : n \in S
  BY <1>2, <1>3, Induction
<1>5. \A n \in 0 .. Len(file) : n \in Nat /\ n <= Len(file)
  BY <1>1
<1>6. \A n \in 0 .. Len(file) : P(n)
  BY <1>4, <1>5 DEF S
<1> QED
  BY <1>6

\* Every one of settings that a sound file makes is one that the server accepts.
LEMMA ProperLemma ==
  ASSUME NEW K, Kinds(K), NEW file, IsFile(file, K),
         \A n \in 1 .. Len(file) : file[n].spelt = "plain" /\ SoundLine(file[n]),
         NEW g, IsLoading(g, file, K)
  PROVE  /\ g[Len(file)] \in Of(K)
         /\ \A key \in SettingKeys : value_of(key, g[Len(file)][key]).ok
<1> DEFINE P(s) == s \in Of(K) /\ \A key \in SettingKeys : value_of(key, s[key]).ok
           S == {n \in Nat : n <= Len(file) => P(g[n])}
<1>1. Len(file) \in Nat /\ \A n \in 1 .. Len(file) : IsLine(file[n], K)
  BY DEF IsFile
<1>2. 0 \in S
  <2>1. g[0] = Unset /\ g[0] \in Of(K)
    BY DEF IsLoading, Kinds
  <2> QED
    BY <2>1, MeaningUnset
<1>3. ASSUME NEW n \in Nat, n \in S PROVE n + 1 \in S
  <2> DEFINE m == n + 1
             l == file[m]
             s == g[n]
  <2> SUFFICES ASSUME m <= Len(file) PROVE P(g[m])
    OBVIOUS
  <2>1. P(s) /\ m \in 1 .. Len(file) /\ m - 1 = n
    BY <1>1, <1>3
  <2>2. IsLine(l, K) /\ l.spelt = "plain" /\ SoundLine(l) /\ g[m] = load_line(s, l)
    BY <1>1, <2>1 DEF IsLoading
  <2>3. s \in Of(K) /\ s # None
    BY <2>1 DEF Kinds
  <2> HIDE DEF m, l, s
  <2>4. CASE l.form = "skip"
    <3>1. g[m] = s
      BY <2>2, <2>3, <2>4, LoadLineLemma
    <3> QED
      BY <2>1, <3>1
  <2>5. CASE l.form = "assign" /\ value_of(l.key, l.value).ok
    <3>1. l.key \in SettingKeys /\ l.value \in K[l.key]
      BY <2>2, <2>5, UnknownKey DEF IsLine
    <3>2. g[m] = [s EXCEPT ![l.key] = l.value]
      BY <2>2, <2>3, <2>5, <3>1, LoadLineLemma
    <3>3. g[m] \in Of(K) /\ DOMAIN s = SettingKeys
      <4>1. [s EXCEPT ![l.key] = l.value] \in Of(K) /\ DOMAIN s = SettingKeys
        BY <2>3, <3>1, OfLemma
      <4> QED
        BY <3>2, <4>1
    <3>4. \A key \in SettingKeys : g[m][key] = IF key = l.key THEN l.value ELSE s[key]
      BY <3>2, <3>3
    <3> QED
      BY <2>1, <2>5, <3>3, <3>4
  <2> QED
    BY <2>2, <2>4, <2>5 DEF SoundLine
<1> HIDE DEF S
<1>4. Len(file) \in S
  BY <1>1, <1>2, <1>3, Induction
<1> QED
  BY <1>1, <1>4 DEF S

------------------------------------------------------------------------------
(* The arguments.                                                          *)
Options(T) == {Option(key, text) : key \in SettingKeys, text \in T}

\* read_args keeps the options of settings in their order.
Read(exit, path, overrides) == Ok([exit |-> exit, path |-> path, overrides |-> overrides])

LEMMA ReadArgLemma ==
  ASSUME NEW T, None \notin T, NEW args \in Seq(Options(T)), NEW a \in Options(T), NEW path
  PROVE  read_arg(Read(FALSE, path, args), a) = Read(FALSE, path, Append(args, a))
<1> DEFINE r == Read(FALSE, path, args)
           State(exit, overrides) == [exit |-> exit, path |-> path, overrides |-> overrides]
<1>1. r.ok /\ r.value = State(FALSE, args)
  BY DEF Read, Ok
<1>2. /\ a.key # "help" /\ a.key # "config" /\ a.key \in Keys
      /\ a.value # None
  <2>1. a.key \in SettingKeys /\ a.value \in T
    BY DEF Options, Option
  <2> QED
    BY <2>1 DEF SettingKeys, Keys
<1>3. Read(FALSE, path, Append(args, a)) = Ok(State(FALSE, Append(args, a)))
  BY DEF Read
<1> HIDE DEF r, State
<1>4. /\ r.value.exit = FALSE
      /\ [r.value EXCEPT !.overrides = Append(@, a)] = State(FALSE, Append(args, a))
  <2> DEFINE no   == FALSE
             v    == r.value
             more == Append(args, a)
  <2>1. v = State(no, args)
    BY <1>1
  <2> HIDE DEF no, v, more
  <2>2. v.exit = no /\ v.overrides = args
    BY <2>1 DEF State
  <2>3. [v EXCEPT !.overrides = more] = State(no, more)
    BY <2>1 DEF State
  <2>4. Append(v.overrides, a) = more
    BY <2>2 DEF more
  <2> QED
    BY <2>2, <2>3, <2>4 DEF no, v, more
<1>5. read_arg(r, a) = Ok(State(FALSE, Append(args, a)))
  BY <1>1, <1>2, <1>4 DEF read_arg
<1> QED
  BY <1>3, <1>5 DEF r

Taken(args) == Read(FALSE, None, args)

LEMMA ReadArgsLemma ==
  ASSUME NEW T, None \notin T, NEW args \in Seq(Options(T))
  PROVE  read_args(args) = Taken(args)
<1> DEFINE start == Taken(<<>>)
           after[n \in 0 .. Len(args)] ==
             IF n = 0 THEN start ELSE read_arg(after[n - 1], args[n])
           g == [n \in 0 .. Len(args) |-> Taken(SubSeq(args, 1, n))]
<1>1. Len(args) \in Nat /\ \A n \in 1 .. Len(args) : args[n] \in Options(T)
  OBVIOUS
<1>2. read_args(args) = after[Len(args)]
  BY DEF read_args, Along, Taken, Read
<1>3. g[0] = start
  <2>1. SubSeq(args, 1, 0) = <<>>
    OBVIOUS
  <2>2. g[0] = Taken(SubSeq(args, 1, 0))
    BY <1>1
  <2> HIDE DEF g
  <2> QED
    BY <2>1, <2>2
<1>4. \A n \in 1 .. Len(args) : g[n] = read_arg(g[n - 1], args[n])
  <2> SUFFICES ASSUME NEW n \in 1 .. Len(args) PROVE g[n] = read_arg(g[n - 1], args[n])
    OBVIOUS
  <2> DEFINE taken == SubSeq(args, 1, n - 1)
  <2>1. taken \in Seq(Options(T))
    BY <1>1
  <2>2. Append(taken, args[n]) = SubSeq(args, 1, n)
    BY <1>1
  <2>3. g[n - 1] = Taken(taken) /\ g[n] = Taken(SubSeq(args, 1, n))
    BY <1>1
  <2>4. args[n] \in Options(T)
    BY <1>1
  <2> HIDE DEF taken, g
  <2>5. read_arg(Taken(taken), args[n]) = Taken(Append(taken, args[n]))
    BY <2>1, <2>4, ReadArgLemma DEF Taken
  <2> QED
    BY <2>2, <2>3, <2>5
<1>5. g[Len(args)] = Taken(args)
  <2>1. SubSeq(args, 1, Len(args)) = args
    OBVIOUS
  <2>2. g[Len(args)] = Taken(SubSeq(args, 1, Len(args)))
    BY <1>1
  <2> HIDE DEF g
  <2> QED
    BY <2>1, <2>2
<1>6. DOMAIN g = 0 .. Len(args) /\ g = [n \in DOMAIN g |-> g[n]]
  OBVIOUS
<1> HIDE DEF g, start
<1>7. g = [n \in 0 .. Len(args) |-> IF n = 0 THEN start ELSE read_arg(g[n - 1], args[n])]
  BY <1>1, <1>3, <1>4, <1>6
<1>8. after = [n \in 0 .. Len(args) |->
                 IF n = 0 THEN start ELSE read_arg(after[n - 1], args[n])]
  BY <1>7, Zenon
<1> HIDE DEF after
<1>9. \A n \in 1 .. Len(args) : after[n - 1] = g[n - 1] => after[n] = g[n]
  BY <1>1, <1>4, <1>8
<1>10. after[0] = g[0]
  BY <1>1, <1>3, <1>8
<1>11. after[Len(args)] = g[Len(args)]
  BY <1>1, <1>9, <1>10, SameLoop
<1> QED
  BY <1>2, <1>5, <1>11

LEMMA ValidLemma == \A s : validate(Meaning(s))
<1>1. \A s : /\ Meaning(s).username = Defaults.username
             /\ Meaning(s).password = Defaults.password
  BY DefaultsLemma DEF Meaning
<1> QED
  BY <1>1, InstallerAssumption DEF validate

LEMMA NoOverrides ==
  ASSUME NEW c
  PROVE  Along(override, c, <<>>) = c
<1> DEFINE none == <<>>
           after[n \in 0 .. Len(none)] ==
             IF n = 0 THEN c ELSE override(after[n - 1], none[n])
           g == [n \in 0 .. Len(none) |-> c]
<1>1. Along(override, c, none) = after[Len(none)]
  BY DEF Along
<1>2. Len(none) = 0
  OBVIOUS
<1> HIDE DEF none
<1>3. g = [n \in 0 .. Len(none) |-> IF n = 0 THEN c ELSE override(g[n - 1], none[n])]
  BY <1>2
<1> HIDE DEF g
<1>4. after = [n \in 0 .. Len(none) |-> IF n = 0 THEN c ELSE override(after[n - 1], none[n])]
  BY <1>3, Zenon
<1> HIDE DEF after
<1>5. after[0] = c
  BY <1>2, <1>4
<1> QED
  BY <1>1, <1>2, <1>5 DEF none

\* The server with --config and nothing else.
LEMMA ConfigArgument ==
  read_args(<<Option("config", Word(1))>>) = Read(FALSE, Word(1), <<>>)
<1> DEFINE a     == Option("config", Word(1))
           args  == <<a>>
           start == Read(FALSE, None, <<>>)
           after[n \in 0 .. Len(args)] ==
             IF n = 0 THEN start ELSE read_arg(after[n - 1], args[n])
           g == [n \in 0 .. Len(args) |-> IF n = 0 THEN start ELSE read_arg(start, a)]
<1>1. read_args(args) = after[Len(args)]
  BY DEF read_args, Along, Read
<1>2. Len(args) = 1 /\ args[1] = a
  OBVIOUS
<1>3. read_arg(start, a) = Read(FALSE, Word(1), <<>>)
  <2> DEFINE State(exit, path) == [exit |-> exit, path |-> path, overrides |-> <<>>]
             no == FALSE
             v  == start.value
             to == Word(1)
  <2>1. start.ok /\ v = State(no, None)
    BY DEF Read, Ok
  <2>2. a.key = "config" /\ a.value = to
    BY DEF Option
  <2>3. to # <<>> /\ to # None
    BY InstallerAssumption DEF Word
  <2> HIDE DEF no, v, to, a
  <2>4. v.exit = no /\ v.path = None /\ [v EXCEPT !.path = to] = State(no, to)
    BY <2>1
  <2>5. Read(FALSE, to, <<>>) = Ok(State(no, to))
    BY DEF Read, no
  <2> HIDE DEF start, State
  <2>6. /\ start.ok /\ ~start.value.exit /\ start.value.path = None
        /\ [start.value EXCEPT !.path = to] = State(no, to)
    BY <2>1, <2>4 DEF v, no
  <2>7. read_arg(start, a) = Ok(State(no, to))
    BY <2>2, <2>3, <2>6 DEF read_arg
  <2> QED
    BY <2>5, <2>7 DEF to
<1> HIDE DEF args, a, start
<1>4. g = [n \in 0 .. Len(args) |-> IF n = 0 THEN start ELSE read_arg(g[n - 1], args[n])]
  BY <1>2
<1> HIDE DEF g
<1>5. after = [n \in 0 .. Len(args) |->
                 IF n = 0 THEN start ELSE read_arg(after[n - 1], args[n])]
  BY <1>4, Zenon
<1> HIDE DEF after
<1>6. after[1] = read_arg(start, a)
  BY <1>2, <1>5
<1> QED
  BY <1>1, <1>2, <1>3, <1>6 DEF args, a

\* A loop over a few options.
Overridden(c, args) == Along(override, c, args)

LEMMA FewOverrides ==
  ASSUME NEW c, NEW a, NEW b, NEW d, NEW list
  PROVE  /\ list = <<a>> => Overridden(c, list) = override(c, a)
         /\ list = <<a, b>> => Overridden(c, list) = override(override(c, a), b)
         /\ list = <<a, b, d>> =>
              Overridden(c, list) = override(override(override(c, a), b), d)
<1> DEFINE r(n) == IF n = 0 THEN c ELSE IF n = 1 THEN override(c, a)
                   ELSE IF n = 2 THEN override(override(c, a), b)
                   ELSE override(override(override(c, a), b), d)
           result(args) == Overridden(c, args)
<1>1. ASSUME NEW args, NEW N \in 1 .. 3, Len(args) = N, args[1] = a,
             N > 1 => args[2] = b, N > 2 => args[3] = d
      PROVE  result(args) = r(N)
  <2> DEFINE after[n \in 0 .. Len(args)] ==
               IF n = 0 THEN c ELSE override(after[n - 1], args[n])
             g == [n \in 0 .. N |-> r(n)]
  <2>1. result(args) = after[Len(args)]
    BY DEF Overridden, Along
  <2> HIDE DEF result
  <2>3. /\ r(0) = c /\ r(1) = override(r(0), a) /\ r(2) = override(r(1), b)
        /\ r(3) = override(r(2), d)
    OBVIOUS
  <2> HIDE DEF r
  <2>4. \A n \in 1 .. N : r(n) = override(r(n - 1), args[n])
    <3> SUFFICES ASSUME NEW n \in 1 .. N PROVE r(n) = override(r(n - 1), args[n])
      OBVIOUS
    <3>1. n = 1 \/ (n = 2 /\ N > 1) \/ (n = 3 /\ N > 2)
      OBVIOUS
    <3> QED
      BY <1>1, <2>3, <3>1
  <2>5. g = [n \in 0 .. N |-> IF n = 0 THEN c ELSE override(g[n - 1], args[n])]
    <3>1. ASSUME NEW n \in 0 .. N, n # 0 PROVE g[n - 1] = r(n - 1) /\ n \in 1 .. N
      BY <1>1, <3>1
    <3> QED
      BY <2>3, <2>4, <3>1
  <2>6. g[N] = r(N) /\ g[0] = c
    BY <1>1, <2>3
  <2>7. \A n \in 1 .. N : g[n] = override(g[n - 1], args[n])
    BY <1>1, <2>4
  <2> HIDE DEF g
  <2>8. after = [n \in 0 .. N |-> IF n = 0 THEN c ELSE override(after[n - 1], args[n])]
    BY <1>1, <2>5, Zenon
  <2> HIDE DEF after
  <2>9. after[0] = g[0] /\ \A n \in 1 .. N : after[n - 1] = g[n - 1] => after[n] = g[n]
    BY <1>1, <2>6, <2>7, <2>8
  <2>10. N \in Nat
    OBVIOUS
  <2>11. after[N] = g[N]
    BY <2>9, <2>10, SameLoop
  <2> QED
    BY <1>1, <2>1, <2>6, <2>11
<1>2. r(1) = override(c, a)
  OBVIOUS
<1>3. r(2) = override(override(c, a), b)
  OBVIOUS
<1>4. r(3) = override(override(override(c, a), b), d)
  OBVIOUS
<1> HIDE DEF r, result
<1>5. ASSUME list = <<a>> PROVE result(list) = override(c, a)
  <2>1. Len(list) = 1 /\ list[1] = a
    BY <1>5
  <2> QED
    BY <1>1, <1>2, <2>1
<1>6. ASSUME list = <<a, b>> PROVE result(list) = override(override(c, a), b)
  <2>1. Len(list) = 2 /\ list[1] = a /\ list[2] = b
    BY <1>6
  <2> QED
    BY <1>1, <1>3, <2>1
<1>7. ASSUME list = <<a, b, d>>
      PROVE  result(list) = override(override(override(c, a), b), d)
  <2>1. Len(list) = 3 /\ list[1] = a /\ list[2] = b /\ list[3] = d
    BY <1>7
  <2> QED
    BY <1>1, <1>4, <2>1
<1> QED
  BY <1>5, <1>6, <1>7 DEF result

LEMMA FewLemma ==
  ASSUME NEW a, NEW b, NEW d
  PROVE  /\ <<a>> \o <<>> = <<a>> /\ <<a>> \o <<b>> = <<a, b>>
         /\ Append(<<a>>, b) = <<a, b>> /\ Append(<<a, b>>, d) = <<a, b, d>>
<1>1. <<a>> \o <<>> = <<a>>
  OBVIOUS
<1> DEFINE S == {a, b, d}
           r == <<a>> \o <<b>>
           s == Append(<<a>>, b)
           t == Append(<<a, b>>, d)
           u == <<a, b>>
           v == <<a, b, d>>
<1>2. r \in Seq(S) /\ s \in Seq(S) /\ t \in Seq(S) /\ u \in Seq(S) /\ v \in Seq(S)
  OBVIOUS
<1>3. Len(r) = 2 /\ r[1] = a /\ r[2] = b
  OBVIOUS
<1>4. Len(s) = 2 /\ s[1] = a /\ s[2] = b
  OBVIOUS
<1>5. Len(u) = 2 /\ u[1] = a /\ u[2] = b
  OBVIOUS
<1>6. Len(t) = 3 /\ t[1] = a /\ t[2] = b /\ t[3] = d
  OBVIOUS
<1>7. Len(v) = 3 /\ v[1] = a /\ v[2] = b /\ v[3] = d
  OBVIOUS
<1> HIDE DEF r, s, t, u, v, S
<1>8. r = u /\ s = u
  BY <1>2, <1>3, <1>4, <1>5
<1>9. t = v
  BY <1>2, <1>6, <1>7, SMTT(40)
<1> QED
  BY <1>1, <1>8, <1>9 DEF r, s, t, u, v

\* The server accepts a file of plain lines if it accepts every line.
LEMMA ServerLemma ==
  ASSUME NEW K, Kinds(K), NEW file, IsFile(file, K),
         \A n \in 1 .. Len(file) : file[n].spelt = "plain"
  PROVE  LET served == parse_config(<<Option("config", Word(1))>>, file)
             shown  == load_config_file(file)
         IN /\ served.ok <=> \A n \in 1 .. Len(file) : SoundLine(file[n])
            /\ served.ok => shown \in Of(K) /\ served = Ok(Meaning(shown))
<1> DEFINE served == parse_config(<<Option("config", Word(1))>>, file)
           shown  == load_config_file(file)
           N      == Len(file)
           Good   == \A n \in 1 .. N : SoundLine(file[n])
<1>1. /\ N \in Nat /\ N \in 0 .. N /\ file # None /\ DOMAIN file = 1 .. N
      /\ \A n \in 1 .. N : IsLine(file[n], K)
  BY DEF IsFile
<1>2. PICK g : IsLoading(g, file, K) /\ shown = g[N]
  BY LoadLemma
<1>3. PICK h : IsServing(h, file) /\ Along(read_line, Ok(Defaults), file) = h[N]
  BY ServeLemma
<1>4. /\ Good => g[N] \in Of(K) /\ h[N] = Ok(Meaning(g[N]))
      /\ ~Good => ~h[N].ok
  BY <1>1, <1>2, <1>3, ReadersLemma
<1>5. served = h[N]
  <2> DEFINE r == Read(FALSE, Word(1), <<>>)
             args == <<Option("config", Word(1))>>
             c == h[N]
  <2>1. r.ok /\ r.value.exit = FALSE /\ r.value.path = Word(1) /\ r.value.overrides = <<>>
    BY DEF Read, Ok
  <2>2. read_args(args) = r
    BY ConfigArgument
  <2>3. read_file(Ok(Defaults), file) = c
    BY <1>1, <1>3 DEF read_file
  <2>4. Along(override, c, <<>>) = c
    BY NoOverrides
  <2>5. c.ok => validate(c.value)
    BY <1>4, ValidLemma DEF Ok
  <2>6. Word(1) # None
    BY InstallerAssumption
  <2> HIDE DEF r, c
  <2>7. parse_config(args, file) = c
    BY <2>1, <2>2, <2>3, <2>4, <2>5, <2>6 DEF parse_config
  <2> QED
    BY <2>7 DEF c
<1>6. Good => h[N].ok
  BY <1>4 DEF Ok
<1> HIDE DEF Good, served, shown
<1>7. /\ served.ok <=> Good
      /\ served.ok => shown \in Of(K) /\ served = Ok(Meaning(shown))
  BY <1>2, <1>4, <1>5, <1>6
<1> QED
  BY <1>7 DEF Good, served, shown

\* What a file of plain lines says, of any length and with any texts: the server
\* accepts it if the script can read it and every value, also one that a later
\* line replaces, is one that the server takes; then the server runs with what
\* the script shows.  (The script checks no values, so that it also reads a file
\* with port=abc; install.sh 72-97, config.rs 173-198.)
THEOREM ReadersAgree ==
  ASSUME NEW K, Kinds(K), NEW file, IsFile(file, K),
         \A n \in 1 .. Len(file) : file[n].spelt = "plain"
  PROVE  LET served == parse_config(<<Option("config", Word(1))>>, file)
             shown  == load_config_file(file)
         IN /\ served.ok <=>
                 /\ shown # None
                 /\ \A n \in 1 .. Len(file) :
                      file[n].form = "assign" => value_of(file[n].key, file[n].value).ok
            /\ served.ok => shown \in Of(K) /\ served = Ok(Meaning(shown))
<1> DEFINE served == parse_config(<<Option("config", Word(1))>>, file)
           shown  == load_config_file(file)
           N      == Len(file)
           Good   == \A n \in 1 .. N : SoundLine(file[n])
<1>1. /\ N \in Nat /\ N \in 0 .. N /\ file # None /\ DOMAIN file = 1 .. N
      /\ \A n \in 1 .. N : IsLine(file[n], K)
  BY DEF IsFile
<1>2. PICK g : IsLoading(g, file, K) /\ shown = g[N]
  BY LoadLemma
<1>3. /\ served.ok <=> Good
      /\ served.ok => shown \in Of(K) /\ served = Ok(Meaning(shown))
  BY <1>1, ServerLemma
<1>4. ASSUME NEW i \in 1 .. N, file[i].form = "bad"
      PROVE  shown = None
  <2> DEFINE S == {n \in Nat : i <= n /\ n <= N => g[n] = None}
  <2>1. \A n \in 1 .. N : /\ g[n] = load_line(g[n - 1], file[n])
                          /\ g[n - 1] \in Of(K) \cup {None}
                          /\ g[n - 1] = None => g[n] = None
    <3> SUFFICES ASSUME NEW n \in 1 .. N
                 PROVE  /\ g[n] = load_line(g[n - 1], file[n])
                        /\ g[n - 1] \in Of(K) \cup {None}
                        /\ g[n - 1] = None => g[n] = None
      OBVIOUS
    <3>1. /\ g[n] = load_line(g[n - 1], file[n]) /\ g[n - 1] \in Of(K) \cup {None}
          /\ IsLine(file[n], K)
      BY <1>1, <1>2 DEF IsLoading
    <3>2. g[n - 1] = None => load_line(g[n - 1], file[n]) = None
      BY <3>1, LoadLineLemma
    <3> QED
      BY <3>1, <3>2
  <2>2. g[i] = None
    <3>1. /\ g[i] = load_line(g[i - 1], file[i]) /\ g[i - 1] \in Of(K) \cup {None}
          /\ IsLine(file[i], K) /\ file[i].spelt = "plain"
      BY <1>1, <2>1
    <3>2. load_line(g[i - 1], file[i]) = None
      <4> DEFINE acc == g[i - 1]
                 l   == file[i]
      <4>1. acc \in Of(K) \cup {None} /\ IsLine(l, K) /\ l.spelt = "plain" /\ l.form = "bad"
        BY <1>4, <3>1
      <4> HIDE DEF acc, l
      <4>2. acc = None => load_line(acc, l) = None
        BY <4>1, LoadLineLemma
      <4>3. acc # None => load_line(acc, l) = None
        BY <4>1, LoadLineLemma
      <4> QED
        BY <4>2, <4>3 DEF acc, l
    <3> QED
      BY <3>1, <3>2
  <2>3. 0 \in S
    OBVIOUS
  <2>4. ASSUME NEW n \in Nat, n \in S PROVE n + 1 \in S
    <3>1. (n + 1) - 1 = n
      OBVIOUS
    <3>2. CASE i = n + 1
      BY <2>2, <3>2
    <3>3. CASE i <= n /\ n + 1 <= N
      <4>1. g[n] = None /\ n + 1 \in 1 .. N
        BY <2>4, <3>3
      <4> QED
        BY <2>1, <3>1, <4>1
    <3> QED
      BY <3>2, <3>3
  <2> HIDE DEF S
  <2>5. N \in S
    BY <1>1, <2>3, <2>4, Induction
  <2> QED
    BY <1>1, <1>2, <2>5 DEF S
<1>5. Good <=> /\ shown # None
               /\ \A n \in 1 .. N :
                    file[n].form = "assign" => value_of(file[n].key, file[n].value).ok
  <2>1. Good => shown # None
    BY <1>3 DEF Kinds
  <2> QED
    BY <1>1, <1>4, <2>1 DEF SoundLine, IsLine
<1> HIDE DEF Good
<1> QED
  BY <1>3, <1>5

------------------------------------------------------------------------------
(* The files that there may be.                                            *)
\* The kinds of text of Readings.
KR == [port |-> Typed \cup {Numeral(1080), NoNumber, Marred}, whitelist |-> Lists,
       dns_servers |-> {DefaultDns, OwnDns}]

LineSet == EditLines \cup {Assign("port", t) : t \in KR.port}
             \cup {Assign("whitelist", t) : t \in KR.whitelist}
             \cup {Assign("dns_servers", t) : t \in KR.dns_servers}

LEMMA KindsLemma ==
  /\ Of(KR) = Readings /\ Kinds(KR) /\ Settings \subseteq Readings
  /\ \A s \in Settings : Writable(s) /\ s.dns_servers = DefaultDns
  /\ Unset \in Readings /\ Unset.dns_servers = DefaultDns
<1>1. Of(KR) = Readings
  <2>1. KR["port"] = Typed \cup {Numeral(1080), NoNumber, Marred}
    BY DEF KR
  <2>2. KR["whitelist"] = Lists
    BY DEF KR
  <2>3. KR["dns_servers"] = {DefaultDns, OwnDns}
    BY DEF KR
  <2> DEFINE P(x, y, z) == [port : x, whitelist : y, dns_servers : z]
  <2>4. Of(KR) = P(KR["port"], KR["whitelist"], KR["dns_servers"])
    BY DEF Of
  <2>5. Readings = P(Typed \cup {Numeral(1080), NoNumber, Marred}, Lists, {DefaultDns, OwnDns})
    BY DEF Readings
  <2> HIDE DEF P
  <2> QED
    BY <2>1, <2>2, <2>3, <2>4, <2>5
<1>2. Unset \in Readings /\ Unset.dns_servers = DefaultDns
  BY DEF Unset, Readings, Lists
<1>3. None \notin Readings
  BY InstallerAssumption
<1>4. Settings \subseteq Readings /\ \A s \in Settings : s.dns_servers = DefaultDns
  BY DEF Settings, Readings
<1> QED
  BY <1>1, <1>2, <1>3, <1>4, InstallerAssumption DEF Kinds

LEMMA SpeltLemma ==
  ASSUME NEW K, NEW key \in SettingKeys, NEW text \in K[key], NEW spelling
  PROVE  IsLine(As(Assign(key, text), spelling), K)
           <=> (spelling = "return" => Marred \in K[key])
<1> DEFINE l == Assign(key, text)
           m == As(l, spelling)
<1>1. /\ DOMAIN l = {"form", "key", "value", "spelt"}
      /\ l.form = "assign" /\ l.key = key /\ l.value = text
  BY DEF Assign
<1> HIDE DEF l
<1>2. m.form = "assign" /\ m.key = key /\ m.value = text /\ m.spelt = spelling
  BY <1>1 DEF As
<1> HIDE DEF m
<1>3. IsLine(m, K) <=> (spelling = "return" => Marred \in K[key])
  BY <1>2 DEF IsLine
<1> QED
  BY <1>3 DEF m, l

LEMMA LineSetLemma == \A l \in LineSet : IsLine(l, KR)
<1> DEFINE P == KR.port
           W == KR.whitelist
           D == KR.dns_servers
<1>1. Numeral(1080) \in P /\ NoNumber \in P /\ Marred \in P /\ Typed \subseteq P /\ OwnDns \in D
  BY DEF KR
<1>2. KR["port"] = P /\ KR["whitelist"] = W /\ KR["dns_servers"] = D
  OBVIOUS
<1> HIDE DEF P, W, D
<1>3. \A t \in P : IsLine(Assign("port", t), KR)
  BY <1>2 DEF IsLine, Assign, SettingKeys
<1>4. \A t \in W : IsLine(Assign("whitelist", t), KR)
  BY <1>2 DEF IsLine, Assign, SettingKeys
<1>5. \A t \in D : IsLine(Assign("dns_servers", t), KR)
  BY <1>2 DEF IsLine, Assign, SettingKeys
<1>6. IsLine(Comment, KR) /\ IsLine(As(Comment, "foreign"), KR) /\ IsLine(NoEquals, KR)
  <2> DEFINE c == Comment
  <2>1. c.form = "skip" /\ DOMAIN c = {"form", "spelt"} /\ IsLine(NoEquals, KR)
    BY DEF Comment, NoEquals, IsLine
  <2> HIDE DEF c
  <2>2. As(c, "foreign").form = "skip"
    BY <2>1 DEF As
  <2>3. IsLine(c, KR) /\ IsLine(As(c, "foreign"), KR)
    BY <2>1, <2>2 DEF IsLine
  <2> QED
    BY <2>1, <2>3 DEF c
<1>7. IsLine(As(Assign("port", Numeral(1080)), "return"), KR)
  BY <1>1, <1>2, SpeltLemma DEF SettingKeys
<1>8. IsLine(As(Assign("dns_servers", OwnDns), "wide"), KR)
  BY <1>1, <1>2, SpeltLemma DEF SettingKeys
<1>9. ASSUME NEW l \in EditLines PROVE IsLine(l, KR)
  <2>1. \/ l = Comment \/ l = As(Comment, "foreign") \/ l = NoEquals
        \/ l = Assign("port", NoNumber) \/ l = As(Assign("port", Numeral(1080)), "return")
        \/ l = Assign("dns_servers", OwnDns) \/ l = As(Assign("dns_servers", OwnDns), "wide")
        \/ \E t \in Typed : l = Assign("port", t)
    BY DEF EditLines
  <2> QED
    BY <1>1, <1>3, <1>5, <1>6, <1>7, <1>8, <2>1
<1>10. ASSUME NEW l \in LineSet
       PROVE  \/ l \in EditLines \/ \E t \in P : l = Assign("port", t)
              \/ \E t \in W : l = Assign("whitelist", t)
              \/ \E t \in D : l = Assign("dns_servers", t)
  BY DEF LineSet, P, W, D
<1> QED
  BY <1>3, <1>4, <1>5, <1>9, <1>10

LEMMA WrittenLines ==
  ASSUME NEW s \in Readings
  PROVE  write_config_file(s) \in Seq(LineSet)
<1> DEFINE a == Assign("port", s.port)
           b == Assign("whitelist", s.whitelist)
           c == Assign("dns_servers", s.dns_servers)
<1>1. s.port \in KR.port /\ s.whitelist \in KR.whitelist /\ s.dns_servers \in KR.dns_servers
  BY DEF Readings, KR
<1>2. a \in LineSet /\ b \in LineSet /\ c \in LineSet
  BY <1>1 DEF LineSet
<1> HIDE DEF a, b, c
<1>3. <<a, b>> \in Seq(LineSet) /\ <<c>> \in Seq(LineSet) /\ <<>> \in Seq(LineSet)
  BY <1>2
<1> QED
  BY <1>3 DEF write_config_file, a, b, c

LEMMA FilesLemma == \A file \in Files : file \in Seq(LineSet) /\ IsFile(file, KR)
<1>1. Written \subseteq Seq(LineSet)
  BY WrittenLines DEF Written
<1>2. EditLines \subseteq LineSet
  BY DEF LineSet
<1>3. ASSUME NEW file \in Seq(LineSet) PROVE OneOff(file) \subseteq Seq(LineSet)
  <2>1. \A l \in EditLines : Append(file, l) \in Seq(LineSet)
    BY <1>2
  <2>2. ASSUME NEW i \in DOMAIN file PROVE RemoveAt(file, i) \in Seq(LineSet)
    <3>1. Len(file) \in Nat /\ i \in 1 .. Len(file)
      OBVIOUS
    <3>2. SubSeq(file, 1, i - 1) \in Seq(LineSet) /\ SubSeq(file, i + 1, Len(file)) \in Seq(LineSet)
      BY <3>1
    <3> QED
      BY <3>2 DEF RemoveAt
  <2> QED
    BY <2>1, <2>2 DEF OneOff
<1>4. Files \subseteq Seq(LineSet)
  BY <1>1, <1>3 DEF Files
<1>5. ASSUME NEW file \in Files PROVE IsFile(file, KR)
  <2>1. file \in Seq(LineSet) /\ file # None
    BY <1>4, InstallerAssumption
  <2>2. /\ Len(file) \in Nat /\ DOMAIN file = 1 .. Len(file)
        /\ \A n \in 1 .. Len(file) : file[n] \in LineSet
    BY <2>1
  <2> QED
    BY <2>1, <2>2, LineSetLemma DEF IsFile
<1> QED
  BY <1>4, <1>5

LEMMA LoadedLemma ==
  ASSUME NEW file \in Files
  PROVE  /\ Loaded[file] = load_config_file(file)
         /\ Loaded[file] \in Readings \cup {None}
         /\ IsFile(file, KR) /\ file # None
<1>1. IsFile(file, KR)
  BY FilesLemma
<1>2. PICK g : IsLoading(g, file, KR) /\ load_config_file(file) = g[Len(file)]
  BY <1>1, LoadLemma, KindsLemma
<1>3. Len(file) \in 0 .. Len(file) /\ file # None
  BY <1>1 DEF IsFile
<1>4. load_config_file(file) \in Of(KR) \cup {None}
  BY <1>2, <1>3 DEF IsLoading
<1> QED
  BY <1>1, <1>3, <1>4, KindsLemma DEF Loaded

\* Settings that the server accepts, in arguments or in a file.
Proper(s) == \A key \in SettingKeys : value_of(key, s[key]).ok

PlainLines(file) == \A i \in DOMAIN file : file[i].spelt = "plain"

\* The server with a file of plain lines.
LEMMA ServedLemma ==
  ASSUME NEW file \in Files, PlainLines(file)
  PROVE  /\ Served[file].ok <=> SoundLines(file)
         /\ SoundLines(file) => /\ Loaded[file] \in Readings /\ Proper(Loaded[file])
                                /\ Served[file] = Ok(Meaning(Loaded[file]))
<1> DEFINE N == Len(file)
           served == parse_config(<<Option("config", Word(1))>>, file)
           shown  == load_config_file(file)
           Good   == \A n \in 1 .. N : SoundLine(file[n])
<1>1. /\ IsFile(file, KR) /\ Kinds(KR) /\ Of(KR) = Readings
      /\ Loaded[file] = shown /\ Served[file] = served
  BY LoadedLemma, KindsLemma DEF Served
<1>2. /\ N \in Nat /\ DOMAIN file = 1 .. N /\ file # None
      /\ \A n \in 1 .. N : file[n].spelt = "plain" /\ IsLine(file[n], KR)
  BY <1>1 DEF IsFile, PlainLines
<1>3. PICK g : IsLoading(g, file, KR) /\ shown = g[N]
  BY <1>1, LoadLemma
<1>4. SoundLines(file) <=> Good
  BY <1>2 DEF SoundLines, SoundLine
<1>5. Good => /\ g[N] \in Readings /\ g[N] # None
              /\ \A key \in SettingKeys : value_of(key, g[N][key]).ok
  BY <1>1, <1>2, <1>3, ProperLemma DEF Kinds
<1>6. /\ served.ok <=> Good
      /\ served.ok => served = Ok(Meaning(shown))
  BY <1>1, <1>2, ServerLemma
<1> HIDE DEF served, shown, Good
<1> QED
  BY <1>1, <1>3, <1>4, <1>5, <1>6 DEF Proper

------------------------------------------------------------------------------
(* What is written is what is read again.                                  *)
Texts(port, whitelist, dns) ==
  [port |-> port, whitelist |-> whitelist, dns_servers |-> dns]

LEMMA TextsLemma ==
  /\ \A p, w, d, text :
       /\ [Texts(p, w, d) EXCEPT !["port"] = text] = Texts(text, w, d)
       /\ [Texts(p, w, d) EXCEPT !["whitelist"] = text] = Texts(p, text, d)
       /\ [Texts(p, w, d) EXCEPT !["dns_servers"] = text] = Texts(p, w, text)
  /\ \A s \in Readings : s = Texts(s.port, s.whitelist, s.dns_servers)
  /\ Unset = Texts(Numeral(1080), <<>>, DefaultDns)
<1>1. \A p, w, d, text :
        /\ [Texts(p, w, d) EXCEPT !["port"] = text] = Texts(text, w, d)
        /\ [Texts(p, w, d) EXCEPT !["whitelist"] = text] = Texts(p, text, d)
        /\ [Texts(p, w, d) EXCEPT !["dns_servers"] = text] = Texts(p, w, text)
  <2> SUFFICES ASSUME NEW p, NEW w, NEW d, NEW text, NEW s, s = Texts(p, w, d)
               PROVE  /\ [s EXCEPT !["port"] = text] = Texts(text, w, d)
                      /\ [s EXCEPT !["whitelist"] = text] = Texts(p, text, d)
                      /\ [s EXCEPT !["dns_servers"] = text] = Texts(p, w, text)
    OBVIOUS
  <2>1. [s EXCEPT !["port"] = text] = Texts(text, w, d)
    BY DEF Texts
  <2>2. [s EXCEPT !["whitelist"] = text] = Texts(p, text, d)
    BY DEF Texts
  <2>3. [s EXCEPT !["dns_servers"] = text] = Texts(p, w, text)
    BY DEF Texts
  <2> QED
    BY <2>1, <2>2, <2>3
<1>2. \A s \in Readings : s = Texts(s.port, s.whitelist, s.dns_servers)
  BY DEF Texts, Readings
<1>3. Unset = Texts(Numeral(1080), <<>>, DefaultDns)
  BY DEF Unset, Texts
<1> QED
  BY <1>1, <1>2, <1>3

LEMMA AssignLine ==
  ASSUME NEW s \in Readings, NEW key \in SettingKeys, NEW text
  PROVE  load_line(s, Assign(key, text)) = [s EXCEPT ![key] = text]
<1>1. s # None
  BY InstallerAssumption
<1> QED
  BY <1>1, UnsetLemma DEF load_line, Assign

LEMMA WrittenLemma ==
  ASSUME NEW s \in Readings, Writable(s)
  PROVE  /\ write_config_file(s) \in Files
         /\ Loaded[write_config_file(s)] = s
         /\ s.dns_servers = DefaultDns => ~GrepsDns(write_config_file(s))
<1> DEFINE file == write_config_file(s)
           a == Assign("port", s.port)
           b == Assign("whitelist", s.whitelist)
           c == Assign("dns_servers", s.dns_servers)
           one == Texts(s.port, <<>>, DefaultDns)
           two == Texts(s.port, s.whitelist, DefaultDns)
<1>1. file \in Files
  BY DEF Files, Written
<1>2. s = Texts(s.port, s.whitelist, s.dns_servers)
  BY TextsLemma
<1>3. one \in Readings /\ two \in Readings
  BY DEF Texts, Readings, Lists
<1>4. /\ load_line(Unset, a) = one
      /\ load_line(one, b) = two
      /\ load_line(two, c) = s
  <2>1. load_line(Unset, a) = [Unset EXCEPT !["port"] = s.port]
    BY AssignLine, KindsLemma DEF SettingKeys
  <2>2. load_line(one, b) = [one EXCEPT !["whitelist"] = s.whitelist]
    BY AssignLine, <1>3 DEF SettingKeys
  <2>3. load_line(two, c) = [two EXCEPT !["dns_servers"] = s.dns_servers]
    BY AssignLine, <1>3 DEF SettingKeys
  <2> QED
    BY <1>2, <2>1, <2>2, <2>3, TextsLemma
<1>5. PICK g : IsLoading(g, file, KR) /\ Loaded[file] = g[Len(file)]
  BY <1>1, LoadedLemma, LoadLemma, KindsLemma
<1>6. CASE s.dns_servers = DefaultDns
  <2>1. file = <<a, b>>
    BY <1>6 DEF write_config_file
  <2>2. a.key = "port" /\ b.key = "whitelist"
    BY DEF Assign
  <2> HIDE DEF file, a, b, c, one, two
  <2>3. Len(file) = 2 /\ file[1] = a /\ file[2] = b /\ DOMAIN file = 1 .. 2
    BY <2>1
  <2>4. g[0] = Unset /\ g[1] = load_line(g[0], a) /\ g[2] = load_line(g[1], b)
    BY <1>5, <2>3 DEF IsLoading
  <2>5. two = s
    BY <1>2, <1>6 DEF two
  <2>6. Loaded[file] = s
    BY <1>4, <1>5, <2>3, <2>4, <2>5
  <2>7. ~GrepsDns(file)
    <3>1. \A i \in 1 .. 2 : file[i] = a \/ file[i] = b
      BY <2>3
    <3> QED
      BY <2>2, <2>3, <3>1 DEF GrepsDns
  <2> QED
    BY <1>1, <2>6, <2>7 DEF file
<1>7. CASE s.dns_servers # DefaultDns
  <2>1. file = <<a, b>> \o <<c>>
    BY <1>7 DEF write_config_file
  <2> HIDE DEF file, a, b, c, one, two
  <2>2. Len(file) = 3 /\ file[1] = a /\ file[2] = b /\ file[3] = c
    BY <2>1
  <2>3. /\ g[0] = Unset /\ g[1] = load_line(g[0], a) /\ g[2] = load_line(g[1], b)
        /\ g[3] = load_line(g[2], c)
    BY <1>5, <2>2 DEF IsLoading
  <2>4. Loaded[file] = s
    BY <1>4, <1>5, <2>2, <2>3
  <2> QED
    BY <1>1, <1>7, <2>4 DEF file
<1> QED
  BY <1>6, <1>7

\* Name servers other than the default ones come from a line of the file.
LEMMA DnsLemma ==
  ASSUME NEW file \in Files, Loaded[file] # None, Loaded[file].dns_servers # DefaultDns
  PROVE  GrepsDns(file)
<1>1. IsFile(file, KR) /\ Loaded[file] = load_config_file(file) /\ Kinds(KR) /\ Of(KR) = Readings
  BY LoadedLemma, KindsLemma
<1>2. /\ Len(file) \in Nat /\ DOMAIN file = 1 .. Len(file)
      /\ \A n \in 1 .. Len(file) : IsLine(file[n], KR)
  BY <1>1 DEF IsFile
<1>3. PICK g : IsLoading(g, file, KR) /\ load_config_file(file) = g[Len(file)]
  BY <1>1, LoadLemma
<1> SUFFICES ASSUME ~GrepsDns(file) PROVE FALSE
  OBVIOUS
<1> DEFINE Q(s) == s = None \/ s.dns_servers = DefaultDns
           S == {n \in Nat : n <= Len(file) => Q(g[n])}
<1>4. 0 \in S
  BY <1>3 DEF IsLoading, Unset
<1>5. ASSUME NEW n \in Nat, n \in S PROVE n + 1 \in S
  <2> DEFINE m == n + 1
  <2> SUFFICES ASSUME m <= Len(file) PROVE Q(g[m])
    OBVIOUS
  <2>1. Q(g[n])
    BY <1>2, <1>5
  <2>2. m \in 1 .. Len(file) /\ m - 1 = n /\ m \in DOMAIN file
    BY <1>2
  <2> HIDE DEF m
  <2> DEFINE l == file[m]
             s == g[n]
  <2>3. g[m] = load_line(s, l) /\ s \in Readings \cup {None} /\ IsLine(l, KR)
    BY <1>1, <1>2, <1>3, <2>2 DEF IsLoading
  <2>4. l.form = "assign" /\ l.spelt # "wide" => l.key # "dns_servers"
    BY <2>2 DEF GrepsDns
  <2> HIDE DEF l, s
  <2>5. Q(s)
    BY <2>1 DEF s
  <2> HIDE DEF Q
  <2>6. Q(load_line(s, l))
    <3>1. CASE s = None \/ l.spelt = "wide"
      BY <1>1, <2>3, <3>1, LoadLineLemma DEF Q
    <3>2. CASE s # None /\ l.spelt # "wide" /\ (l.form # "assign" \/ l.key \notin DOMAIN Unset)
      <4>1. load_line(s, l) = s \/ load_line(s, l) = None
        BY <2>3, <3>2 DEF load_line, IsLine
      <4> QED
        BY <2>5, <4>1 DEF Q
    <3>3. CASE s # None /\ l.spelt # "wide" /\ l.form = "assign" /\ l.key \in DOMAIN Unset
      <4> DEFINE t == IF l.spelt = "return" THEN Marred ELSE l.value
      <4>1. load_line(s, l) = [s EXCEPT ![l.key] = t]
        BY <3>3 DEF load_line
      <4>2. DOMAIN s = SettingKeys /\ l.key # "dns_servers" /\ s.dns_servers = DefaultDns
        BY <1>1, <2>3, <2>4, <2>5, <3>3, OfLemma DEF Q
      <4> HIDE DEF t
      <4>3. [s EXCEPT ![l.key] = t].dns_servers = DefaultDns
        BY <4>2 DEF SettingKeys
      <4> QED
        BY <4>1, <4>3 DEF Q
    <3> QED
      BY <3>1, <3>2, <3>3
  <2> QED
    BY <2>3, <2>6
<1> HIDE DEF S
<1>6. Len(file) \in S
  BY <1>2, <1>4, <1>5, Induction
<1> QED
  BY <1>1, <1>2, <1>3, <1>6 DEF S

------------------------------------------------------------------------------
(* Settings as arguments.                                                  *)
\* One option.
LEMMA OverrideLemma ==
  ASSUME NEW s \in Readings, NEW key \in SettingKeys, NEW text
  PROVE  LET r == override(Ok(Meaning(s)), Option(key, text)) IN
         /\ value_of(key, text).ok => r = Ok(Meaning([s EXCEPT ![key] = text]))
         /\ ~value_of(key, text).ok => ~r.ok
<1>1. Option(key, text).key = key /\ Option(key, text).value = text
  BY DEF Option
<1>2. override(Ok(Meaning(s)), Option(key, text)) = apply_value(Ok(Meaning(s)), key, text)
  BY <1>1 DEF override
<1>3. apply_value(Ok(Meaning(s)), key, text)
        = IF value_of(key, text).ok THEN Ok(Meaning([s EXCEPT ![key] = text]))
                                    ELSE value_of(key, text)
  BY ApplyLemma, KindsLemma
<1> QED
  BY <1>2, <1>3

LEMMA StaysRefused ==
  ASSUME NEW r, ~r.ok, NEW a
  PROVE  override(r, a) = r
BY DEF override, apply_value

\* The server with a few options of settings.
LEMMA ParseArgsLemma ==
  ASSUME NEW T, None \notin T, NEW args \in Seq(Options(T)), NEW c,
         Along(override, Ok(Defaults), args) = c,
         c.ok => \E s : c = Ok(Meaning(s))
  PROVE  parse_config(args, None) = c
<1> DEFINE r == Taken(args)
<1>1. r.ok /\ r.value.exit = FALSE /\ r.value.path = None /\ r.value.overrides = args
  BY DEF Taken, Read, Ok
<1>2. read_args(args) = r
  BY ReadArgsLemma
<1>3. c.ok => validate(c.value)
  BY ValidLemma DEF Ok
<1> HIDE DEF r
<1> QED
  BY <1>1, <1>2, <1>3 DEF parse_config

LEMMA ArgumentsLemma ==
  ASSUME NEW s \in Readings
  PROVE  /\ parse_config(Arguments(s), None).ok <=> SoundArgs(Arguments(s))
         /\ SoundArgs(Arguments(s)) =>
              /\ parse_config(Arguments(s), None)
                   = Ok(Meaning(Texts(s.port, s.whitelist, DefaultDns)))
              /\ s.dns_servers = DefaultDns => Proper(s)
         /\ Proper(s) => Meant(s) = Meaning(s)
<1> DEFINE a == Option("port", s.port)
           b == Option("whitelist", s.whitelist)
           c == Option("dns_servers", s.dns_servers)
           args == Arguments(s)
           full == Append(args, c)
           zero == Unset
           one == Texts(s.port, <<>>, DefaultDns)
           two == Texts(s.port, s.whitelist, DefaultDns)
           T == {t[key] : t \in Readings, key \in SettingKeys}
           OkP == value_of("port", s.port).ok
           OkW == value_of("whitelist", s.whitelist).ok
           OkD == value_of("dns_servers", s.dns_servers).ok
           r0 == Ok(Meaning(zero))
           r1 == override(r0, a)
           r2 == override(r1, b)
<1>1. /\ "port" \in SettingKeys /\ "whitelist" \in SettingKeys /\ "dns_servers" \in SettingKeys
      /\ zero \in Readings /\ one \in Readings /\ two \in Readings
      /\ [zero EXCEPT !["port"] = s.port] = one /\ [one EXCEPT !["whitelist"] = s.whitelist] = two
      /\ [two EXCEPT !["dns_servers"] = s.dns_servers] = s
      /\ s.whitelist = <<>> => one = two
  <2>1. one \in Readings /\ two \in Readings
    BY DEF Texts, Readings, Lists
  <2>2. [zero EXCEPT !["port"] = s.port] = one
    BY TextsLemma
  <2>3. [one EXCEPT !["whitelist"] = s.whitelist] = two
    BY TextsLemma
  <2>4. [two EXCEPT !["dns_servers"] = s.dns_servers] = s
    BY TextsLemma
  <2> QED
    BY <2>1, <2>2, <2>3, <2>4, KindsLemma DEF SettingKeys
<1>2. None \notin T
  BY InstallerAssumption, UnsetLemma
<1>3. a \in Options(T) /\ b \in Options(T) /\ c \in Options(T)
  <2>1. s.port \in T /\ s.whitelist \in T /\ s.dns_servers \in T
    BY <1>1
  <2> HIDE DEF T
  <2> QED
    BY <1>1, <2>1 DEF Options
<1>4. (args = <<a>> /\ s.whitelist = <<>>) \/ (args = <<a, b>> /\ s.whitelist # <<>>)
  <2> HIDE DEF a, b
  <2>1. <<a>> \o <<>> = <<a>> /\ <<a>> \o <<b>> = <<a, b>>
    BY FewLemma
  <2>2. args = <<a>> \o IF s.whitelist = <<>> THEN <<>> ELSE <<b>>
    BY DEF Arguments, a, b
  <2> HIDE DEF args
  <2> QED
    BY <2>1, <2>2
<1>5. s.whitelist = <<>> => OkW
  <2>1. Unset.whitelist = <<>>
    BY DEF Unset
  <2> QED
    BY <1>1, <2>1, MeaningUnset
<1>6. SoundArgs(args) <=> OkP /\ OkW
  <2>1. /\ a.key = "port" /\ a.value = s.port /\ b.key = "whitelist" /\ b.value = s.whitelist
        /\ a.value # None /\ b.value # None /\ "port" \in Keys /\ "whitelist" \in Keys
    <3>1. s.port # None /\ s.whitelist # None
      BY <1>1, InstallerAssumption, UnsetLemma
    <3> QED
      BY <3>1 DEF Option, Keys
  <2> HIDE DEF a, b
  <2>2. CASE args = <<a>> /\ s.whitelist = <<>>
    <3>1. DOMAIN args = {1} /\ args[1] = a
      BY <2>2
    <3> HIDE DEF args
    <3> QED
      BY <1>5, <2>1, <2>2, <3>1 DEF SoundArgs
  <2>3. CASE args = <<a, b>>
    <3>1. DOMAIN args = {1, 2} /\ args[1] = a /\ args[2] = b
      BY <2>3
    <3> HIDE DEF args
    <3> QED
      BY <2>1, <3>1 DEF SoundArgs
  <2> QED
    BY <1>4, <2>2, <2>3
<1>7. r0 = Ok(Defaults)
  BY MeaningUnset
<1> DEFINE m1 == Meaning(one)
           m2 == Meaning(two)
           m3 == Meaning(s)
<1>8. /\ OkP => r1 = Ok(m1)
      /\ ~OkP => ~r1.ok
  <2>1. LET r == override(Ok(Meaning(zero)), Option("port", s.port)) IN
        /\ value_of("port", s.port).ok => r = Ok(Meaning([zero EXCEPT !["port"] = s.port]))
        /\ ~value_of("port", s.port).ok => ~r.ok
    BY <1>1, OverrideLemma
  <2> QED
    BY <1>1, <2>1
<1>9. /\ OkP /\ OkW => r2 = Ok(m2)
      /\ ~(OkP /\ OkW) => ~r2.ok
  <2>1. LET r == override(Ok(Meaning(one)), Option("whitelist", s.whitelist)) IN
        /\ OkW => r = Ok(Meaning([one EXCEPT !["whitelist"] = s.whitelist]))
        /\ ~OkW => ~r.ok
    BY <1>1, OverrideLemma
  <2>2. OkP => (OkW => r2 = Ok(m2)) /\ (~OkW => ~r2.ok)
    BY <1>1, <1>8, <2>1
  <2>3. ~OkP => r2 = r1
    <3> HIDE DEF r1
    <3> QED
      BY <1>8, StaysRefused
  <2> QED
    BY <1>8, <2>2, <2>3
<1>10. OkP /\ OkW /\ OkD => override(Ok(m2), c) = Ok(m3)
  <2>1. LET r == override(Ok(Meaning(two)), Option("dns_servers", s.dns_servers)) IN
        /\ OkD => r = Ok(Meaning([two EXCEPT !["dns_servers"] = s.dns_servers]))
        /\ ~OkD => ~r.ok
    BY <1>1, OverrideLemma
  <2> QED
    BY <1>1, <2>1
<1>11. s.whitelist = <<>> => m1 = m2
  BY <1>1
<1>12. Proper(s) <=> OkP /\ OkW /\ OkD
  BY DEF Proper, SettingKeys
<1>13. s.dns_servers = DefaultDns => OkD
  <2>1. Unset.dns_servers = DefaultDns
    BY DEF Unset
  <2> QED
    BY <1>1, <2>1, MeaningUnset
<1>14. Meant(s) = parse_config(full, None).value
  BY DEF Meant
<1> DEFINE result == Overridden(r0, args)
           whole  == Overridden(r0, full)
<1>15. result = IF args = <<a>> /\ s.whitelist = <<>> THEN r1 ELSE r2
  <2> HIDE DEF a, b, r0, args
  <2>1. /\ args = <<a>> => Overridden(r0, args) = r1
        /\ args = <<a, b>> => Overridden(r0, args) = r2
    BY FewOverrides
  <2>2. CASE args = <<a>> /\ s.whitelist = <<>>
    BY <2>1, <2>2
  <2>3. CASE args = <<a, b>> /\ s.whitelist # <<>>
    BY <2>1, <2>3
  <2> QED
    BY <1>4, <2>2, <2>3
<1>16. whole = override(result, c)
  <2> HIDE DEF a, b, c, r0, args, r1, r2
  <2>1. Append(<<a>>, c) = <<a, c>> /\ Append(<<a, b>>, c) = <<a, b, c>>
    BY FewLemma
  <2>2. /\ full = <<a, c>> => Overridden(r0, full) = override(r1, c)
        /\ full = <<a, b, c>> => Overridden(r0, full) = override(r2, c)
    <3> HIDE DEF full
    <3> QED
      BY FewOverrides DEF r1, r2
  <2>3. CASE args = <<a>> /\ s.whitelist = <<>>
    BY <1>15, <2>1, <2>2, <2>3
  <2>4. CASE args = <<a, b>> /\ s.whitelist # <<>>
    BY <1>15, <2>1, <2>2, <2>4
  <2> QED
    BY <1>4, <2>3, <2>4
<1>17. args \in Seq(Options(T)) /\ full \in Seq(Options(T))
  <2> HIDE DEF a, b, c, T, args
  <2>1. <<a>> \in Seq(Options(T)) /\ <<a, b>> \in Seq(Options(T))
    BY <1>3
  <2>2. args \in Seq(Options(T))
    BY <1>4, <2>1
  <2> QED
    BY <1>3, <2>2
<1> HIDE DEF a, b, c, args, full, zero, T, OkP, OkW, OkD, r0, r1, r2, m1, m2, m3, result, whole
<1>18. /\ OkP /\ OkW => result = Ok(m2)
       /\ ~(OkP /\ OkW) => ~result.ok
  BY <1>4, <1>5, <1>8, <1>9, <1>11, <1>15
<1>19. parse_config(args, None) = result
  <2>1. result.ok => \E t : result = Ok(Meaning(t))
    BY <1>18 DEF m2
  <2>2. Along(override, Ok(Defaults), args) = result
    BY <1>7 DEF result, Overridden
  <2> QED
    BY <1>2, <1>17, <2>1, <2>2, ParseArgsLemma
<1>20. OkP /\ OkW /\ OkD => parse_config(full, None).value = m3
  <2> SUFFICES ASSUME OkP, OkW, OkD PROVE parse_config(full, None).value = m3
    OBVIOUS
  <2>1. whole = Ok(m3)
    BY <1>10, <1>16, <1>18
  <2>2. whole.ok => \E t : whole = Ok(Meaning(t))
    BY <2>1 DEF m3
  <2>3. Along(override, Ok(Defaults), full) = whole
    BY <1>7 DEF whole, Overridden
  <2>4. parse_config(full, None) = whole
    BY <1>2, <1>17, <2>2, <2>3, ParseArgsLemma
  <2> QED
    BY <2>1, <2>4 DEF Ok
<1>21. Ok(m2).ok
  BY DEF Ok
<1>22. parse_config(args, None).ok <=> SoundArgs(args)
  BY <1>6, <1>18, <1>19, <1>21
<1>23. SoundArgs(args) => /\ parse_config(args, None) = Ok(m2)
                          /\ s.dns_servers = DefaultDns => Proper(s)
  BY <1>6, <1>12, <1>13, <1>18, <1>19
<1>24. Proper(s) => Meant(s) = m3
  BY <1>12, <1>14, <1>20
<1> QED
  BY <1>22, <1>23, <1>24 DEF args, m2, m3

------------------------------------------------------------------------------
(* The service.                                                            *)
LEMMA NamesLemma ==
  /\ None \notin Readings /\ ByFile \notin Readings /\ Torn \notin Readings
  /\ ByFile # None /\ Torn # None /\ ByFile # Torn
  /\ None \notin Files /\ None \notin Operations
BY InstallerAssumption

LEMMA MarksLemma ==
  /\ Placeholders = IF manager = "sysvinit" THEN {"program", "config"} ELSE {}
  /\ "enable" \in Marks /\ Marks \subseteq {"exec", "enable"}
BY DEF Placeholders, Marks

\* The types of the installation.
Types ==
  /\ firewall \in {"port", "table", "none"}
  /\ manager \in {"systemd", "openrc", "sysvinit"}
  /\ binary \in 0 .. 3 /\ prepared \in 0 .. 3
  /\ config \in Files \cup {None}
  /\ service \in Settings \cup {None, ByFile, Torn}
  /\ lacks \subseteq {"program", "config", "exec", "enable"}
  /\ restart \in BOOLEAN /\ skipped \in BOOLEAN /\ past \in Nat

LEMMA CurrentLemma ==
  ASSUME Types
  PROVE  /\ service = None => Current = None
         /\ service = Torn => Current = Unset
         /\ service = ByFile =>
              Current = IF "config" \in lacks \/ config = None THEN None ELSE Loaded[config]
         /\ service \in Settings => Current = service
         /\ Current \in Readings \cup {None}
         /\ Current # None /\ Current.dns_servers # DefaultDns =>
              service = ByFile /\ GrepsDns(config)
<1> USE NamesLemma, KindsLemma
<1>1. service = None => Current = None
  BY Zenon DEF Current
<1>2. service = Torn => Current = Unset
  BY Zenon DEF Current
<1>3. service = ByFile =>
        Current = IF "config" \in lacks \/ config = None THEN None ELSE Loaded[config]
  BY Zenon DEF Current
<1>4. service \in Settings => Current = service
  BY Zenon DEF Current
<1>5. config # None => Loaded[config] \in Readings \cup {None}
  BY LoadedLemma DEF Types
<1>6. ASSUME Current # None, Current.dns_servers # DefaultDns
      PROVE  service = ByFile /\ GrepsDns(config)
  <2>1. service = ByFile
    BY <1>1, <1>2, <1>4, <1>6 DEF Types
  <2>2. config \in Files /\ Current = Loaded[config]
    BY <1>3, <1>6, <2>1 DEF Types
  <2> QED
    BY <1>6, <2>1, <2>2, DnsLemma
<1>7. Current \in Readings \cup {None}
  BY <1>1, <1>2, <1>3, <1>4, <1>5 DEF Types
<1> QED
  BY <1>1, <1>2, <1>3, <1>4, <1>6, <1>7

\* The pattern of prepare_binary finds no line that is none.
LEMMA GrepsLemma ==
  ASSUME NEW file
  PROVE  /\ GrepsDns(file) => SetsDns(file)
         /\ PlainLines(file) /\ SetsDns(file) => GrepsDns(file)
BY DEF GrepsDns, SetsDns, PlainLines

LEMMA LaunchLemma ==
  ASSUME Types, Plain, Whole, Equipped
  PROVE  Launched = IF Acceptable THEN [version |-> binary, with |-> Meant(Current)] ELSE None
<1> USE NamesLemma, KindsLemma
<1>1. Launched = IF Parsed.ok THEN [version |-> binary, with |-> Parsed.value] ELSE None
  BY DEF Launched
<1>2. CASE service = ByFile
  <2>1. config \in Files /\ PlainLines(config)
    BY <1>2 DEF Types, Equipped, Plain, PlainLines
  <2>2. Current = Loaded[config]
    BY <1>2, <2>1, CurrentLemma DEF Whole
  <2>3. Parsed = Served[config] /\ (Acceptable <=> SoundLines(config))
    BY <1>2 DEF Parsed, Acceptable
  <2>4. Parsed.ok <=> Acceptable
    BY <2>1, <2>3, ServedLemma
  <2>5. Acceptable => Parsed = Ok(Meaning(Current)) /\ Meant(Current) = Meaning(Current)
    BY <2>1, <2>2, <2>3, ServedLemma, ArgumentsLemma
  <2>6. Acceptable => Parsed.value = Meant(Current)
    BY <2>5 DEF Ok
  <2> QED
    BY <1>1, <2>4, <2>6
<1>3. CASE service \in Settings
  <2>1. Current = service /\ service \in Readings /\ service.dns_servers = DefaultDns
    BY <1>3, CurrentLemma
  <2>2. /\ Parsed = parse_config(Arguments(service), None)
        /\ Acceptable <=> SoundArgs(Arguments(service))
    BY <1>3 DEF Parsed, Acceptable
  <2>3. service = Texts(service.port, service.whitelist, DefaultDns)
    BY <2>1, TextsLemma
  <2>4. Parsed.ok <=> Acceptable
    BY <2>1, <2>2, ArgumentsLemma
  <2>5. Acceptable => Parsed = Ok(Meaning(Current)) /\ Meant(Current) = Meaning(Current)
    BY <2>1, <2>2, <2>3, ArgumentsLemma
  <2>6. Acceptable => Parsed.value = Meant(Current)
    BY <2>5 DEF Ok
  <2> QED
    BY <1>1, <2>4, <2>6
<1> QED
  BY <1>2, <1>3 DEF Types, Whole

\* What depends on the definition alone.
LEMMA SameService ==
  ASSUME UNCHANGED <<manager, config, service, lacks>>
  PROVE  /\ Current' = Current /\ (Whole' <=> Whole)
         /\ binary' = binary => (Equipped' <=> Equipped) /\ Launched' = Launched
<1>1. Current' = Current
  BY DEF Current
<1>2. Whole' <=> Whole
  BY DEF Whole
<1>3. Parsed' = Parsed
  BY DEF Parsed
<1>4. binary' = binary => (Equipped' <=> Equipped)
  BY DEF Equipped
<1> QED
  BY <1>1, <1>2, <1>3, <1>4 DEF Launched

------------------------------------------------------------------------------
(* Where the script is.                                                    *)
\* The steps that are left; counted so that those of create_service have the
\* same number in every operation.
Left == Len(todo)
Total(o) == Len(Steps(o))
Rank == IF op = "upgrade" THEN Left + 1 ELSE Left
Creates == op \in {"install", "modify", "upgrade"}

Place(o, n) == SubSeq(Steps(o), Total(o) - n + 1, Total(o))

\* The script is somewhere in an operation or nowhere; a restart is that of the
\* service which the upgrade has defined.
Where(o, n) == op = o /\ Left = n

Script ==
  /\ \/ op = None /\ todo = <<>>
     \/ /\ op \in Operations /\ ~restart
        /\ Left \in 1 .. Total(op) /\ todo = Place(op, Left)
  /\ restart => service = ByFile

StepNames ==
  {"prepare", "stage", "write", "open", "tee", "program", "config", "exec", "enable",
  "guard", "start", "stop", "unguard", "restart", "schedule", "disable", "undefine",
  "rmbinary", "rmconfig"}

Joined(f, g, e) == f \o g \o e

IsJoined(s, f, g, e) ==
  /\ s \in Seq(StepNames) /\ Len(s) = 9 + Len(e)
  /\ s[1] = f[1] /\ s[2] = f[2] /\ s[3] = f[3]
  /\ s[4] = g[1] /\ s[5] = g[2] /\ s[6] = g[3]
  /\ s[7] = g[4] /\ s[8] = g[5] /\ s[9] = g[6]
  /\ Len(e) >= 1 => s[10] = e[1]
  /\ Len(e) >= 2 => s[11] = e[2]

LEMMA JoinedLemma ==
  ASSUME NEW f \in Seq(StepNames), NEW g \in Seq(StepNames), NEW e \in Seq(StepNames),
         Len(f) = 3, Len(g) = 6, NEW s, s = Joined(f, g, e)
  PROVE  IsJoined(s, f, g, e)
<1> DEFINE t == f \o g
           n == Len(e)
<1>1. /\ t \in Seq(StepNames) /\ Len(t) = Len(f) + Len(g)
      /\ \A i \in 1 .. Len(f) + Len(g) : t[i] = IF i <= Len(f) THEN f[i] ELSE g[i - Len(f)]
  BY ConcatProperties, Zenon
<1>2. s = t \o e
  BY DEF Joined
<1> HIDE DEF t
<1>3. /\ s \in Seq(StepNames) /\ Len(s) = Len(t) + Len(e)
      /\ \A i \in 1 .. Len(t) + Len(e) : s[i] = IF i <= Len(t) THEN t[i] ELSE e[i - Len(t)]
  <2>1. /\ t \o e \in Seq(StepNames) /\ Len(t \o e) = Len(t) + Len(e)
        /\ \A i \in 1 .. Len(t) + Len(e) :
             (t \o e)[i] = IF i <= Len(t) THEN t[i] ELSE e[i - Len(t)]
    <3>1. t \in Seq(StepNames)
      BY <1>1
    <3> QED
      BY <3>1, ConcatProperties, Zenon
  <2> QED
    BY <1>2, <2>1, Zenon
<1>4. /\ Len(t) = 9 /\ t[1] = f[1] /\ t[2] = f[2] /\ t[3] = f[3]
      /\ t[4] = g[1] /\ t[5] = g[2] /\ t[6] = g[3]
      /\ t[7] = g[4] /\ t[8] = g[5] /\ t[9] = g[6]
  <2>1. Len(t) = 9 /\ \A i \in 1 .. 9 : t[i] = IF i <= 3 THEN f[i] ELSE g[i - 3]
    BY <1>1
  <2>2. /\ 4 - 3 = 1 /\ 5 - 3 = 2 /\ 6 - 3 = 3 /\ 7 - 3 = 4 /\ 8 - 3 = 5 /\ 9 - 3 = 6
    OBVIOUS
  <2> QED
    BY <2>1, <2>2
<1>5. n \in Nat /\ Len(s) = 9 + n
      /\ \A i \in 1 .. 9 + n : s[i] = IF i <= 9 THEN t[i] ELSE e[i - 9]
  <2>1. Len(e) \in Nat
    BY LenProperties
  <2> QED
    BY <1>3, <1>4, <2>1
<1> HIDE DEF n
<1>6. /\ s[1] = t[1] /\ s[2] = t[2] /\ s[3] = t[3] /\ s[4] = t[4] /\ s[5] = t[5]
      /\ s[6] = t[6] /\ s[7] = t[7] /\ s[8] = t[8] /\ s[9] = t[9]
  BY <1>5
<1>7. /\ n >= 1 => s[10] = e[1]
      /\ n >= 2 => s[11] = e[2]
  BY <1>5
<1> QED
  BY <1>3, <1>4, <1>5, <1>6, <1>7 DEF n, IsJoined

LEMMA StepsLemma ==
  /\ \A o \in Operations : Steps(o) \in Seq(StepNames) /\ Total(o) \in 6 .. 11
  /\ Total("install") = 11 /\ Total("modify") = 11
  /\ Total("upgrade") = 10 /\ Total("uninstall") = 6
  /\ /\ Steps("install")[1] = "prepare" /\ Steps("install")[2] = "stage"
     /\ Steps("install")[3] = "write" /\ Steps("install")[4] = "open"
     /\ Steps("install")[5] = "tee" /\ Steps("install")[6] = "program"
     /\ Steps("install")[7] = "config" /\ Steps("install")[8] = "exec"
     /\ Steps("install")[9] = "enable" /\ Steps("install")[10] = "guard"
     /\ Steps("install")[11] = "start"
  /\ /\ Steps("modify")[1] = "write" /\ Steps("modify")[2] = "stop"
     /\ Steps("modify")[3] = "unguard" /\ Steps("modify")[4] = "open"
     /\ Steps("modify")[5] = "tee" /\ Steps("modify")[6] = "program"
     /\ Steps("modify")[7] = "config" /\ Steps("modify")[8] = "exec"
     /\ Steps("modify")[9] = "enable" /\ Steps("modify")[10] = "guard"
     /\ Steps("modify")[11] = "restart"
  /\ /\ Steps("upgrade")[1] = "prepare" /\ Steps("upgrade")[2] = "write"
     /\ Steps("upgrade")[3] = "stage" /\ Steps("upgrade")[4] = "open"
     /\ Steps("upgrade")[5] = "tee" /\ Steps("upgrade")[6] = "program"
     /\ Steps("upgrade")[7] = "config" /\ Steps("upgrade")[8] = "exec"
     /\ Steps("upgrade")[9] = "enable" /\ Steps("upgrade")[10] = "schedule"
  /\ /\ Steps("uninstall")[1] = "stop" /\ Steps("uninstall")[2] = "disable"
     /\ Steps("uninstall")[3] = "undefine" /\ Steps("uninstall")[4] = "unguard"
     /\ Steps("uninstall")[5] = "rmbinary" /\ Steps("uninstall")[6] = "rmconfig"
<1> DEFINE P(n) == n \in StepNames
<1>1. P("prepare") /\ P("stage") /\ P("write") /\ P("open") /\ P("tee") /\
      P("program") /\ P("config") /\ P("exec") /\ P("enable") /\ P("guard") /\
      P("start") /\ P("stop") /\ P("unguard") /\ P("restart") /\ P("schedule") /\
      P("disable") /\ P("undefine") /\ P("rmbinary") /\ P("rmconfig")
  BY DEF StepNames
<1>3. ASSUME NEW a, NEW b, NEW c, P(a), P(b), P(c)
      PROVE  /\ <<a>> \in Seq(StepNames) /\ Len(<<a>>) = 1 /\ <<a>>[1] = a
             /\ <<a, b>> \in Seq(StepNames) /\ Len(<<a, b>>) = 2
             /\ <<a, b>>[1] = a /\ <<a, b>>[2] = b
             /\ <<a, b, c>> \in Seq(StepNames) /\ Len(<<a, b, c>>) = 3
             /\ <<a, b, c>>[1] = a /\ <<a, b, c>>[2] = b /\ <<a, b, c>>[3] = c
  BY <1>3
<1>4. ASSUME NEW a, NEW b, NEW c, NEW d, NEW e, NEW f,
             P(a), P(b), P(c), P(d), P(e), P(f)
      PROVE  <<a, b, c, d, e, f>> \in Seq(StepNames)
  BY <1>4
<1> HIDE DEF P
<1>5. /\ create \in Seq(StepNames) /\ Len(create) = 6
      /\ create[1] = "open" /\ create[2] = "tee" /\ create[3] = "program"
      /\ create[4] = "config" /\ create[5] = "exec" /\ create[6] = "enable"
  <2>1. create = <<"open", "tee", "program", "config", "exec", "enable">>
    BY DEF create
  <2>2. create \in Seq(StepNames)
    BY <1>1, <1>4, <2>1
  <2> QED
    BY <2>1, <2>2
<1>6. /\ Steps("uninstall") \in Seq(StepNames) /\ Len(Steps("uninstall")) = 6
      /\ Steps("uninstall")[1] = "stop" /\ Steps("uninstall")[2] = "disable"
      /\ Steps("uninstall")[3] = "undefine" /\ Steps("uninstall")[4] = "unguard"
      /\ Steps("uninstall")[5] = "rmbinary" /\ Steps("uninstall")[6] = "rmconfig"
  <2> DEFINE n == Steps("uninstall")
  <2>1. n = <<"stop", "disable", "undefine", "unguard", "rmbinary", "rmconfig">>
    BY DEF Steps
  <2> HIDE DEF n
  <2>2. n \in Seq(StepNames)
    BY <1>1, <1>4, <2>1
  <2> QED
    BY <2>1, <2>2 DEF n
<1>7. /\ Steps("install") \in Seq(StepNames) /\ Len(Steps("install")) = 11
      /\ Steps("install")[1] = "prepare" /\ Steps("install")[2] = "stage"
      /\ Steps("install")[3] = "write" /\ Steps("install")[4] = "open"
      /\ Steps("install")[5] = "tee" /\ Steps("install")[6] = "program"
      /\ Steps("install")[7] = "config" /\ Steps("install")[8] = "exec"
      /\ Steps("install")[9] = "enable" /\ Steps("install")[10] = "guard"
      /\ Steps("install")[11] = "start"
  <2> DEFINE f == <<"prepare", "stage", "write">>
             e == <<"guard", "start">>
             s == Steps("install")
  <2>1. s = Joined(f, create, e)
    BY DEF Steps, Joined
  <2>2. /\ f \in Seq(StepNames) /\ Len(f) = 3
        /\ f[1] = "prepare" /\ f[2] = "stage" /\ f[3] = "write"
    BY <1>1, <1>3
  <2>3. /\ e \in Seq(StepNames) /\ Len(e) = 2
        /\ e[1] = "guard" /\ e[2] = "start"
    BY <1>1, <1>3
  <2> HIDE DEF f, e, s
  <2>4. IsJoined(s, f, create, e)
    <3>1. /\ f \in Seq(StepNames) /\ Len(f) = 3 /\ e \in Seq(StepNames)
          /\ create \in Seq(StepNames) /\ Len(create) = 6
      BY <1>5, <2>2, <2>3
    <3> QED
      BY <2>1, <3>1, JoinedLemma
  <2> QED
    BY <1>5, <2>2, <2>3, <2>4 DEF IsJoined, s
<1>8. /\ Steps("modify") \in Seq(StepNames) /\ Len(Steps("modify")) = 11
      /\ Steps("modify")[1] = "write" /\ Steps("modify")[2] = "stop"
      /\ Steps("modify")[3] = "unguard" /\ Steps("modify")[4] = "open"
      /\ Steps("modify")[5] = "tee" /\ Steps("modify")[6] = "program"
      /\ Steps("modify")[7] = "config" /\ Steps("modify")[8] = "exec"
      /\ Steps("modify")[9] = "enable" /\ Steps("modify")[10] = "guard"
      /\ Steps("modify")[11] = "restart"
  <2> DEFINE f == <<"write", "stop", "unguard">>
             e == <<"guard", "restart">>
             s == Steps("modify")
  <2>1. s = Joined(f, create, e)
    BY DEF Steps, Joined
  <2>2. /\ f \in Seq(StepNames) /\ Len(f) = 3
        /\ f[1] = "write" /\ f[2] = "stop" /\ f[3] = "unguard"
    BY <1>1, <1>3
  <2>3. /\ e \in Seq(StepNames) /\ Len(e) = 2
        /\ e[1] = "guard" /\ e[2] = "restart"
    BY <1>1, <1>3
  <2> HIDE DEF f, e, s
  <2>4. IsJoined(s, f, create, e)
    <3>1. /\ f \in Seq(StepNames) /\ Len(f) = 3 /\ e \in Seq(StepNames)
          /\ create \in Seq(StepNames) /\ Len(create) = 6
      BY <1>5, <2>2, <2>3
    <3> QED
      BY <2>1, <3>1, JoinedLemma
  <2> QED
    BY <1>5, <2>2, <2>3, <2>4 DEF IsJoined, s
<1>9. /\ Steps("upgrade") \in Seq(StepNames) /\ Len(Steps("upgrade")) = 10
      /\ Steps("upgrade")[1] = "prepare" /\ Steps("upgrade")[2] = "write"
      /\ Steps("upgrade")[3] = "stage" /\ Steps("upgrade")[4] = "open"
      /\ Steps("upgrade")[5] = "tee" /\ Steps("upgrade")[6] = "program"
      /\ Steps("upgrade")[7] = "config" /\ Steps("upgrade")[8] = "exec"
      /\ Steps("upgrade")[9] = "enable" /\ Steps("upgrade")[10] = "schedule"
  <2> DEFINE f == <<"prepare", "write", "stage">>
             e == <<"schedule">>
             s == Steps("upgrade")
  <2>1. s = Joined(f, create, e)
    BY DEF Steps, Joined
  <2>2. /\ f \in Seq(StepNames) /\ Len(f) = 3
        /\ f[1] = "prepare" /\ f[2] = "write" /\ f[3] = "stage"
    BY <1>1, <1>3
  <2>3. /\ e \in Seq(StepNames) /\ Len(e) = 1
        /\ e[1] = "schedule"
    BY <1>1, <1>3
  <2> HIDE DEF f, e, s
  <2>4. IsJoined(s, f, create, e)
    <3>1. /\ f \in Seq(StepNames) /\ Len(f) = 3 /\ e \in Seq(StepNames)
          /\ create \in Seq(StepNames) /\ Len(create) = 6
      BY <1>5, <2>2, <2>3
    <3> QED
      BY <2>1, <3>1, JoinedLemma
  <2> QED
    BY <1>5, <2>2, <2>3, <2>4 DEF IsJoined, s
<1> QED
  BY <1>6, <1>7, <1>8, <1>9 DEF Operations, Total

LEMMA TotalLemma ==
  ASSUME NEW o \in Operations
  PROVE  Steps(o) \in Seq(StepNames) /\ Total(o) \in Nat
<1>1. Steps(o) \in Seq(StepNames) /\ Total(o) \in 6 .. 11
  BY StepsLemma, Zenon
<1> QED
  BY <1>1

\* Which step is due.
LEMMA DueLemma ==
  ASSUME Script, NEW step, Due(step)
  PROVE  /\ op \in Operations /\ ~restart
         /\ Left \in 1 .. Total(op) /\ todo = Place(op, Left)
         /\ step = Steps(op)[Total(op) - Left + 1]
<1>1. todo # <<>>
  BY DEF Due
<1>2. /\ op \in Operations /\ ~restart
      /\ Left \in 1 .. Total(op) /\ todo = Place(op, Left)
  BY <1>1 DEF Script
<1>3. Steps(op) \in Seq(StepNames) /\ Total(op) \in Nat
  BY <1>2, TotalLemma
<1>4. Head(todo) = Steps(op)[Total(op) - Left + 1]
  <2> DEFINE s == Steps(op)
             i == Total(op) - Left + 1
  <2>1. i \in 1 .. Len(s) /\ todo = SubSeq(s, i, Len(s)) /\ s \in Seq(StepNames)
    BY <1>2, <1>3 DEF Place, Total
  <2> HIDE DEF s, i
  <2> QED
    BY <2>1 DEF s, i
<1> QED
  BY <1>2, <1>4 DEF Due

\* The steps before create_service, and those after it.
LEMMA PlaceLemma ==
  ASSUME Script, NEW step, Due(step)
  PROVE  /\ step = "prepare" => Where("install", 11) \/ Where("upgrade", 10)
         /\ step = "stage" => Where("install", 10) \/ Where("upgrade", 8)
         /\ step = "write" => Where("install", 9) \/ Where("upgrade", 9) \/ Where("modify", 11)
         /\ step = "stop" => Where("modify", 10) \/ Where("uninstall", 6)
         /\ step = "unguard" => Where("modify", 9) \/ Where("uninstall", 3)
         /\ step = "open" => Creates /\ Rank = 8
         /\ step = "tee" => Creates /\ Rank = 7
         /\ step = "program" => Creates /\ Rank = 6
         /\ step = "config" => Creates /\ Rank = 5
         /\ step = "exec" => Creates /\ Rank = 4
         /\ step = "enable" => Creates /\ Rank = 3
         /\ step = "guard" => Where("install", 2) \/ Where("modify", 2)
         /\ step = "start" => Where("install", 1)
         /\ step = "restart" => Where("modify", 1)
         /\ step = "schedule" => Where("upgrade", 1)
         /\ step = "disable" => Where("uninstall", 5)
         /\ step = "undefine" => Where("uninstall", 4)
         /\ step = "rmbinary" => Where("uninstall", 2)
         /\ step = "rmconfig" => Where("uninstall", 1)
<1> DEFINE n == Left
<1>1. op \in Operations /\ n \in 1 .. Total(op) /\ step = Steps(op)[Total(op) - n + 1]
  BY DueLemma
<1> HIDE DEF n
<1>2. CASE op = "install"
  <2> DEFINE s == Steps("install")
  <2>1. n \in 1 .. 11 /\ step = s[11 - n + 1]
    BY <1>1, <1>2, StepsLemma
  <2> HIDE DEF s
  <2>2. \/ n = 11 /\ step = s[1]
        \/ n = 10 /\ step = s[2]
        \/ n = 9 /\ step = s[3]
        \/ n = 8 /\ step = s[4]
        \/ n = 7 /\ step = s[5]
        \/ n = 6 /\ step = s[6]
        \/ n = 5 /\ step = s[7]
        \/ n = 4 /\ step = s[8]
        \/ n = 3 /\ step = s[9]
        \/ n = 2 /\ step = s[10]
        \/ n = 1 /\ step = s[11]
    <3>1. /\ n = 11 => 11 - n + 1 = 1
          /\ n = 10 => 11 - n + 1 = 2
          /\ n = 9 => 11 - n + 1 = 3
          /\ n = 8 => 11 - n + 1 = 4
          /\ n = 7 => 11 - n + 1 = 5
          /\ n = 6 => 11 - n + 1 = 6
          /\ n = 5 => 11 - n + 1 = 7
          /\ n = 4 => 11 - n + 1 = 8
          /\ n = 3 => 11 - n + 1 = 9
          /\ n = 2 => 11 - n + 1 = 10
          /\ n = 1 => 11 - n + 1 = 11
          /\ \/ n = 11 \/ n = 10 \/ n = 9 \/ n = 8 \/ n = 7 \/ n = 6
             \/ n = 5 \/ n = 4 \/ n = 3 \/ n = 2 \/ n = 1
      BY <2>1
    <3> QED
      BY <2>1, <3>1
  <2>3. \/ n = 11 /\ step = "prepare"
        \/ n = 10 /\ step = "stage"
        \/ n = 9 /\ step = "write"
        \/ n = 8 /\ step = "open"
        \/ n = 7 /\ step = "tee"
        \/ n = 6 /\ step = "program"
        \/ n = 5 /\ step = "config"
        \/ n = 4 /\ step = "exec"
        \/ n = 3 /\ step = "enable"
        \/ n = 2 /\ step = "guard"
        \/ n = 1 /\ step = "start"
    BY <2>2, StepsLemma DEF s
  <2> QED
    BY <1>2, <2>3 DEF n, Where, Creates, Rank
<1>3. CASE op = "modify"
  <2> DEFINE s == Steps("modify")
  <2>1. n \in 1 .. 11 /\ step = s[11 - n + 1]
    BY <1>1, <1>3, StepsLemma
  <2> HIDE DEF s
  <2>2. \/ n = 11 /\ step = s[1]
        \/ n = 10 /\ step = s[2]
        \/ n = 9 /\ step = s[3]
        \/ n = 8 /\ step = s[4]
        \/ n = 7 /\ step = s[5]
        \/ n = 6 /\ step = s[6]
        \/ n = 5 /\ step = s[7]
        \/ n = 4 /\ step = s[8]
        \/ n = 3 /\ step = s[9]
        \/ n = 2 /\ step = s[10]
        \/ n = 1 /\ step = s[11]
    <3>1. /\ n = 11 => 11 - n + 1 = 1
          /\ n = 10 => 11 - n + 1 = 2
          /\ n = 9 => 11 - n + 1 = 3
          /\ n = 8 => 11 - n + 1 = 4
          /\ n = 7 => 11 - n + 1 = 5
          /\ n = 6 => 11 - n + 1 = 6
          /\ n = 5 => 11 - n + 1 = 7
          /\ n = 4 => 11 - n + 1 = 8
          /\ n = 3 => 11 - n + 1 = 9
          /\ n = 2 => 11 - n + 1 = 10
          /\ n = 1 => 11 - n + 1 = 11
          /\ \/ n = 11 \/ n = 10 \/ n = 9 \/ n = 8 \/ n = 7 \/ n = 6
             \/ n = 5 \/ n = 4 \/ n = 3 \/ n = 2 \/ n = 1
      BY <2>1
    <3> QED
      BY <2>1, <3>1
  <2>3. \/ n = 11 /\ step = "write"
        \/ n = 10 /\ step = "stop"
        \/ n = 9 /\ step = "unguard"
        \/ n = 8 /\ step = "open"
        \/ n = 7 /\ step = "tee"
        \/ n = 6 /\ step = "program"
        \/ n = 5 /\ step = "config"
        \/ n = 4 /\ step = "exec"
        \/ n = 3 /\ step = "enable"
        \/ n = 2 /\ step = "guard"
        \/ n = 1 /\ step = "restart"
    BY <2>2, StepsLemma DEF s
  <2> QED
    BY <1>3, <2>3 DEF n, Where, Creates, Rank
<1>4. CASE op = "upgrade"
  <2> DEFINE s == Steps("upgrade")
  <2>1. n \in 1 .. 10 /\ step = s[10 - n + 1]
    BY <1>1, <1>4, StepsLemma
  <2> HIDE DEF s
  <2>2. \/ n = 10 /\ step = s[1]
        \/ n = 9 /\ step = s[2]
        \/ n = 8 /\ step = s[3]
        \/ n = 7 /\ step = s[4]
        \/ n = 6 /\ step = s[5]
        \/ n = 5 /\ step = s[6]
        \/ n = 4 /\ step = s[7]
        \/ n = 3 /\ step = s[8]
        \/ n = 2 /\ step = s[9]
        \/ n = 1 /\ step = s[10]
    <3>1. /\ n = 10 => 10 - n + 1 = 1
          /\ n = 9 => 10 - n + 1 = 2
          /\ n = 8 => 10 - n + 1 = 3
          /\ n = 7 => 10 - n + 1 = 4
          /\ n = 6 => 10 - n + 1 = 5
          /\ n = 5 => 10 - n + 1 = 6
          /\ n = 4 => 10 - n + 1 = 7
          /\ n = 3 => 10 - n + 1 = 8
          /\ n = 2 => 10 - n + 1 = 9
          /\ n = 1 => 10 - n + 1 = 10
          /\ \/ n = 10 \/ n = 9 \/ n = 8 \/ n = 7 \/ n = 6 \/ n = 5
             \/ n = 4 \/ n = 3 \/ n = 2 \/ n = 1
      BY <2>1
    <3> QED
      BY <2>1, <3>1
  <2>3. \/ n = 10 /\ step = "prepare"
        \/ n = 9 /\ step = "write"
        \/ n = 8 /\ step = "stage"
        \/ n = 7 /\ step = "open"
        \/ n = 6 /\ step = "tee"
        \/ n = 5 /\ step = "program"
        \/ n = 4 /\ step = "config"
        \/ n = 3 /\ step = "exec"
        \/ n = 2 /\ step = "enable"
        \/ n = 1 /\ step = "schedule"
    BY <2>2, StepsLemma DEF s
  <2> QED
    BY <1>4, <2>3 DEF n, Where, Creates, Rank
<1>5. CASE op = "uninstall"
  <2> DEFINE s == Steps("uninstall")
  <2>1. n \in 1 .. 6 /\ step = s[6 - n + 1]
    BY <1>1, <1>5, StepsLemma
  <2> HIDE DEF s
  <2>2. \/ n = 6 /\ step = s[1]
        \/ n = 5 /\ step = s[2]
        \/ n = 4 /\ step = s[3]
        \/ n = 3 /\ step = s[4]
        \/ n = 2 /\ step = s[5]
        \/ n = 1 /\ step = s[6]
    <3>1. /\ n = 6 => 6 - n + 1 = 1
          /\ n = 5 => 6 - n + 1 = 2
          /\ n = 4 => 6 - n + 1 = 3
          /\ n = 3 => 6 - n + 1 = 4
          /\ n = 2 => 6 - n + 1 = 5
          /\ n = 1 => 6 - n + 1 = 6
          /\ n = 6 \/ n = 5 \/ n = 4 \/ n = 3 \/ n = 2 \/ n = 1
      BY <2>1
    <3> QED
      BY <2>1, <3>1
  <2>3. \/ n = 6 /\ step = "stop"
        \/ n = 5 /\ step = "disable"
        \/ n = 4 /\ step = "undefine"
        \/ n = 3 /\ step = "unguard"
        \/ n = 2 /\ step = "rmbinary"
        \/ n = 1 /\ step = "rmconfig"
    BY <2>2, StepsLemma DEF s
  <2> QED
    BY <1>5, <2>3 DEF n, Where, Creates, Rank
<1> QED
  BY <1>1, <1>2, <1>3, <1>4, <1>5 DEF Operations

\* The script goes on, or has come to its end.
Advanced ==
  IF Left = 1 THEN op' = None /\ todo' = <<>>
  ELSE /\ UNCHANGED <<op, given, old>>
       /\ Left \in 2 .. Total(op) /\ Left' = Left - 1 /\ todo' = Place(op, Left - 1)

LEMMA ProceedLemma ==
  ASSUME Script, NEW step, Due(step), Proceed
  PROVE  Advanced /\ UNCHANGED <<firewall, manager>>
<1> DEFINE n == Left
           s == Steps(op)
           N == Len(s)
<1>1. op \in Operations /\ n \in 1 .. N /\ todo = SubSeq(s, N - n + 1, N)
  BY DueLemma DEF Place, Total
<1>2. s \in Seq(StepNames) /\ N \in Nat
  BY <1>1, TotalLemma DEF Total
<1>3. todo' = Tail(todo)
  BY DEF Proceed
<1> HIDE DEF s, n
<1>4. Tail(todo) = SubSeq(s, N - (n - 1) + 1, N)
  BY <1>1, <1>2
<1>5. Len(SubSeq(s, N - (n - 1) + 1, N)) = n - 1
  BY <1>1, <1>2
<1>6. n = 1 => SubSeq(s, N - (n - 1) + 1, N) = <<>>
  BY <1>1, <1>2
<1>7. Left = n /\ Left' = n - 1
  BY <1>3, <1>4, <1>5 DEF n, Left
<1> QED
  BY <1>1, <1>3, <1>4, <1>6, <1>7 DEF Advanced, Proceed, Place, Total, n, s, Left, fixed

LEMMA MaxLemma == \A a, b \in Nat : Max({a, b}) = IF a >= b THEN a ELSE b
<1> SUFFICES ASSUME NEW a \in Nat, NEW b \in Nat PROVE Max({a, b}) = IF a >= b THEN a ELSE b
  OBVIOUS
<1> DEFINE m == IF a >= b THEN a ELSE b
<1>1. m \in {a, b} /\ \A n \in {a, b} : m >= n
  OBVIOUS
<1>2. Max({a, b}) \in {a, b} /\ \A n \in {a, b} : Max({a, b}) >= n
  BY <1>1 DEF Max
<1> QED
  BY <1>2

LEMMA MarkLemma ==
  ASSUME past \in Nat, NEW event \in 0 .. 3, Mark(event)
  PROVE  past' \in Nat /\ past' >= past /\ past' >= event
<1>1. CASE event = Cut /\ past >= Cut
  BY <1>1 DEF Mark, Cut
<1>2. CASE ~(event = Cut /\ past >= Cut)
  <2>1. past' = Max({past, event}) /\ event \in Nat
    BY <1>2 DEF Mark
  <2> QED
    BY <2>1, MaxLemma
<1> QED
  BY <1>1, <1>2

\* The script is gone.
LEMMA ExitLemma ==
  ASSUME Script, Types, Exit
  PROVE  /\ op' = None /\ todo' = <<>> /\ prepared' = 0
         /\ UNCHANGED <<firewall, manager, skipped>>
         /\ past' \in Nat /\ past' >= past
         /\ past' < Over => op = None \/ Left = Total(op)
<1>1. /\ op' = None /\ todo' = <<>> /\ prepared' = 0
      /\ UNCHANGED <<firewall, manager, skipped>>
  BY DEF Exit, Leave, fixed
<1>2. Interrupted \in {Cut, Clean}
  BY DEF Interrupted
<1>3. past' \in Nat /\ past' >= past /\ past' >= Interrupted
  BY <1>2, MarkLemma DEF Exit, Types, Cut, Clean
<1>4. past' < Over => op = None \/ Left = Total(op)
  <2>1. Interrupted = Cut \/ todo = <<>> \/ todo = Steps(op)
    BY DEF Interrupted
  <2>2. past' < Over => Interrupted # Cut
    BY <1>2, <1>3 DEF Over, Cut
  <2>3. todo = <<>> => op = None
    <3>1. ASSUME todo = <<>> PROVE ~(Left \in 1 .. Total(op))
      BY <3>1 DEF Left
    <3> QED
      BY <3>1 DEF Script
  <2> QED
    BY <2>1, <2>2, <2>3 DEF Left, Total
<1> QED
  BY <1>1, <1>3, <1>4

------------------------------------------------------------------------------
(* The invariant.                                                          *)
\* A binary will do for a file, as far as the script can tell.
Suits(b, file) == b \in {2, 3} /\ (file # None /\ GrepsDns(file) => b = 3)

\* What a definition needs is there.
Serves == config # None /\ (~skipped => Suits(binary, config))
Fit ==
  /\ service \in {Torn, ByFile} => Serves
  /\ service \in Settings /\ ~skipped => binary \in Versions

\* What an operation has done so far, and what it relies on.
Creating ==
  Creates =>
    /\ Rank <= 8 => Serves
    /\ Rank <= 7 => service \in {Torn, ByFile}
    /\ Rank <= 6 => service = ByFile

Installing ==
  op = "install" =>
    /\ given \in Settings
    /\ Left = 10 => Suits(prepared, config)
    /\ Left = 9 /\ ~skipped => binary \in {2, 3}
    /\ Left <= 8 => config \in Files /\ Loaded[config] = given

Modifying ==
  op = "modify" =>
    /\ given \in Readings /\ service # None
    /\ Left = 11 => /\ binary \in {2, 3}
                    /\ given.dns_servers # DefaultDns /\ ~skipped => binary = 3
    /\ Left <= 10 => Serves /\ config \in Files /\ Loaded[config] = given

Upgrading ==
  op = "upgrade" =>
    /\ given = old
    /\ Left >= 9 => given = Current /\ Readable
    /\ Left \in {8, 9} => Suits(prepared, config)
    /\ Left <= 8 => config \in Files /\ Loaded[config] = given

Uninstalling == op = "uninstall" => (Left <= 3 <=> service = None)

Course == Creating /\ Installing /\ Modifying /\ Upgrading /\ Uninstalling

\* What the definition lacks, while every operation gets to its end.
Owed ==
  past < Over =>
    /\ op = None \/ Left = Total(op) => lacks = {} /\ service # Torn
    /\ Creates => /\ Rank >= 8 => lacks = {}
                  /\ "program" \in lacks => Rank >= 6
                  /\ "config" \in lacks => Rank >= 5
                  /\ "exec" \in lacks => Rank >= 4
                  /\ "enable" \in lacks => Rank >= 3
    /\ op = "uninstall" /\ Left <= 3 => lacks = {}

\* The rules, while every operation gets to its end.
RulesOf == IF service = None THEN {} ELSE Wanted(Current)

Ruled ==
  past = Clean =>
    /\ op = None => rules = RulesOf
    /\ op = "install" => rules = IF Left >= 2 THEN {} ELSE Wanted(given)
    /\ op = "modify" => /\ Left = 11 => old = Current
                        /\ rules = IF Left >= 9 THEN Wanted(old)
                                   ELSE IF Left >= 2 THEN {} ELSE Wanted(given)
    /\ op = "upgrade" => rules = Wanted(given)
    /\ op = "uninstall" => /\ Left = 6 => old = Current
                           /\ rules = IF Left >= 3 THEN Wanted(old) ELSE {}

\* The process, while every operation gets to its end.
Processed ==
  past < Over =>
    /\ ~skipped
    /\ op = None /\ ~restart => running = Launched
    /\ op = "install" => running = None /\ (Left >= 8 => service = None)
    /\ op \in Operations \ {"install"} /\ Left = Total(op) => running = Launched
    /\ op = "uninstall" /\ Left <= 5 => running = None

Inv == Types /\ Script /\ Fit /\ Course /\ Owed /\ Ruled /\ Processed

\* A step that is not the last of its operation, or is.
LEMMA ForthLemma ==
  ASSUME Script, NEW step, Due(step), Proceed
  PROVE  /\ op \in Operations /\ op # None /\ ~restart
         /\ Left \in 1 .. Total(op) /\ Total(op) \in Nat /\ Left \in Nat
         /\ UNCHANGED <<firewall, manager>>
         /\ Left = 1 => op' = None
         /\ Left # 1 => /\ op' = op /\ given' = given /\ old' = old /\ Left' = Left - 1
                        /\ Left - 1 \in 1 .. Total(op) - 1
                        /\ (Rank' = Rank - 1) /\ (Creates' <=> Creates)
         /\ restart' = restart => Script'
<1>1. op \in Operations /\ ~restart /\ Left \in 1 .. Total(op)
  BY DueLemma
<1>2. Total(op) \in Nat /\ op # None
  BY <1>1, TotalLemma, NamesLemma
<1>3. Advanced /\ UNCHANGED <<firewall, manager>>
  BY ProceedLemma
<1>4. Left # 1 => Rank' = Rank - 1 /\ (Creates' <=> Creates)
  BY <1>1, <1>2, <1>3 DEF Advanced, Rank, Creates
<1>5. Total(op)' = Total(op')
  BY DEF Total, Steps
<1>6. restart' = restart => Script'
  <2>1. CASE Left = 1
    BY <1>1, <1>3, <2>1 DEF Advanced, Script
  <2>2. CASE Left # 1
    <3>1. op' = op /\ Left' = Left - 1 /\ todo' = Place(op, Left - 1) /\ Left \in 2 .. Total(op)
      BY <1>3, <2>2 DEF Advanced
    <3>2. Left' \in 1 .. Total(op')
      BY <1>2, <3>1
    <3>3. todo' = Place(op', Left')
      BY <3>1
    <3>4. Place(op, Left)' = Place(op', Left')
      BY DEF Place, Total, Steps
    <3> QED
      BY <1>1, <1>5, <3>1, <3>2, <3>3, <3>4 DEF Script
  <2> QED
    BY <2>1, <2>2
<1> QED
  BY <1>1, <1>2, <1>3, <1>4, <1>6 DEF Advanced

LEMMA SameRules ==
  ASSUME UNCHANGED firewall
  PROVE  /\ given' = given => Wanted(given)' = Wanted(given)
         /\ old' = old => Wanted(old)' = Wanted(old)
         /\ Current' = Current /\ service' = service => RulesOf' = RulesOf
BY DEF Wanted, RulesOf

LEMMA PrepareStep ==
  ASSUME Inv, NEW v \in Versions, Prepare(v)
  PROVE  Inv'
<1> USE DEF Inv
<1>1. Due("prepare") /\ Proceed /\ UNCHANGED <<machine, history>> /\ prepared' = v
      /\ Suits(v, config)
  BY DEF Prepare, Suits, Versions
<1>2. Where("install", 11) \/ Where("upgrade", 10)
  BY <1>1, PlaceLemma
<1>3. /\ op' = op /\ op # None /\ given' = given /\ old' = old /\ Left' = Left - 1
      /\ Left - 1 \in 1 .. Total(op) - 1 /\ Total(op) \in Nat
      /\ Rank' = Rank - 1 /\ (Creates' <=> Creates)
      /\ UNCHANGED <<firewall, manager>>
  BY <1>1, <1>2, ForthLemma DEF Where
<1>4. UNCHANGED <<binary, config, service, lacks, running, rules, restart, past, skipped>>
  BY <1>1 DEF machine, history
<1>5. Current' = Current /\ Launched' = Launched
  BY <1>3, <1>4, SameService
<1>6. Types'
  BY <1>1, <1>3, <1>4 DEF Types, Versions
<1>7. Script'
  BY <1>1, <1>4, ForthLemma
<1>8. Fit'
  BY <1>4 DEF Fit, Serves, Suits, Versions
<1>9. Course'
  BY <1>1, <1>2, <1>3, <1>4, <1>5 DEF Where, Course, Creating, Installing, Modifying, Upgrading,
     Uninstalling, Serves, Suits, Rank, Creates, Readable
<1>10. Owed'
  BY <1>2, <1>3, <1>4 DEF Where, Owed, Rank, Creates
<1>11. Ruled'
  BY <1>2, <1>3, <1>4, <1>5, SameRules, NamesLemma DEF Where, Ruled
<1>12. Processed'
  BY <1>2, <1>3, <1>4, <1>5, NamesLemma DEF Where, Processed
<1> QED
  BY <1>6, <1>7, <1>8, <1>9, <1>10, <1>11, <1>12

\* An operation that has done nothing yet.
LEMMA RestLemma ==
  ASSUME Inv, op = None \/ Left = Total(op), past < Over
  PROVE  /\ lacks = {} /\ service # Torn /\ ~skipped
         /\ past = Clean => rules = RulesOf
         /\ ~restart => running = Launched
<1> USE DEF Inv
<1>1. lacks = {} /\ service # Torn /\ ~skipped
  BY DEF Owed, Processed
<1>2. \/ op = None \/ Where("install", 11) \/ Where("modify", 11)
      \/ Where("upgrade", 10) \/ Where("uninstall", 6)
  <2>1. op = None \/ op \in {"install", "modify", "upgrade", "uninstall"}
    BY DEF Script, Operations
  <2>2. /\ Total("install") = 11 /\ Total("modify") = 11
        /\ Total("upgrade") = 10 /\ Total("uninstall") = 6
    BY StepsLemma, Zenon
  <2>3. op # None => Left = Total(op)
    OBVIOUS
  <2> QED
    BY <2>1, <2>2, <2>3, Zenon DEF Where
<1>3. service = None => RulesOf = {} /\ Launched = None
  BY DEF RulesOf, Launched, Whole
<1>4. past = Clean => rules = RulesOf
  <2>1. CASE op = None
    BY <2>1 DEF Ruled
  <2>2. CASE Where("install", 11)
    BY <1>3, <2>2 DEF Where, Ruled, Processed
  <2>3. CASE Where("modify", 11)
    BY <2>3 DEF Where, Ruled, RulesOf, Course, Modifying
  <2>4. CASE Where("upgrade", 10)
    BY <2>4 DEF Where, Ruled, RulesOf, Course, Upgrading, Readable
  <2>5. CASE Where("uninstall", 6)
    BY <2>5 DEF Where, Ruled, RulesOf, Course, Uninstalling
  <2> QED
    BY <1>2, <2>1, <2>2, <2>3, <2>4, <2>5
<1>5. ~restart => running = Launched
  <2>1. CASE op = None
    BY <2>1 DEF Processed
  <2>2. CASE Where("install", 11)
    BY <1>3, <2>2 DEF Where, Processed
  <2>3. CASE op \in Operations \ {"install"} /\ Left = Total(op)
    BY <2>3 DEF Processed
  <2> QED
    BY <1>2, <2>1, <2>2, <2>3, NamesLemma DEF Where, Operations
<1> QED
  BY <1>1, <1>4, <1>5

\* The script exits or is cut off.
LEMMA ExitStep ==
  ASSUME Inv, Exit, UNCHANGED machine
  PROVE  Inv'
<1> USE DEF Inv
<1>1. /\ op' = None /\ todo' = <<>> /\ prepared' = 0
      /\ UNCHANGED <<firewall, manager, skipped>>
      /\ past' \in Nat /\ past' >= past
      /\ past' < Over => op = None \/ Left = Total(op)
  BY ExitLemma
<1>2. UNCHANGED <<binary, config, service, lacks, running, rules, restart>>
  BY DEF machine
<1>3. Current' = Current /\ Launched' = Launched
  BY <1>1, <1>2, SameService
<1>4. past \in Nat /\ Over = 2 /\ Clean = 0
  BY DEF Types, Over, Clean
<1>5. Types'
  BY <1>1, <1>2 DEF Types
<1>6. Script'
  BY <1>1, <1>2 DEF Script
<1>7. Fit'
  BY <1>1, <1>2 DEF Fit, Serves, Suits, Versions
<1>8. Course'
  BY <1>1, NamesLemma DEF Course, Creating, Installing, Modifying, Upgrading, Uninstalling,
     Creates, Operations
<1>9. Owed'
  BY <1>1, <1>2, <1>4, RestLemma, NamesLemma DEF Owed, Creates, Operations
<1>10. Ruled'
  <2>1. past' = Clean => rules' = RulesOf'
    BY <1>1, <1>2, <1>3, <1>4, RestLemma, SameRules
  <2> QED
    BY <1>1, <2>1, NamesLemma DEF Ruled, Operations
<1>11. Processed'
  BY <1>1, <1>2, <1>3, <1>4, RestLemma, NamesLemma DEF Processed, Operations
<1> QED
  BY <1>5, <1>6, <1>7, <1>8, <1>9, <1>10, <1>11

LEMMA RebootStep ==
  ASSUME Inv, Reboot
  PROVE  Inv'
<1> USE DEF Inv
<1> DEFINE lost == IF rules' = rules THEN Clean ELSE Edited
           event == Max({Interrupted, lost})
<1>1. /\ op' = None /\ todo' = <<>> /\ prepared' = 0
      /\ UNCHANGED <<firewall, manager, skipped, binary, config, service, lacks>>
      /\ ~restart' /\ restart' = FALSE
      /\ running' = IF "enable" \in lacks THEN None ELSE Launched
      /\ Mark(event)
  BY DEF Reboot, Leave, fixed
<1>2. /\ past' \in Nat /\ past' >= past
      /\ past' < Over => op = None \/ Left = Total(op)
      /\ past' = Clean => rules' = rules
  <2>1. Interrupted \in {Cut, Clean} /\ lost \in {Clean, Edited}
    BY DEF Interrupted
  <2> HIDE DEF lost
  <2>2. Interrupted \in 0 .. 3 /\ lost \in 0 .. 3
    BY <2>1 DEF Cut, Clean, Edited
  <2>3. event \in 0 .. 3 /\ event >= Interrupted /\ event >= lost
    BY <2>2, MaxLemma
  <2> HIDE DEF event
  <2>4. past' \in Nat /\ past' >= past /\ past' >= event
    BY <1>1, <2>3, MarkLemma DEF Types
  <2>5. past' < Over => op = None \/ Left = Total(op)
    <3>1. past' < Over => Interrupted # Cut
      BY <2>2, <2>3, <2>4 DEF Over, Cut
    <3>2. Interrupted # Cut => todo = <<>> \/ todo = Steps(op)
      BY DEF Interrupted
    <3>3. todo = <<>> => op = None
      <4>1. ASSUME todo = <<>> PROVE ~(Left \in 1 .. Total(op))
        BY <4>1 DEF Left
      <4> QED
        BY <4>1 DEF Script
    <3> QED
      BY <3>1, <3>2, <3>3 DEF Left, Total
  <2>6. past' = Clean => lost = Clean
    BY <2>1, <2>2, <2>3, <2>4 DEF Clean, Edited
  <2> QED
    BY <2>4, <2>5, <2>6 DEF lost, Clean, Edited
<1>3. Current' = Current /\ Launched' = Launched
  BY <1>1, SameService
<1>4. past \in Nat /\ Over = 2 /\ Clean = 0
  BY DEF Types, Over, Clean
<1>5. Types'
  <2>1. restart' \in BOOLEAN
    BY <1>1
  <2>2. prepared' \in 0 .. 3
    BY <1>1
  <2> QED
    BY <1>1, <1>2, <2>1, <2>2, Zenon DEF Types
<1>6. Script'
  BY <1>1 DEF Script
<1>7. Fit'
  BY <1>1 DEF Fit, Serves, Suits, Versions
<1>8. Course'
  BY <1>1, NamesLemma DEF Course, Creating, Installing, Modifying, Upgrading, Uninstalling,
     Creates, Operations
<1>9. Owed'
  BY <1>1, <1>2, <1>4, RestLemma, NamesLemma DEF Owed, Creates, Operations
<1>10. Ruled'
  <2>1. past' = Clean => rules' = RulesOf'
    BY <1>1, <1>2, <1>3, <1>4, RestLemma, SameRules
  <2> QED
    BY <1>1, <2>1, NamesLemma DEF Ruled, Operations
<1>11. Processed'
  BY <1>1, <1>2, <1>3, <1>4, RestLemma, NamesLemma DEF Processed, Operations
<1> QED
  BY <1>5, <1>6, <1>7, <1>8, <1>9, <1>10, <1>11

LEMMA StageStep ==
  ASSUME Inv, Stage
  PROVE  Inv'
<1> USE DEF Inv
<1>1. Due("stage") /\ Proceed
  BY DEF Stage
<1>2. Where("install", 10) \/ Where("upgrade", 8)
  BY <1>1, PlaceLemma
<1>3. /\ op' = op /\ op # None /\ given' = given /\ old' = old /\ Left' = Left - 1
      /\ Left - 1 \in 1 .. Total(op) - 1 /\ Total(op) \in Nat
      /\ Rank' = Rank - 1 /\ (Creates' <=> Creates)
      /\ UNCHANGED <<firewall, manager>>
  BY <1>1, <1>2, ForthLemma DEF Where
<1>4. UNCHANGED <<config, service, lacks, running, rules, restart, past>>
  BY DEF Stage
<1>5. binary' = prepared /\ prepared' = 0 /\ skipped' = FALSE
  BY DEF Stage
<1>6. Suits(prepared, config)
  BY <1>2 DEF Where, Course, Installing, Upgrading
<1>7. Types'
  <2>1. binary' \in 0 .. 3 /\ prepared' \in 0 .. 3
    BY <1>5 DEF Types
  <2>2. skipped' \in BOOLEAN
    BY <1>5
  <2> QED
    BY <1>3, <1>4, <2>1, <2>2, Zenon DEF Types
<1>8. Script'
  BY <1>1, <1>4, ForthLemma
<1>9. Fit'
  BY <1>4, <1>5, <1>6 DEF Fit, Serves, Suits, Versions
<1>10. Course'
  <2>1. binary' = prepared /\ Suits(prepared, config)
    BY <1>5, <1>6
  <2>2. Rank <= 9 => Serves'
    <3>1. Rank <= 9 => config # None
      BY <1>2, NamesLemma DEF Where, Rank, Course, Upgrading
    <3> QED
      BY <1>4, <2>1, <3>1 DEF Serves
  <2> QED
    BY <1>2, <1>3, <1>4, <2>1, <2>2 DEF Where, Course, Creating, Installing, Modifying, Upgrading,
       Uninstalling, Suits, Rank, Creates
<1>11. Owed'
  BY <1>2, <1>3, <1>4 DEF Where, Owed, Rank, Creates
<1>12. Ruled'
  BY <1>2, <1>3, <1>4, SameRules, NamesLemma DEF Where, Ruled
<1>13. Processed'
  BY <1>2, <1>3, <1>4, <1>5, NamesLemma DEF Where, Processed
<1> QED
  BY <1>7, <1>8, <1>9, <1>10, <1>11, <1>12, <1>13

LEMMA StageSkippedStep ==
  ASSUME Inv, StageSkipped
  PROVE  Inv'
<1> USE DEF Inv
<1>1. Due("stage") /\ Proceed /\ op = "install"
  BY DEF StageSkipped
<1>2. Where("install", 10)
  BY <1>1, PlaceLemma DEF Where
<1>3. /\ op' = op /\ op # None /\ given' = given /\ old' = old /\ Left' = Left - 1
      /\ Left - 1 \in 1 .. Total(op) - 1 /\ Total(op) \in Nat
      /\ Rank' = Rank - 1 /\ (Creates' <=> Creates)
      /\ UNCHANGED <<firewall, manager>>
  BY <1>1, <1>2, ForthLemma DEF Where
<1>4. UNCHANGED <<binary, config, service, lacks, running, rules, restart>>
  BY DEF StageSkipped, machine
<1>5. prepared' = 0 /\ skipped' = TRUE /\ past' \in Nat /\ past' >= Cut
  <2>1. Cut \in 0 .. 3
    BY DEF Cut
  <2>2. past' \in Nat /\ past' >= Cut
    BY <2>1, MarkLemma DEF StageSkipped, Types
  <2> QED
    BY <2>2 DEF StageSkipped
<1>6. ~(past' < Over) /\ past' # Clean
  BY <1>5 DEF Cut, Over, Clean
<1>7. Types'
  <2>1. skipped' \in BOOLEAN /\ past' \in Nat
    BY <1>5
  <2>2. prepared' \in 0 .. 3
    BY <1>5
  <2> QED
    BY <1>3, <1>4, <2>1, <2>2, Zenon DEF Types
<1>8. Script'
  BY <1>1, <1>4, ForthLemma
<1>9. Fit'
  BY <1>4, <1>5 DEF Fit, Serves, Suits, Versions
<1>10. Course'
  BY <1>2, <1>3, <1>4, <1>5 DEF Where, Course, Creating, Installing, Modifying, Upgrading,
     Uninstalling, Serves, Suits, Rank, Creates
<1>11. Owed' /\ Ruled' /\ Processed'
  BY <1>6 DEF Owed, Ruled, Processed
<1> QED
  BY <1>7, <1>8, <1>9, <1>10, <1>11

LEMMA WriteStep ==
  ASSUME Inv, Write
  PROVE  Inv'
<1> USE DEF Inv
<1> DEFINE file == write_config_file(given)
           Kept == op = "upgrade" /\ service = ByFile
<1>1. Due("write") /\ Proceed
  BY DEF Write
<1>2. Where("install", 9) \/ Where("upgrade", 9) \/ Where("modify", 11)
  BY <1>1, PlaceLemma
<1>3. /\ op' = op /\ op # None /\ given' = given /\ old' = old /\ Left' = Left - 1
      /\ Left - 1 \in 1 .. Total(op) - 1 /\ Total(op) \in Nat
      /\ Rank' = Rank - 1 /\ (Creates' <=> Creates)
      /\ UNCHANGED <<firewall, manager>>
  BY <1>1, <1>2, ForthLemma DEF Where
<1>4. UNCHANGED <<binary, service, lacks, running, rules, restart, prepared, past, skipped>>
  BY DEF Write, history
<1>5. IF Kept THEN config' = config ELSE Writable(given) /\ config' = file
  BY DEF Write
<1>6. op = "upgrade" => given = Current /\ Readable /\ given \in Readings
  BY <1>2, CurrentLemma DEF Where, Course, Upgrading, Readable
<1>7. given \in Readings
  BY <1>2, <1>6, KindsLemma DEF Where, Course, Installing, Modifying
<1>8. ASSUME Kept
      PROVE  config' = config /\ config \in Files /\ Loaded[config] = given
  BY <1>5, <1>6, <1>8, CurrentLemma DEF Types, Readable
<1>9. ASSUME ~Kept
      PROVE  /\ config' = file /\ file \in Files /\ Loaded[file] = given
             /\ given.dns_servers = DefaultDns => ~GrepsDns(file)
  <2>1. config' = file /\ Writable(given)
    BY <1>5, <1>9
  <2> QED
    BY <1>7, <2>1, WrittenLemma
<1>10. config' \in Files /\ Loaded[config'] = given
  BY <1>8, <1>9
<1>11. ASSUME ~Kept, op = "install" \/ op = "upgrade"
       PROVE  given.dns_servers = DefaultDns
  <2>1. CASE op = "install"
    BY <2>1, KindsLemma DEF Course, Installing
  <2>2. CASE op = "upgrade"
    BY <1>6, <1>11, <2>2, CurrentLemma DEF Readable
  <2> QED
    BY <1>11, <2>1, <2>2
<1>12. ASSUME op = "upgrade" \/ op = "install", NEW b, Suits(b, config) \/ (b \in {2, 3} /\ ~Kept)
       PROVE  Suits(b, config')
  <2>1. CASE Kept
    BY <1>8, <1>12, <2>1
  <2>2. CASE ~Kept
    BY <1>9, <1>11, <1>12, <2>2 DEF Suits
  <2> QED
    BY <2>1, <2>2
<1>13. config' # None
  BY <1>10, NamesLemma
<1>14. op # "upgrade" \/ service \in {Torn, ByFile} =>
         (~skipped => Suits(binary, config'))
  <2>1. CASE Where("install", 9)
    <3>1. ~skipped => binary \in {2, 3}
      BY <2>1 DEF Where, Course, Installing
    <3>2. ~Kept /\ op = "install"
      BY <2>1 DEF Where
    <3> QED
      BY <1>12, <3>1, <3>2
  <2>2. CASE Where("upgrade", 9) /\ service \in {Torn, ByFile}
    <3>1. ~skipped => Suits(binary, config)
      BY <2>2 DEF Fit, Serves
    <3> QED
      BY <1>12, <2>2, <3>1 DEF Where
  <2>3. CASE Where("modify", 11)
    <3>1. /\ binary \in {2, 3}
          /\ given.dns_servers # DefaultDns /\ ~skipped => binary = 3
      BY <2>3 DEF Where, Course, Modifying
    <3>2. ~Kept
      BY <2>3 DEF Where
    <3> QED
      BY <1>9, <3>1, <3>2 DEF Suits
  <2> QED
    BY <1>2, <2>1, <2>2, <2>3 DEF Where
<1>15. Where("upgrade", 9) => Suits(prepared, config')
  <2>1. Where("upgrade", 9) => Suits(prepared, config)
    BY DEF Where, Course, Upgrading
  <2> QED
    BY <1>12, <2>1 DEF Where
<1> HIDE DEF file, Kept
<1>16. Types'
  BY <1>3, <1>4, <1>10 DEF Types
<1>17. Script'
  BY <1>1, <1>4, ForthLemma
<1>18. Fit'
  <2>1. service' \in {Torn, ByFile} => Serves'
    <3>1. service' \in {Torn, ByFile} /\ ~skipped' => Suits(binary', config')
      BY <1>4, <1>14
    <3> QED
      BY <1>13, <3>1 DEF Serves
  <2> QED
    BY <1>4, <2>1 DEF Fit
<1>19. Course'
  <2>1. op # "upgrade" => Serves'
    BY <1>4, <1>13, <1>14 DEF Serves
  <2>2. op = "upgrade" => Suits(prepared', config')
    BY <1>2, <1>4, <1>15 DEF Where
  <2> QED
    BY <1>2, <1>3, <1>4, <1>10, <2>1, <2>2 DEF Where, Course, Creating, Installing, Modifying,
       Upgrading, Uninstalling, Rank, Creates
<1>20. Owed'
  BY <1>2, <1>3, <1>4 DEF Where, Owed, Rank, Creates
<1>21. Ruled'
  BY <1>2, <1>3, <1>4, SameRules, NamesLemma DEF Where, Ruled
<1>22. Processed'
  BY <1>2, <1>3, <1>4, NamesLemma DEF Where, Processed
<1> QED
  BY <1>16, <1>17, <1>18, <1>19, <1>20, <1>21, <1>22

LEMMA StopStep ==
  ASSUME Inv, Stop
  PROVE  Inv'
<1> USE DEF Inv
<1>1. Due("stop") /\ Proceed
  BY DEF Stop
<1>2. Where("modify", 10) \/ Where("uninstall", 6)
  BY <1>1, PlaceLemma
<1>3. /\ op' = op /\ op # None /\ given' = given /\ old' = old /\ Left' = Left - 1
      /\ Left - 1 \in 1 .. Total(op) - 1 /\ Total(op) \in Nat
      /\ Rank' = Rank - 1 /\ (Creates' <=> Creates)
      /\ UNCHANGED <<firewall, manager>>
  BY <1>1, <1>2, ForthLemma DEF Where
<1>4. UNCHANGED <<binary, config, service, lacks, rules, restart, prepared, past, skipped>>
  BY DEF Stop, history
<1>5. Types'
  BY <1>3, <1>4 DEF Types
<1>6. Script'
  BY <1>1, <1>4, ForthLemma
<1>7. Fit'
  BY <1>4 DEF Fit, Serves, Suits, Versions
<1>8. Course'
  BY <1>2, <1>3, <1>4 DEF Where, Course, Creating, Installing, Modifying, Upgrading,
     Uninstalling, Serves, Suits, Rank, Creates
<1>9. Owed'
  BY <1>2, <1>3, <1>4 DEF Where, Owed, Rank, Creates
<1>10. Ruled'
  BY <1>2, <1>3, <1>4, SameRules, NamesLemma DEF Where, Ruled
<1>11. Processed'
  <2>1. op = "uninstall" /\ past < Over => Controls
    <3> SUFFICES ASSUME op = "uninstall", past < Over PROVE Controls
      OBVIOUS
    <3>1. Left = Total(op)
      BY <1>2, StepsLemma DEF Where
    <3>2. lacks = {} /\ service # Torn
      BY <3>1, RestLemma
    <3>3. service # None
      BY <1>2 DEF Where, Course, Uninstalling
    <3> QED
      BY <3>2, <3>3 DEF Controls
  <2>2. Controls => running' = None
    BY DEF Stop
  <2> QED
    BY <1>2, <1>3, <1>4, <2>1, <2>2, NamesLemma DEF Where, Processed
<1> QED
  BY <1>5, <1>6, <1>7, <1>8, <1>9, <1>10, <1>11

LEMMA UnguardStep ==
  ASSUME Inv, Unguard
  PROVE  Inv'
<1> USE DEF Inv
<1>1. Due("unguard") /\ Proceed
  BY DEF Unguard
<1>2. Where("modify", 9) \/ Where("uninstall", 3)
  BY <1>1, PlaceLemma
<1>3. /\ op' = op /\ op # None /\ given' = given /\ old' = old /\ Left' = Left - 1
      /\ Left - 1 \in 1 .. Total(op) - 1 /\ Total(op) \in Nat
      /\ Rank' = Rank - 1 /\ (Creates' <=> Creates)
      /\ UNCHANGED <<firewall, manager>>
  BY <1>1, <1>2, ForthLemma DEF Where
<1>4. UNCHANGED <<binary, config, service, lacks, running, restart, prepared, past, skipped>>
  BY DEF Unguard, history
<1>5. Types'
  BY <1>3, <1>4 DEF Types
<1>6. Script'
  BY <1>1, <1>4, ForthLemma
<1>7. Fit'
  BY <1>4 DEF Fit, Serves, Suits, Versions
<1>8. Course'
  BY <1>2, <1>3, <1>4 DEF Where, Course, Creating, Installing, Modifying, Upgrading,
     Uninstalling, Serves, Suits, Rank, Creates
<1>9. Owed'
  BY <1>2, <1>3, <1>4 DEF Where, Owed, Rank, Creates
<1>10. Ruled'
  <2>1. rules = Wanted(old) => rules' = {}
    <3> SUFFICES ASSUME rules = Wanted(old) PROVE rules' = {}
      OBVIOUS
    <3>1. CASE old.whitelist = <<>>
      <4>1. rules = {}
        BY <3>1 DEF Wanted
      <4> QED
        BY <4>1 DEF Unguard, Removed
    <3>2. CASE old.whitelist # <<>>
      <4>1. rules \subseteq {old.port}
        BY <3>2 DEF Wanted
      <4>2. rules' = Removed(old.port)
        BY <3>2 DEF Unguard
      <4> QED
        BY <4>1, <4>2 DEF Removed
    <3> QED
      BY <3>1, <3>2
  <2>2. past = Clean => rules = Wanted(old)
    BY <1>2 DEF Where, Ruled
  <2> QED
    BY <1>2, <1>3, <1>4, <2>1, <2>2, NamesLemma DEF Where, Ruled
<1>11. Processed'
  BY <1>2, <1>3, <1>4, NamesLemma DEF Where, Processed
<1> QED
  BY <1>5, <1>6, <1>7, <1>8, <1>9, <1>10, <1>11

LEMMA OpenStep ==
  ASSUME Inv, Open
  PROVE  Inv'
<1> USE DEF Inv
<1>1. Due("open") /\ Proceed
  BY DEF Open
<1>2. Creates /\ Rank = 8
  BY <1>1, PlaceLemma
<1>3. /\ op' = op /\ op # None /\ given' = given /\ old' = old /\ Left' = Left - 1
      /\ Left - 1 \in 1 .. Total(op) - 1 /\ Total(op) \in Nat /\ Left \in Nat
      /\ Rank' = Rank - 1 /\ (Creates' <=> Creates)
      /\ UNCHANGED <<firewall, manager>>
  BY <1>1, <1>2, ForthLemma DEF Where, Creates, Rank
<1>4. UNCHANGED <<binary, config, running, rules, restart, prepared, past, skipped>>
  BY DEF Open, history
<1>5. service' = Torn /\ lacks' = IF service = None THEN Marks ELSE lacks
  BY DEF Open
<1>6. Serves
  BY <1>2 DEF Course, Creating
<1>7. Types'
  <2>1. lacks' \subseteq {"program", "config", "exec", "enable"}
    BY <1>5, MarksLemma DEF Types
  <2> QED
    BY <1>3, <1>4, <1>5, <2>1 DEF Types
<1>8. Script'
  BY <1>1, <1>4, ForthLemma
<1>9. Fit'
  BY <1>4, <1>5, <1>6, NamesLemma, KindsLemma DEF Fit, Serves, Suits
<1>10. Course'
  <2>1. Creating'
    BY <1>2, <1>3, <1>4, <1>5, <1>6, NamesLemma DEF Creating, Rank, Creates, Serves, Suits
  <2>2. Installing'
    BY <1>2, <1>3, <1>4, <1>5, <1>6, NamesLemma DEF Course, Installing, Rank, Creates, Serves, Suits
  <2>3. Modifying'
    BY <1>2, <1>3, <1>4, <1>5, <1>6, NamesLemma DEF Course, Modifying, Rank, Creates, Serves, Suits
  <2>4. Upgrading'
    BY <1>2, <1>3, <1>4, <1>5, <1>6, NamesLemma DEF Course, Upgrading, Rank, Creates, Serves, Suits
  <2>5. Uninstalling'
    BY <1>2, <1>3 DEF Uninstalling, Creates
  <2> QED
    BY <2>1, <2>2, <2>3, <2>4, <2>5 DEF Course
<1>11. Owed'
  <2>1. past < Over => lacks' \subseteq {"exec", "enable"}
    BY <1>2, <1>5, MarksLemma DEF Owed
  <2> QED
    BY <1>2, <1>3, <1>4, <2>1 DEF Owed, Rank, Creates
<1>12. Ruled'
  BY <1>2, <1>3, <1>4, SameRules DEF Ruled, Creates, Rank
<1>13. Processed'
  BY <1>2, <1>3, <1>4 DEF Processed, Creates, Rank
<1> QED
  BY <1>7, <1>8, <1>9, <1>10, <1>11, <1>12, <1>13

LEMMA DefineStep ==
  ASSUME Inv, Define
  PROVE  Inv'
<1> USE DEF Inv
<1>1. Due("tee") /\ Proceed
  BY DEF Define
<1>2. Creates /\ Rank = 7
  BY <1>1, PlaceLemma
<1>3. /\ op' = op /\ op # None /\ given' = given /\ old' = old /\ Left' = Left - 1
      /\ Left - 1 \in 1 .. Total(op) - 1 /\ Total(op) \in Nat /\ Left \in Nat
      /\ Rank' = Rank - 1 /\ (Creates' <=> Creates)
      /\ UNCHANGED <<firewall, manager>>
  BY <1>1, <1>2, ForthLemma DEF Where, Creates, Rank
<1>4. UNCHANGED <<binary, config, running, rules, restart, prepared, past, skipped>>
  BY DEF Define, history
<1>5. service' = ByFile /\ lacks' = lacks \cup Placeholders
  BY DEF Define
<1>6. Serves
  BY <1>2 DEF Course, Creating
<1>7. Types'
  <2>1. lacks' \subseteq {"program", "config", "exec", "enable"}
    BY <1>5, MarksLemma DEF Types
  <2> QED
    BY <1>3, <1>4, <1>5, <2>1 DEF Types
<1>8. Script'
  BY <1>1, <1>4, ForthLemma
<1>9. Fit'
  BY <1>4, <1>5, <1>6, NamesLemma, KindsLemma DEF Fit, Serves, Suits
<1>10. Course'
  <2>1. Creating'
    BY <1>2, <1>3, <1>4, <1>5, <1>6, NamesLemma DEF Creating, Rank, Creates, Serves, Suits
  <2>2. Installing'
    BY <1>2, <1>3, <1>4, <1>5, <1>6, NamesLemma DEF Course, Installing, Rank, Creates, Serves, Suits
  <2>3. Modifying'
    BY <1>2, <1>3, <1>4, <1>5, <1>6, NamesLemma DEF Course, Modifying, Rank, Creates, Serves, Suits
  <2>4. Upgrading'
    BY <1>2, <1>3, <1>4, <1>5, <1>6, NamesLemma DEF Course, Upgrading, Rank, Creates, Serves, Suits
  <2>5. Uninstalling'
    BY <1>2, <1>3 DEF Uninstalling, Creates
  <2> QED
    BY <2>1, <2>2, <2>3, <2>4, <2>5 DEF Course
<1>11. Owed'
  BY <1>2, <1>3, <1>4 DEF Owed, Rank, Creates
<1>12. Ruled'
  BY <1>2, <1>3, <1>4, SameRules DEF Ruled, Creates, Rank
<1>13. Processed'
  BY <1>2, <1>3, <1>4 DEF Processed, Creates, Rank
<1> QED
  BY <1>7, <1>8, <1>9, <1>10, <1>11, <1>12, <1>13

LEMMA FinishStep ==
  ASSUME Inv, NEW step \in {"program", "config", "exec", "enable"}, Finish(step)
  PROVE  Inv'
<1> USE DEF Inv
<1>1. Due(step) /\ Proceed
  BY DEF Finish
<1>2. \/ step = "program" /\ Creates /\ Rank = 6
      \/ step = "config" /\ Creates /\ Rank = 5
      \/ step = "exec" /\ Creates /\ Rank = 4
      \/ step = "enable" /\ Creates /\ Rank = 3
  BY <1>1, PlaceLemma
<1>3. /\ op' = op /\ op # None /\ given' = given /\ old' = old /\ Left' = Left - 1
      /\ Left - 1 \in 1 .. Total(op) - 1 /\ Total(op) \in Nat /\ Left \in Nat
      /\ Rank' = Rank - 1 /\ (Creates' <=> Creates)
      /\ UNCHANGED <<firewall, manager>>
  BY <1>1, <1>2, ForthLemma DEF Where, Creates, Rank
<1>4. UNCHANGED <<binary, config, service, running, rules, restart, prepared, past, skipped>>
  BY DEF Finish, history
<1>5. lacks' = lacks \ {step}
  BY DEF Finish
<1>6. Serves /\ service = ByFile
  BY <1>2 DEF Course, Creating
<1>7. Types'
  BY <1>3, <1>4, <1>5 DEF Types
<1>8. Script'
  BY <1>1, <1>4, ForthLemma
<1>9. Fit'
  BY <1>4, <1>6, NamesLemma, KindsLemma DEF Fit, Serves, Suits
<1>10. Course'
  <2>1. Creating'
    BY <1>2, <1>3, <1>4, <1>6, NamesLemma DEF Creating, Rank, Creates, Serves, Suits
  <2>2. Installing'
    BY <1>2, <1>3, <1>4, <1>6, NamesLemma DEF Course, Installing, Rank, Creates, Serves, Suits
  <2>3. Modifying'
    BY <1>2, <1>3, <1>4, <1>6, NamesLemma DEF Course, Modifying, Rank, Creates, Serves, Suits
  <2>4. Upgrading'
    BY <1>2, <1>3, <1>4, <1>6, NamesLemma DEF Course, Upgrading, Rank, Creates, Serves, Suits
  <2>5. Uninstalling'
    BY <1>2, <1>3 DEF Uninstalling, Creates
  <2> QED
    BY <2>1, <2>2, <2>3, <2>4, <2>5 DEF Course
<1>11. Owed'
  <2>1. CASE step = "program"
    BY <1>2, <1>3, <1>4, <1>5, <2>1 DEF Owed, Rank, Creates
  <2>2. CASE step = "config"
    BY <1>2, <1>3, <1>4, <1>5, <2>2 DEF Owed, Rank, Creates
  <2>3. CASE step = "exec"
    BY <1>2, <1>3, <1>4, <1>5, <2>3 DEF Owed, Rank, Creates
  <2>4. CASE step = "enable"
    BY <1>2, <1>3, <1>4, <1>5, <2>4 DEF Owed, Rank, Creates
  <2> QED
    BY <2>1, <2>2, <2>3, <2>4
<1>12. Ruled'
  BY <1>2, <1>3, <1>4, SameRules DEF Ruled, Creates, Rank
<1>13. Processed'
  BY <1>2, <1>3, <1>4 DEF Processed, Creates, Rank
<1> QED
  BY <1>7, <1>8, <1>9, <1>10, <1>11, <1>12, <1>13

LEMMA FinishFailsStep ==
  ASSUME Inv, NEW step \in {"program", "config", "exec", "enable"}, FinishFails(step)
  PROVE  Inv'
<1> USE DEF Inv
<1>1. Due(step) /\ Proceed
  BY DEF FinishFails
<1>2. \/ step = "program" /\ Creates /\ Rank = 6
      \/ step = "config" /\ Creates /\ Rank = 5
      \/ step = "exec" /\ Creates /\ Rank = 4
      \/ step = "enable" /\ Creates /\ Rank = 3
  BY <1>1, PlaceLemma
<1>3. /\ op' = op /\ op # None /\ given' = given /\ old' = old /\ Left' = Left - 1
      /\ Left - 1 \in 1 .. Total(op) - 1 /\ Total(op) \in Nat /\ Left \in Nat
      /\ Rank' = Rank - 1 /\ (Creates' <=> Creates)
      /\ UNCHANGED <<firewall, manager>>
  BY <1>1, <1>2, ForthLemma DEF Where, Creates, Rank
<1>4. UNCHANGED <<binary, config, service, lacks, running, rules, restart, prepared, skipped>>
  BY DEF FinishFails, machine
<1>5. past' \in Nat /\ ~(past' < Over) /\ past' # Clean
  <2>1. Cut \in 0 .. 3 /\ Cut = 3 /\ Over = 2 /\ Clean = 0
    BY DEF Cut, Over, Clean
  <2>2. past' \in Nat /\ past' >= Cut
    BY <2>1, MarkLemma DEF FinishFails, Types
  <2> QED
    BY <2>1, <2>2
<1>6. Types'
  BY <1>3, <1>4, <1>5 DEF Types
<1>7. Script'
  BY <1>1, <1>4, ForthLemma
<1>8. Fit'
  BY <1>4 DEF Fit, Serves, Suits, Versions
<1>9. Course'
  <2>1. Creating'
    BY <1>2, <1>3, <1>4, NamesLemma DEF Course, Creating, Rank, Creates, Serves, Suits
  <2>2. Installing'
    BY <1>2, <1>3, <1>4, NamesLemma DEF Course, Installing, Rank, Creates, Serves, Suits
  <2>3. Modifying'
    BY <1>2, <1>3, <1>4, NamesLemma DEF Course, Modifying, Rank, Creates, Serves, Suits
  <2>4. Upgrading'
    BY <1>2, <1>3, <1>4, NamesLemma DEF Course, Upgrading, Rank, Creates, Serves, Suits
  <2>5. Uninstalling'
    BY <1>2, <1>3 DEF Uninstalling, Creates
  <2> QED
    BY <2>1, <2>2, <2>3, <2>4, <2>5 DEF Course
<1>10. Owed' /\ Ruled' /\ Processed'
  BY <1>5 DEF Owed, Ruled, Processed
<1> QED
  BY <1>6, <1>7, <1>8, <1>9, <1>10

LEMMA GuardStep ==
  ASSUME Inv, Guard
  PROVE  Inv'
<1> USE DEF Inv
<1>1. Due("guard") /\ Proceed
  BY DEF Guard
<1>2. Where("install", 2) \/ Where("modify", 2)
  BY <1>1, PlaceLemma
<1>3. /\ op' = op /\ op # None /\ given' = given /\ old' = old /\ Left' = Left - 1
      /\ Left - 1 \in 1 .. Total(op) - 1 /\ Total(op) \in Nat /\ Left \in Nat
      /\ Rank' = Rank - 1 /\ (Creates' <=> Creates)
      /\ UNCHANGED <<firewall, manager>>
  BY <1>1, <1>2, ForthLemma DEF Where
<1>4. UNCHANGED <<binary, config, service, lacks, running, restart, prepared, past, skipped>>
  BY DEF Guard, history
<1>5. Types'
  BY <1>3, <1>4 DEF Types
<1>6. Script'
  BY <1>1, <1>4, ForthLemma
<1>7. Fit'
  BY <1>4 DEF Fit, Serves, Suits, Versions
<1>8. Course'
  BY <1>2, <1>3, <1>4 DEF Where, Course, Creating, Installing, Modifying, Upgrading,
     Uninstalling, Serves, Suits, Rank, Creates
<1>9. Owed'
  BY <1>2, <1>3, <1>4 DEF Where, Owed, Rank, Creates
<1>10. Ruled'
  <2>1. rules = {} => rules' = Wanted(given)
    BY DEF Guard, Added, Removed, Wanted
  <2>2. past = Clean => rules = {}
    BY <1>2 DEF Where, Ruled
  <2> QED
    BY <1>2, <1>3, <1>4, <2>1, <2>2, SameRules DEF Where, Ruled
<1>11. Processed'
  BY <1>2, <1>3, <1>4 DEF Where, Processed
<1> QED
  BY <1>5, <1>6, <1>7, <1>8, <1>9, <1>10, <1>11

LEMMA GuardFailsStep ==
  ASSUME Inv, GuardFails
  PROVE  Inv'
<1> USE DEF Inv
<1>1. Due("guard") /\ Proceed
  BY DEF GuardFails
<1>2. Where("install", 2) \/ Where("modify", 2)
  BY <1>1, PlaceLemma
<1>3. /\ op' = op /\ op # None /\ given' = given /\ old' = old /\ Left' = Left - 1
      /\ Left - 1 \in 1 .. Total(op) - 1 /\ Total(op) \in Nat /\ Left \in Nat
      /\ Rank' = Rank - 1 /\ (Creates' <=> Creates)
      /\ UNCHANGED <<firewall, manager>>
  BY <1>1, <1>2, ForthLemma DEF Where
<1>4. UNCHANGED <<binary, config, service, lacks, running, rules, restart, prepared, skipped>>
  BY DEF GuardFails, machine
<1>5. past' \in Nat /\ ~(past' < Over) /\ past' # Clean
  <2>1. Cut \in 0 .. 3 /\ Cut = 3 /\ Over = 2 /\ Clean = 0
    BY DEF Cut, Over, Clean
  <2>2. past' \in Nat /\ past' >= Cut
    BY <2>1, MarkLemma DEF GuardFails, Types
  <2> QED
    BY <2>1, <2>2
<1>6. Types'
  BY <1>3, <1>4, <1>5 DEF Types
<1>7. Script'
  BY <1>1, <1>4, ForthLemma
<1>8. Fit'
  BY <1>4 DEF Fit, Serves, Suits, Versions
<1>9. Course'
  BY <1>2, <1>3, <1>4 DEF Where, Course, Creating, Installing, Modifying, Upgrading,
     Uninstalling, Serves, Suits, Rank, Creates
<1>10. Owed' /\ Ruled' /\ Processed'
  BY <1>5 DEF Owed, Ruled, Processed
<1> QED
  BY <1>6, <1>7, <1>8, <1>9, <1>10

LEMMA StartStep ==
  ASSUME Inv, Start
  PROVE  Inv'
<1> USE DEF Inv
<1>1. Due("start") /\ Proceed
  BY DEF Start
<1>2. Where("install", 1)
  BY <1>1, PlaceLemma
<1>3. op' = None /\ Total(op) \in Nat /\ UNCHANGED <<firewall, manager>>
  BY <1>1, <1>2, ForthLemma DEF Where
<1>4. UNCHANGED <<binary, config, service, lacks, rules, restart, prepared, past, skipped>>
  BY DEF Start, history
<1>5. Current' = Current /\ Launched' = Launched
  BY <1>3, <1>4, SameService
<1>6. service = ByFile /\ config \in Files /\ Loaded[config] = given
  BY <1>2 DEF Where, Rank, Creates, Course, Creating, Installing, Modifying
<1>7. past < Over => lacks = {}
  BY <1>2 DEF Where, Owed, Rank, Creates, Types
<1>8. past < Over => Current = given
  BY <1>6, <1>7, CurrentLemma, NamesLemma
<1>9. past < Over => running' = Launched
  BY <1>2 DEF Where, Processed, Start
<1>10. past = Clean => past < Over
  BY DEF Clean, Over
<1>11. Types'
  BY <1>3, <1>4 DEF Types
<1>12. Script'
  BY <1>1, <1>4, ForthLemma
<1>13. Fit'
  BY <1>4 DEF Fit, Serves, Suits, Versions
<1>14. Course'
  BY <1>3, NamesLemma DEF Course, Creating, Installing, Modifying, Upgrading, Uninstalling,
     Creates, Operations
<1>15. Owed'
  BY <1>3, <1>4, <1>6, <1>7, NamesLemma DEF Owed, Creates, Operations
<1>16. Ruled'
  <2>1. past = Clean => rules = Wanted(given) /\ RulesOf = Wanted(given)
    BY <1>2, <1>6, <1>8, <1>10, NamesLemma DEF Where, Ruled, RulesOf
  <2> QED
    BY <1>3, <1>4, <1>5, <2>1, SameRules, NamesLemma DEF Ruled, Operations
<1>17. Processed'
  BY <1>3, <1>4, <1>5, <1>9, NamesLemma DEF Processed, Operations
<1> QED
  BY <1>11, <1>12, <1>13, <1>14, <1>15, <1>16, <1>17

LEMMA RestartStep ==
  ASSUME Inv, Restart
  PROVE  Inv'
<1> USE DEF Inv
<1>1. Due("restart") /\ Proceed
  BY DEF Restart
<1>2. Where("modify", 1)
  BY <1>1, PlaceLemma
<1>3. op' = None /\ Total(op) \in Nat /\ UNCHANGED <<firewall, manager>>
  BY <1>1, <1>2, ForthLemma DEF Where
<1>4. UNCHANGED <<binary, config, service, lacks, rules, restart, prepared, past, skipped>>
  BY DEF Restart, history
<1>5. Current' = Current /\ Launched' = Launched
  BY <1>3, <1>4, SameService
<1>6. service = ByFile /\ config \in Files /\ Loaded[config] = given
  BY <1>2 DEF Where, Rank, Creates, Course, Creating, Installing, Modifying
<1>7. past < Over => lacks = {}
  BY <1>2 DEF Where, Owed, Rank, Creates, Types
<1>8. past < Over => Current = given
  BY <1>6, <1>7, CurrentLemma, NamesLemma
<1>9. past < Over => running' = Launched
  BY <1>2 DEF Where, Processed, Restart
<1>10. past = Clean => past < Over
  BY DEF Clean, Over
<1>11. Types'
  BY <1>3, <1>4 DEF Types
<1>12. Script'
  BY <1>1, <1>4, ForthLemma
<1>13. Fit'
  BY <1>4 DEF Fit, Serves, Suits, Versions
<1>14. Course'
  BY <1>3, NamesLemma DEF Course, Creating, Installing, Modifying, Upgrading, Uninstalling,
     Creates, Operations
<1>15. Owed'
  BY <1>3, <1>4, <1>6, <1>7, NamesLemma DEF Owed, Creates, Operations
<1>16. Ruled'
  <2>1. past = Clean => rules = Wanted(given) /\ RulesOf = Wanted(given)
    BY <1>2, <1>6, <1>8, <1>10, NamesLemma DEF Where, Ruled, RulesOf
  <2> QED
    BY <1>3, <1>4, <1>5, <2>1, SameRules, NamesLemma DEF Ruled, Operations
<1>17. Processed'
  BY <1>3, <1>4, <1>5, <1>9, NamesLemma DEF Processed, Operations
<1> QED
  BY <1>11, <1>12, <1>13, <1>14, <1>15, <1>16, <1>17

LEMMA ScheduleStep ==
  ASSUME Inv, Schedule
  PROVE  Inv'
<1> USE DEF Inv
<1>1. Due("schedule") /\ Proceed
  BY DEF Schedule
<1>2. Where("upgrade", 1)
  BY <1>1, PlaceLemma
<1>3. op' = None /\ Total(op) \in Nat /\ UNCHANGED <<firewall, manager>>
  BY <1>1, <1>2, ForthLemma DEF Where
<1>4. /\ UNCHANGED <<binary, config, service, lacks, running, rules, prepared, past, skipped>>
      /\ restart' = TRUE
  BY DEF Schedule, history
<1>5. Current' = Current /\ Launched' = Launched
  BY <1>3, <1>4, SameService
<1>6. service = ByFile /\ config \in Files /\ Loaded[config] = given
  BY <1>2 DEF Where, Rank, Creates, Course, Creating, Upgrading
<1>7. past < Over => lacks = {}
  BY <1>2 DEF Where, Owed, Rank, Creates, Types
<1>8. past < Over => Current = given
  BY <1>6, <1>7, CurrentLemma, NamesLemma
<1>9. past = Clean => past < Over
  BY DEF Clean, Over
<1>10. Types'
  BY <1>3, <1>4 DEF Types
<1>11. Script'
  <2>1. todo' = <<>>
    BY <1>1, <1>2, ProceedLemma DEF Where, Advanced
  <2> QED
    BY <1>3, <1>4, <1>6, <2>1 DEF Script
<1>12. Fit'
  BY <1>4 DEF Fit, Serves, Suits, Versions
<1>13. Course'
  BY <1>3, NamesLemma DEF Course, Creating, Installing, Modifying, Upgrading, Uninstalling,
     Creates, Operations
<1>14. Owed'
  BY <1>3, <1>4, <1>6, <1>7, NamesLemma DEF Owed, Creates, Operations
<1>15. Ruled'
  <2>1. past = Clean => rules = Wanted(given) /\ RulesOf = Wanted(given)
    BY <1>2, <1>6, <1>8, <1>9, NamesLemma DEF Where, Ruled, RulesOf
  <2> QED
    BY <1>3, <1>4, <1>5, <2>1, SameRules, NamesLemma DEF Ruled, Operations
<1>16. Processed'
  <2>1. past < Over => ~skipped
    BY DEF Processed
  <2> QED
    BY <1>3, <1>4, <2>1, NamesLemma DEF Processed, Operations
<1> QED
  BY <1>10, <1>11, <1>12, <1>13, <1>14, <1>15, <1>16

LEMMA ScheduledRestartStep ==
  ASSUME Inv, ScheduledRestart
  PROVE  Inv'
<1> USE DEF Inv
<1>1. op = None /\ service = ByFile /\ todo = <<>>
  BY DEF ScheduledRestart, Script
<1>2. /\ UNCHANGED <<firewall, manager, binary, config, service, lacks, rules, op, todo,
                     prepared, past, skipped>>
      /\ ~restart' /\ restart' \in BOOLEAN
  BY DEF ScheduledRestart, fixed, script, history
<1>3. Current' = Current /\ Launched' = Launched
  BY <1>2, SameService
<1>4. past < Over => running' = Launched
  <2>1. past < Over => Controls
    BY <1>1, RestLemma, NamesLemma DEF Controls
  <2> QED
    BY <2>1 DEF ScheduledRestart
<1>5. Types'
  BY <1>2, Zenon DEF Types
<1>6. Script'
  BY <1>1, <1>2 DEF Script
<1>7. Fit'
  BY <1>2 DEF Fit, Serves, Suits, Versions
<1>8. Course'
  BY <1>1, <1>2, NamesLemma DEF Course, Creating, Installing, Modifying, Upgrading, Uninstalling,
     Creates, Operations
<1>9. Owed'
  BY <1>1, <1>2, NamesLemma DEF Owed, Creates, Operations
<1>10. Ruled'
  BY <1>1, <1>2, <1>3, SameRules, NamesLemma DEF Ruled, Operations
<1>11. Processed'
  BY <1>1, <1>2, <1>3, <1>4, NamesLemma DEF Processed, Operations
<1> QED
  BY <1>5, <1>6, <1>7, <1>8, <1>9, <1>10, <1>11

LEMMA DisableStep ==
  ASSUME Inv, Disable
  PROVE  Inv'
<1> USE DEF Inv
<1>1. Due("disable") /\ Proceed
  BY DEF Disable
<1>2. Where("uninstall", 5)
  BY <1>1, PlaceLemma
<1>3. /\ op' = op /\ op # None /\ given' = given /\ old' = old /\ Left' = Left - 1
      /\ Left - 1 \in 1 .. Total(op) - 1 /\ Total(op) \in Nat /\ Left \in Nat
      /\ Rank' = Rank - 1 /\ (Creates' <=> Creates)
      /\ UNCHANGED <<firewall, manager>>
  BY <1>1, <1>2, ForthLemma DEF Where
<1>4. /\ UNCHANGED <<binary, config, service, running, rules, restart, prepared, past, skipped>>
      /\ lacks' = lacks \cup {"enable"}
  BY DEF Disable, history
<1>5. Types'
  BY <1>3, <1>4 DEF Types
<1>6. Script'
  BY <1>1, <1>4, ForthLemma
<1>7. Fit'
  BY <1>4 DEF Fit, Serves, Suits, Versions
<1>8. Course'
  BY <1>2, <1>3, <1>4 DEF Where, Course, Creating, Installing, Modifying, Upgrading,
     Uninstalling, Serves, Suits, Rank, Creates
<1>9. Owed'
  BY <1>2, <1>3, <1>4 DEF Where, Owed, Rank, Creates
<1>10. Ruled'
  BY <1>2, <1>3, <1>4, SameRules DEF Where, Ruled
<1>11. Processed'
  BY <1>2, <1>3, <1>4 DEF Where, Processed
<1> QED
  BY <1>5, <1>6, <1>7, <1>8, <1>9, <1>10, <1>11

LEMMA UndefineStep ==
  ASSUME Inv, Undefine
  PROVE  Inv'
<1> USE DEF Inv
<1>1. Due("undefine") /\ Proceed
  BY DEF Undefine
<1>2. Where("uninstall", 4)
  BY <1>1, PlaceLemma
<1>3. /\ op' = op /\ op # None /\ given' = given /\ old' = old /\ Left' = Left - 1
      /\ Left - 1 \in 1 .. Total(op) - 1 /\ Total(op) \in Nat /\ Left \in Nat
      /\ Rank' = Rank - 1 /\ (Creates' <=> Creates)
      /\ UNCHANGED <<firewall, manager>>
  BY <1>1, <1>2, ForthLemma DEF Where
<1>4. /\ UNCHANGED <<binary, config, running, rules, restart, prepared, past, skipped>>
      /\ service' = None /\ lacks' = {}
  BY DEF Undefine, history
<1>5. Types'
  BY <1>3, <1>4 DEF Types
<1>6. Script'
  BY <1>1, <1>4, ForthLemma
<1>7. Fit'
  BY <1>4, NamesLemma, KindsLemma DEF Fit
<1>8. Course'
  BY <1>2, <1>3, <1>4 DEF Where, Course, Creating, Installing, Modifying, Upgrading,
     Uninstalling, Serves, Suits, Rank, Creates
<1>9. Owed'
  BY <1>2, <1>3, <1>4, NamesLemma DEF Where, Owed, Rank, Creates
<1>10. Ruled'
  BY <1>2, <1>3, <1>4, SameRules DEF Where, Ruled
<1>11. Processed'
  BY <1>2, <1>3, <1>4 DEF Where, Processed
<1> QED
  BY <1>5, <1>6, <1>7, <1>8, <1>9, <1>10, <1>11

LEMMA RemoveBinaryStep ==
  ASSUME Inv, RemoveBinary
  PROVE  Inv'
<1> USE DEF Inv
<1>1. Due("rmbinary") /\ Proceed
  BY DEF RemoveBinary
<1>2. Where("uninstall", 2)
  BY <1>1, PlaceLemma
<1>3. /\ op' = op /\ op # None /\ given' = given /\ old' = old /\ Left' = Left - 1
      /\ Left - 1 \in 1 .. Total(op) - 1 /\ Total(op) \in Nat /\ Left \in Nat
      /\ Rank' = Rank - 1 /\ (Creates' <=> Creates)
      /\ UNCHANGED <<firewall, manager>>
  BY <1>1, <1>2, ForthLemma DEF Where
<1>4. /\ UNCHANGED <<config, service, lacks, running, rules, restart, prepared, past, skipped>>
      /\ binary' = 0
  BY DEF RemoveBinary, history
<1>5. service = None
  BY <1>2 DEF Where, Course, Uninstalling
<1>6. Types'
  BY <1>3, <1>4 DEF Types
<1>7. Script'
  BY <1>1, <1>4, ForthLemma
<1>8. Fit'
  BY <1>4, <1>5, NamesLemma, KindsLemma DEF Fit
<1>9. Course'
  BY <1>2, <1>3, <1>4 DEF Where, Course, Creating, Installing, Modifying, Upgrading,
     Uninstalling, Serves, Suits, Rank, Creates
<1>10. Owed'
  BY <1>2, <1>3, <1>4 DEF Where, Owed, Rank, Creates
<1>11. Ruled'
  BY <1>2, <1>3, <1>4, SameRules DEF Where, Ruled
<1>12. Processed'
  BY <1>2, <1>3, <1>4 DEF Where, Processed
<1> QED
  BY <1>6, <1>7, <1>8, <1>9, <1>10, <1>11, <1>12

LEMMA RemoveConfigStep ==
  ASSUME Inv, RemoveConfig
  PROVE  Inv'
<1> USE DEF Inv
<1>1. Due("rmconfig") /\ Proceed
  BY DEF RemoveConfig
<1>2. Where("uninstall", 1)
  BY <1>1, PlaceLemma
<1>3. op' = None /\ Total(op) \in Nat /\ UNCHANGED <<firewall, manager>>
  BY <1>1, <1>2, ForthLemma DEF Where
<1>4. /\ UNCHANGED <<binary, service, lacks, running, rules, restart, prepared, past, skipped>>
      /\ config' = None
  BY DEF RemoveConfig, history
<1>5. service = None
  BY <1>2 DEF Where, Course, Uninstalling
<1>6. RulesOf' = {} /\ Launched' = None
  BY <1>4, <1>5 DEF RulesOf, Launched, Whole
<1>7. Types'
  BY <1>3, <1>4 DEF Types
<1>8. Script'
  BY <1>1, <1>4, ForthLemma
<1>9. Fit'
  BY <1>4, <1>5, NamesLemma, KindsLemma DEF Fit
<1>10. Course'
  BY <1>3, NamesLemma DEF Course, Creating, Installing, Modifying, Upgrading, Uninstalling,
     Creates, Operations
<1>11. Owed'
  BY <1>2, <1>3, <1>4, <1>5, NamesLemma DEF Where, Owed, Creates, Operations
<1>12. Ruled'
  BY <1>2, <1>3, <1>4, <1>6, NamesLemma DEF Where, Ruled, Operations
<1>13. Processed'
  BY <1>2, <1>3, <1>4, <1>6, NamesLemma DEF Where, Processed, Operations
<1> QED
  BY <1>7, <1>8, <1>9, <1>10, <1>11, <1>12, <1>13

\* An operation begins.
LEMMA BeginLemma ==
  ASSUME Inv, Idle, NEW o \in Operations, NEW s, Begin(o, s)
  PROVE  /\ op = None /\ ~restart /\ op' = o /\ given' = s
         /\ Left' = Total(o) /\ Total(o) \in Nat
         /\ UNCHANGED <<firewall, manager, binary, config, service, lacks, running, rules, restart,
                        prepared, skipped>>
         /\ Current' = Current /\ Script' /\ Fit'
<1> USE DEF Inv
<1>1. op = None
  <2>1. todo = <<>>
    BY DEF Idle
  <2>2. ~(Left \in 1 .. Total(op))
    BY <2>1 DEF Left
  <2> QED
    BY <2>2 DEF Script
<1>2. /\ op' = o /\ given' = s /\ todo' = Steps(o)
      /\ UNCHANGED <<firewall, manager, binary, config, service, lacks, running, rules, restart,
                     prepared, skipped>>
  BY DEF Begin, fixed, machine
<1>3. Steps(o) \in Seq(StepNames) /\ Total(o) \in 6 .. 11
  BY StepsLemma, Zenon
<1>4. Left' = Total(o)
  BY <1>2 DEF Left, Total
<1>5. Place(o, Total(o)) = Steps(o)
  <2> DEFINE t == Steps(o)
             n == Len(t)
  <2>1. t \in Seq(StepNames)
    BY <1>3
  <2>2. n - n + 1 = 1
    BY <1>3 DEF Total
  <2> HIDE DEF t
  <2>3. SubSeq(t, 1, n) = t
    BY <2>1
  <2> QED
    BY <2>2, <2>3 DEF Place, Total, t
<1>6. ~restart
  BY DEF Idle
<1>7. Script'
  <2>1. Left' \in 1 .. Total(op')
    BY <1>2, <1>3, <1>4
  <2>2. todo' = Place(op', Left')
    BY <1>2, <1>4, <1>5
  <2>3. Total(op)' = Total(op') /\ Place(op, Left)' = Place(op', Left')
    BY DEF Place, Total, Steps
  <2>4. op' \in Operations /\ ~restart'
    BY <1>2, <1>6
  <2> QED
    BY <2>1, <2>2, <2>3, <2>4 DEF Script
<1>8. Fit'
  BY <1>2 DEF Fit, Serves, Suits, Versions
<1>9. Current' = Current
  BY <1>2, SameService
<1> QED
  BY <1>1, <1>2, <1>3, <1>4, <1>6, <1>7, <1>8, <1>9

LEMMA BeginInstallStep ==
  ASSUME Inv, NEW s \in Settings, BeginInstall(s)
  PROVE  Inv'
<1> USE DEF Inv
<1>1. Idle /\ Begin("install", s)
  BY DEF BeginInstall
<1>2. /\ op = None /\ ~restart /\ op' = "install" /\ given' = s /\ Left' = 11
      /\ Total("install") = 11
      /\ UNCHANGED <<firewall, manager, binary, config, service, lacks, running, rules, restart,
                     prepared, skipped>>
      /\ Current' = Current /\ Script' /\ Fit'
  BY <1>1, BeginLemma, StepsLemma DEF Operations
<1>3. past' \in Nat /\ past' >= past /\ (past' < Over => service = None)
  <2> DEFINE event == IF service # None THEN Over ELSE Clean
  <2>1. event \in 0 .. 3 /\ (event < Over => service = None)
    BY DEF Over, Clean
  <2>2. Mark(event)
    BY DEF BeginInstall
  <2> HIDE DEF event
  <2>3. past' \in Nat /\ past' >= past /\ past' >= event
    BY <2>1, <2>2, MarkLemma DEF Types
  <2> QED
    BY <2>1, <2>3 DEF Over
<1>4. past \in Nat /\ Over = 2 /\ Clean = 0
  BY DEF Types, Over, Clean
<1>5. /\ past < Over => lacks = {} /\ service # Torn /\ ~skipped /\ running = Launched
      /\ past = Clean => rules = RulesOf
  BY <1>2, <1>4, RestLemma
<1>6. service = None => RulesOf = {} /\ Launched = None
  BY DEF RulesOf, Launched, Whole
<1>7. Types'
  BY <1>2, <1>3 DEF Types
<1>8. Course'
  BY <1>2 DEF Course, Creating, Installing, Modifying, Upgrading, Uninstalling, Creates, Rank
<1>9. Owed'
  BY <1>2, <1>3, <1>4, <1>5 DEF Owed, Creates, Rank
<1>10. Ruled'
  BY <1>2, <1>3, <1>4, <1>5, <1>6, NamesLemma DEF Ruled, Operations
<1>11. Processed'
  BY <1>2, <1>3, <1>4, <1>5, <1>6, NamesLemma DEF Processed, Operations
<1> QED
  BY <1>2, <1>7, <1>8, <1>9, <1>10, <1>11

LEMMA BeginModifyStep ==
  ASSUME Inv, NEW s \in Readings, BeginModify(s)
  PROVE  Inv'
<1> USE DEF Inv
<1>1. Idle /\ Begin("modify", s) /\ Readable /\ old' = Current /\ past' = past
  BY DEF BeginModify
<1>2. /\ op = None /\ ~restart /\ op' = "modify" /\ given' = s /\ Left' = 11
      /\ Total("modify") = 11
      /\ UNCHANGED <<firewall, manager, binary, config, service, lacks, running, rules, restart,
                     prepared, skipped>>
      /\ Current' = Current /\ Script' /\ Fit'
  BY <1>1, BeginLemma, StepsLemma DEF Operations
<1>3. past \in Nat /\ Over = 2 /\ Clean = 0
  BY DEF Types, Over, Clean
<1>4. /\ past < Over => lacks = {} /\ service # Torn /\ ~skipped /\ running = Launched
      /\ past = Clean => rules = RulesOf
  BY <1>2, <1>3, RestLemma
<1>5. /\ service # None /\ Current # None /\ RulesOf = Wanted(Current)
      /\ Launched' = Launched
  BY <1>1, <1>2, SameService DEF Readable, RulesOf
<1>6. /\ binary \in {2, 3}
      /\ s.dns_servers # DefaultDns /\ ~skipped => binary = 3
  <2>1. binary \in {2, 3}
    BY DEF BeginModify, Types
  <2>2. ASSUME s.dns_servers # DefaultDns, ~skipped PROVE binary = 3
    <3>1. Current.dns_servers # DefaultDns
      BY <2>2 DEF BeginModify
    <3>2. service = ByFile /\ GrepsDns(config)
      BY <1>5, <3>1, CurrentLemma
    <3> QED
      BY <2>2, <3>2 DEF Fit, Serves, Suits
  <2> QED
    BY <2>1, <2>2
<1>7. Types'
  BY <1>1, <1>2 DEF Types
<1>8. Course'
  BY <1>1, <1>2, <1>5, <1>6 DEF Course, Creating, Installing, Modifying, Upgrading, Uninstalling,
     Creates, Rank, Readable
<1>9. Owed'
  BY <1>1, <1>2, <1>3, <1>4 DEF Owed, Creates, Rank
<1>10. Ruled'
  <2>1. Wanted(old)' = Wanted(Current) /\ (given' = Current => Wanted(given)' = Wanted(Current))
    BY <1>1, <1>2 DEF Wanted
  <2> QED
    BY <1>1, <1>2, <1>3, <1>4, <1>5, <2>1, NamesLemma DEF Ruled, Operations
<1>11. Processed'
  BY <1>1, <1>2, <1>3, <1>4, <1>5, NamesLemma DEF Processed, Operations
<1> QED
  BY <1>2, <1>7, <1>8, <1>9, <1>10, <1>11

LEMMA BeginUpgradeStep ==
  ASSUME Inv, BeginUpgrade
  PROVE  Inv'
<1> USE DEF Inv
<1>1. Idle /\ Begin("upgrade", Current) /\ Readable /\ old' = Current /\ past' = past
  BY DEF BeginUpgrade
<1>2. /\ op = None /\ ~restart /\ op' = "upgrade" /\ given' = Current /\ Left' = 10
      /\ Total("upgrade") = 10
      /\ UNCHANGED <<firewall, manager, binary, config, service, lacks, running, rules, restart,
                     prepared, skipped>>
      /\ Current' = Current /\ Script' /\ Fit'
  BY <1>1, BeginLemma, StepsLemma DEF Operations
<1>3. past \in Nat /\ Over = 2 /\ Clean = 0
  BY DEF Types, Over, Clean
<1>4. /\ past < Over => lacks = {} /\ service # Torn /\ ~skipped /\ running = Launched
      /\ past = Clean => rules = RulesOf
  BY <1>2, <1>3, RestLemma
<1>5. /\ service # None /\ Current # None /\ RulesOf = Wanted(Current)
      /\ Launched' = Launched
  BY <1>1, <1>2, SameService DEF Readable, RulesOf
<1>7. Types'
  BY <1>1, <1>2 DEF Types
<1>8. Course'
  BY <1>1, <1>2, <1>5 DEF Course, Creating, Installing, Modifying, Upgrading, Uninstalling,
     Creates, Rank, Readable
<1>9. Owed'
  BY <1>1, <1>2, <1>3, <1>4 DEF Owed, Creates, Rank
<1>10. Ruled'
  <2>1. Wanted(old)' = Wanted(Current) /\ (given' = Current => Wanted(given)' = Wanted(Current))
    BY <1>1, <1>2 DEF Wanted
  <2> QED
    BY <1>1, <1>2, <1>3, <1>4, <1>5, <2>1, NamesLemma DEF Ruled, Operations
<1>11. Processed'
  BY <1>1, <1>2, <1>3, <1>4, <1>5, NamesLemma DEF Processed, Operations
<1> QED
  BY <1>2, <1>7, <1>8, <1>9, <1>10, <1>11

LEMMA BeginUninstallStep ==
  ASSUME Inv, BeginUninstall
  PROVE  Inv'
<1> USE DEF Inv
<1>1. Idle /\ Begin("uninstall", Current) /\ Readable /\ old' = Current /\ past' = past
  BY DEF BeginUninstall
<1>2. /\ op = None /\ ~restart /\ op' = "uninstall" /\ given' = Current /\ Left' = 6
      /\ Total("uninstall") = 6
      /\ UNCHANGED <<firewall, manager, binary, config, service, lacks, running, rules, restart,
                     prepared, skipped>>
      /\ Current' = Current /\ Script' /\ Fit'
  BY <1>1, BeginLemma, StepsLemma DEF Operations
<1>3. past \in Nat /\ Over = 2 /\ Clean = 0
  BY DEF Types, Over, Clean
<1>4. /\ past < Over => lacks = {} /\ service # Torn /\ ~skipped /\ running = Launched
      /\ past = Clean => rules = RulesOf
  BY <1>2, <1>3, RestLemma
<1>5. /\ service # None /\ Current # None /\ RulesOf = Wanted(Current)
      /\ Launched' = Launched
  BY <1>1, <1>2, SameService DEF Readable, RulesOf
<1>7. Types'
  BY <1>1, <1>2 DEF Types
<1>8. Course'
  BY <1>1, <1>2, <1>5 DEF Course, Creating, Installing, Modifying, Upgrading, Uninstalling,
     Creates, Rank, Readable
<1>9. Owed'
  BY <1>1, <1>2, <1>3, <1>4 DEF Owed, Creates, Rank
<1>10. Ruled'
  <2>1. Wanted(old)' = Wanted(Current) /\ (given' = Current => Wanted(given)' = Wanted(Current))
    BY <1>1, <1>2 DEF Wanted
  <2> QED
    BY <1>1, <1>2, <1>3, <1>4, <1>5, <2>1, NamesLemma DEF Ruled, Operations
<1>11. Processed'
  BY <1>1, <1>2, <1>3, <1>4, <1>5, NamesLemma DEF Processed, Operations
<1> QED
  BY <1>2, <1>7, <1>8, <1>9, <1>10, <1>11

\* The administrator edits the file.
LEMMA EditConfigStep ==
  ASSUME Inv, EditConfig
  PROVE  Inv'
<1> USE DEF Inv
<1> DEFINE event == IF Current' # None
                      /\ Current' = [Current EXCEPT !.dns_servers = Current'.dns_servers]
                      THEN Clean ELSE Edited
<1>1. /\ Idle /\ service = ByFile /\ Whole /\ Readable
      /\ UNCHANGED <<firewall, manager, binary, service, lacks, rules, restart, op, todo,
                     prepared, skipped>>
      /\ config \in Written /\ config' \in OneOff(config)
      /\ Equipped' /\ running' = Launched' /\ Mark(event)
  BY DEF EditConfig, fixed, script
<1>2. op = None /\ ~restart
  <2>1. todo = <<>> /\ ~restart
    BY <1>1 DEF Idle
  <2>2. ~(Left \in 1 .. Total(op))
    BY <2>1 DEF Left
  <2> QED
    BY <2>1, <2>2 DEF Script
<1>3. config' \in Files /\ config' # None
  BY <1>1, NamesLemma DEF Files
<1>4. event \in 0 .. 3
  BY DEF Clean, Edited
<1>5. past' \in Nat /\ past' >= past /\ past' >= event
  BY <1>1, <1>4, MarkLemma DEF Types
<1>6. past \in Nat /\ Over = 2 /\ Clean = 0 /\ Edited = 1
  BY DEF Types, Over, Clean, Edited
<1>7. past' = Clean => /\ past = Clean /\ Current' # None
                       /\ Current' = [Current EXCEPT !.dns_servers = Current'.dns_servers]
  BY <1>5, <1>6
<1> HIDE DEF event
<1>8. /\ past < Over => lacks = {} /\ service # Torn /\ ~skipped
      /\ past = Clean => rules = RulesOf
  BY <1>2, <1>6, RestLemma
<1>9. Types'
  BY <1>1, <1>3, <1>5 DEF Types
<1>10. Script'
  BY <1>1 DEF Script, Total, Place, Left, Steps
<1>11. Fit'
  <2>1. binary' \in {2, 3} /\ (SetsDns(config') => binary' = 3)
    BY <1>1, NamesLemma DEF Equipped, Versions
  <2>2. Suits(binary', config')
    BY <2>1, GrepsLemma DEF Suits
  <2> QED
    BY <1>1, <1>3, <2>2, NamesLemma, KindsLemma DEF Fit, Serves
<1>12. Course'
  BY <1>1, <1>2, NamesLemma DEF Course, Creating, Installing, Modifying, Upgrading, Uninstalling,
     Creates, Operations
<1>13. Owed'
  BY <1>1, <1>2, <1>5, <1>6, <1>8, NamesLemma DEF Owed, Creates, Operations
<1>14. Ruled'
  <2>1. past' = Clean => RulesOf' = RulesOf
    <3> SUFFICES ASSUME past' = Clean PROVE RulesOf' = RulesOf
      OBVIOUS
    <3>1. Current \in Readings
      BY <1>1, CurrentLemma DEF Readable
    <3>2. Current'.port = Current.port /\ Current'.whitelist = Current.whitelist
      <4> DEFINE d == Current'.dns_servers
                 t == Current'
      <4>1. t = [Current EXCEPT !.dns_servers = d]
        BY <1>7
      <4> HIDE DEF d, t
      <4>2. t.port = Current.port /\ t.whitelist = Current.whitelist
        BY <3>1, <4>1 DEF Readings
      <4> QED
        BY <4>2 DEF t
    <3>3. Wanted(Current)' = Wanted(Current)
      BY <1>1, <3>2 DEF Wanted
    <3> QED
      BY <1>1, <3>3 DEF RulesOf
  <2> QED
    BY <1>1, <1>2, <1>6, <1>7, <1>8, <2>1, NamesLemma DEF Ruled, Operations
<1>15. Processed'
  BY <1>1, <1>2, <1>5, <1>6, <1>8, NamesLemma DEF Processed, Operations
<1> QED
  BY <1>9, <1>10, <1>11, <1>12, <1>13, <1>14, <1>15

LEMMA InitLemma == Init => Inv
<1> SUFFICES ASSUME Init PROVE Inv
  OBVIOUS
<1>1. /\ firewall \in {"port", "table", "none"} /\ manager \in Managers
      /\ config = None /\ lacks = {} /\ ~restart /\ restart \in BOOLEAN
      /\ op = None /\ todo = <<>> /\ prepared = 0
      /\ past = 0 /\ ~skipped /\ skipped \in BOOLEAN
  BY DEF Init, Clean
<1>2. \/ binary = 0 /\ service = None /\ running = None /\ rules = {}
      \/ /\ binary = 1 /\ service \in Settings
         /\ running = Launched /\ rules = Wanted(service)
  BY DEF Init
<1>3. Types
  <2>1. manager \in {"systemd", "openrc", "sysvinit"}
    BY <1>1, InstallerAssumption
  <2>2. binary \in 0 .. 3 /\ prepared \in 0 .. 3 /\ past \in Nat
    BY <1>1, <1>2
  <2> QED
    BY <1>1, <1>2, <2>1, <2>2, Zenon DEF Types
<1>4. Script
  BY <1>1 DEF Script
<1>5. Fit
  BY <1>2, NamesLemma, KindsLemma DEF Fit, Versions
<1>6. Course
  BY <1>1, NamesLemma DEF Course, Creating, Installing, Modifying, Upgrading, Uninstalling,
     Creates, Operations
<1>7. service # Torn
  BY <1>2, NamesLemma, KindsLemma
<1>8. Owed
  BY <1>1, <1>7, NamesLemma DEF Owed, Creates, Operations
<1>9. rules = RulesOf /\ running = Launched
  <2>1. CASE service = None
    BY <1>2, <2>1, NamesLemma, KindsLemma DEF RulesOf, Launched, Whole
  <2>2. CASE service \in Settings
    BY <1>2, <1>3, <2>2, NamesLemma, KindsLemma, CurrentLemma DEF RulesOf
  <2> QED
    BY <1>2, <2>1, <2>2
<1>10. Ruled
  BY <1>1, <1>9, NamesLemma DEF Ruled, Operations
<1>11. Processed
  BY <1>1, <1>9, NamesLemma DEF Processed, Operations
<1> QED
  BY <1>3, <1>4, <1>5, <1>6, <1>8, <1>10, <1>11 DEF Inv

LEMMA StutterStep ==
  ASSUME Inv, UNCHANGED vars
  PROVE  Inv'
<1> USE DEF Inv
<1>1. UNCHANGED <<firewall, manager, binary, config, service, lacks, running, rules, restart,
                  op, todo, given, old, prepared, past, skipped>>
  BY DEF vars, fixed, machine, script, history
<1>2. Current' = Current /\ Launched' = Launched
  BY <1>1, SameService
<1>3. Types'
  BY <1>1 DEF Types
<1>4. Script'
  BY <1>1 DEF Script, Left, Total, Place, Steps
<1>5. Left' = Left
  BY <1>1 DEF Left
<1>6. Fit'
  BY <1>1 DEF Fit, Serves, Suits, Versions
<1>7. Course'
  BY <1>1, <1>2, <1>5 DEF Course, Creating, Installing, Modifying, Upgrading, Uninstalling,
     Serves, Suits, Rank, Creates, Readable
<1>8. Owed'
  BY <1>1, <1>5 DEF Owed, Rank, Creates
<1>9. Ruled'
  BY <1>1, <1>2, <1>5, SameRules DEF Ruled
<1>10. Processed'
  BY <1>1, <1>2, <1>5 DEF Processed
<1> QED
  BY <1>3, <1>4, <1>6, <1>7, <1>8, <1>9, <1>10

LEMMA InvLemma == Spec => []Inv
<1>1. Inv /\ [Next]_vars => Inv'
  <2> SUFFICES ASSUME Inv, [Next]_vars PROVE Inv'
    OBVIOUS
  <2>1. ASSUME NEW s \in Settings, BeginInstall(s) PROVE Inv'
    BY <2>1, BeginInstallStep
  <2>2. ASSUME NEW s \in Readings, BeginModify(s) PROVE Inv'
    BY <2>2, BeginModifyStep
  <2>3. CASE BeginUpgrade \/ BeginUninstall
    BY <2>3, BeginUpgradeStep, BeginUninstallStep
  <2>4. ASSUME NEW v \in Versions, Prepare(v) PROVE Inv'
    BY <2>4, PrepareStep
  <2>5. CASE PrepareFails \/ StageFails \/ WriteFails \/ DefineFails \/ StartFails \/ CutOff
    BY <2>5, ExitStep DEF PrepareFails, StageFails, WriteFails, DefineFails, StartFails, CutOff
  <2>6. CASE Stage \/ StageSkipped \/ Write
    BY <2>6, StageStep, StageSkippedStep, WriteStep
  <2>7. CASE Stop \/ Unguard \/ Open \/ Define
    BY <2>7, StopStep, UnguardStep, OpenStep, DefineStep
  <2>8. ASSUME NEW step \in {"program", "config", "exec", "enable"},
               Finish(step) \/ FinishFails(step)
        PROVE  Inv'
    BY <2>8, FinishStep, FinishFailsStep
  <2>9. CASE Guard \/ GuardFails
    BY <2>9, GuardStep, GuardFailsStep
  <2>10. CASE Start \/ Restart
    BY <2>10, StartStep, RestartStep
  <2>11. CASE Schedule \/ ScheduledRestart
    BY <2>11, ScheduleStep, ScheduledRestartStep
  <2>12. CASE Disable \/ Undefine \/ RemoveBinary \/ RemoveConfig
    BY <2>12, DisableStep, UndefineStep, RemoveBinaryStep, RemoveConfigStep
  <2>13. CASE Reboot
    BY <2>13, RebootStep
  <2>14. CASE EditConfig
    BY <2>14, EditConfigStep
  <2>15. CASE UNCHANGED vars
    BY <2>15, StutterStep
  <2> QED
    BY <2>1, <2>2, <2>3, <2>4, <2>5, <2>6, <2>7, <2>8, <2>9, <2>10, <2>11, <2>12, <2>13,
       <2>14, <2>15 DEF Next
<1> QED
  BY <1>1, InitLemma, PTL DEF Spec


------------------------------------------------------------------------------
(* The theorems.                                                           *)
\* What a definition needs is there, and the server takes no other line for
\* one of the name servers than the script does.
LEMMA EquippedLemma ==
  ASSUME Inv, ~skipped, Plain, service # None
  PROVE  Equipped
<1> USE NamesLemma DEF Inv
<1>1. CASE service \in {Torn, ByFile}
  <2>1. config # None /\ Suits(binary, config)
    BY <1>1 DEF Fit, Serves
  <2>2. PlainLines(config)
    BY <2>1 DEF Plain, PlainLines
  <2>3. SetsDns(config) => binary = 3
    BY <2>1, <2>2, GrepsLemma DEF Suits
  <2>4. binary \in Versions /\ binary >= 2
    BY <2>1 DEF Suits, Versions
  <2> QED
    BY <2>1, <2>3, <2>4 DEF Equipped
<1>2. CASE service \in Settings
  BY <1>2, KindsLemma DEF Fit, Equipped
<1> QED
  BY <1>1, <1>2 DEF Types

LEMMA StartsLemma == Inv => ServiceStarts
<1> SUFFICES ASSUME Inv, ~skipped, Plain
             PROVE  /\ service # None => Equipped
                    /\ Whole /\ Acceptable =>
                         Launched = [version |-> binary, with |-> Meant(Current)]
  BY DEF ServiceStarts
<1>1. service # None => Equipped
  BY EquippedLemma
<1>2. ASSUME Whole, Acceptable
      PROVE  Launched = [version |-> binary, with |-> Meant(Current)]
  <2>1. Equipped
    BY <1>1, <1>2 DEF Whole
  <2> QED
    BY <1>2, <2>1, LaunchLemma DEF Inv
<1> QED
  BY <1>1, <1>2

\* No operation is under way when nothing is left to do.
LEMMA NoneLemma ==
  ASSUME Script, todo = <<>>
  PROVE  op = None
<1>1. ~(Left \in 1 .. Total(op))
  BY DEF Left
<1> QED
  BY <1>1 DEF Script

LEMMA FollowLemma == Inv => RulesFollow
<1> SUFFICES ASSUME Inv, todo = <<>>, past = Clean
             PROVE  rules = IF service = None THEN {} ELSE Wanted(Current)
  BY DEF RulesFollow
<1>1. op = None
  BY NoneLemma DEF Inv
<1> QED
  BY <1>1 DEF Inv, Ruled, RulesOf

LEMMA ProcessLemma == Inv => ProcessCurrent
<1> SUFFICES ASSUME Inv, todo = <<>>, ~restart, past < Over, Plain
             PROVE  running = IF Acceptable THEN [version |-> binary, with |-> Meant(Current)]
                                            ELSE None
  BY DEF ProcessCurrent
<1>1. op = None
  BY NoneLemma DEF Inv
<1>2. lacks = {} /\ service # Torn /\ ~skipped /\ running = Launched
  BY <1>1, RestLemma
<1>3. CASE service = None
  <2>1. ~Acceptable
    BY <1>3, NamesLemma DEF Acceptable
  <2>2. Launched = None
    BY <1>3 DEF Launched, Whole
  <2> QED
    BY <1>2, <2>1, <2>2
<1>4. CASE service # None
  <2>1. Whole
    BY <1>2, <1>4 DEF Whole
  <2>2. Equipped
    BY <1>2, <1>4, EquippedLemma
  <2> QED
    BY <1>2, <2>1, <2>2, LaunchLemma DEF Inv
<1> QED
  BY <1>3, <1>4

\* What leaves the definition and the file alone keeps the settings.
LEMMA SameKeeps ==
  ASSUME UNCHANGED <<manager, config, service, lacks>>, NEW s, Keeps(s)
  PROVE  Keeps(s)'
BY SameService DEF Keeps

\* The file has them, and the definition is one for the file, or none yet.
LEMMA FileKeeps ==
  ASSUME UNCHANGED config, config \in Files, service' \in {Torn, ByFile},
         NEW s, Loaded[config] = s
  PROVE  Keeps(s)'
<1>1. config # None /\ config' # None /\ Loaded[config'] = s
  BY NamesLemma
<1>2. ASSUME Whole' PROVE Current' = s
  <2>1. service' # Torn /\ service' # None /\ lacks' \subseteq {"enable"}
    BY <1>2 DEF Whole
  <2>2. service' = ByFile /\ "config" \notin lacks'
    BY <2>1
  <2> QED
    BY <1>1, <2>2, NamesLemma, Zenon DEF Current
<1> QED
  BY <1>1, <1>2 DEF Keeps

LEMMA WriteKeeps ==
  ASSUME Inv, op = "upgrade", Write, Keeps(old)
  PROVE  \A s \in {old} : Keeps(s)'
<1> USE DEF Inv
<1>1. Due("write") /\ Proceed /\ UNCHANGED <<service, lacks>>
  BY DEF Write
<1>2. Where("upgrade", 9) /\ UNCHANGED manager
  BY <1>1, PlaceLemma, ForthLemma DEF Where
<1>3. given = old /\ given = Current /\ Readable /\ given \in Readings
  BY <1>2, CurrentLemma DEF Where, Course, Upgrading, Readable
<1>4. CASE service = ByFile
  <2>1. config' = config
    BY <1>4 DEF Write
  <2> QED
    BY <1>1, <1>2, <2>1, SameKeeps
<1>5. CASE service # ByFile
  <2>1. Writable(given) /\ config' = write_config_file(given)
    BY <1>5 DEF Write
  <2>2. config' \in Files /\ Loaded[config'] = given
    BY <1>3, <2>1, WrittenLemma
  <2>3. config' # None
    BY <2>2, NamesLemma
  <2>4. Current' = Current
    BY <1>1, <1>5, <1>3, CurrentLemma, Zenon DEF Current, Readable
  <2>5. Whole' <=> Whole
    BY <1>1 DEF Whole
  <2> QED
    BY <1>3, <2>2, <2>3, <2>4, <2>5 DEF Keeps
<1> QED
  BY <1>4, <1>5

\* From the moment when the file is written an upgrade only fills in the
\* definition for it.
LEMMA CreateKeeps ==
  ASSUME Inv, op = "upgrade",
         Open \/ Define \/ \E step \in {"program", "config", "exec", "enable"} : Finish(step)
  PROVE  \A s \in {old} : Keeps(s)'
<1> USE DEF Inv
<1>1. PICK step : Due(step) /\ step \in {"open", "tee", "program", "config", "exec", "enable"}
  BY DEF Open, Define, Finish
<1>2. Left \in Nat /\ Rank \in 3 .. 8 /\ UNCHANGED config
  <2>1. Left \in Nat
    BY <1>1, DueLemma, TotalLemma
  <2>2. Rank \in 3 .. 8
    BY <1>1, PlaceLemma
  <2> QED
    BY <2>1, <2>2 DEF Open, Define, Finish
<1>3. Left <= 8
  BY <1>2 DEF Rank
<1>4. config \in Files /\ Loaded[config] = old
  BY <1>3 DEF Course, Upgrading
<1>5. service' \in {Torn, ByFile}
  <2>1. CASE Open \/ Define
    BY <2>1 DEF Open, Define
  <2>2. ASSUME NEW end \in {"program", "config", "exec", "enable"}, Finish(end)
        PROVE  service' \in {Torn, ByFile}
    <3>1. Due(end) /\ service' = service
      BY <2>2 DEF Finish
    <3>2. Creates /\ Rank <= 6
      BY <1>2, <3>1, PlaceLemma
    <3> QED
      BY <3>1, <3>2 DEF Course, Creating
  <2> QED
    BY <2>1, <2>2
<1> QED
  BY <1>2, <1>4, <1>5, FileKeeps

LEMMA HarmlessLemma ==
  ASSUME Inv, [Next]_vars, op = "upgrade"
  PROVE  /\ \A s \in {old} : Keeps(s) => Keeps(s)'
         /\ Reboot \/ UNCHANGED <<rules, running>>
<1> USE DEF Inv
<1> DEFINE Kept == UNCHANGED <<manager, config, service, lacks>>
           Left_ == UNCHANGED <<rules, running>>
<1>1. todo # <<>> /\ ~restart
  <2>1. op # None
    BY NamesLemma DEF Operations
  <2> QED
    BY <2>1, NoneLemma DEF Script
<1>2. ~Idle
  BY <1>1 DEF Idle
<1>3. \A step : Due(step) /\ Proceed => UNCHANGED manager
  BY ForthLemma
<1>4. Kept => \A s \in {old} : Keeps(s) => Keeps(s)'
  BY SameKeeps
<1>5. ASSUME NEW v \in Versions, Prepare(v) PROVE Kept /\ Left_
  BY <1>3, <1>5 DEF Prepare, machine
<1>6. CASE PrepareFails \/ StageFails \/ WriteFails \/ DefineFails \/ StartFails \/ CutOff
  <2>1. Exit /\ UNCHANGED machine
    BY <1>6 DEF PrepareFails, StageFails, WriteFails, DefineFails, StartFails, CutOff
  <2>2. UNCHANGED manager
    BY <2>1, ExitLemma
  <2> QED
    BY <1>4, <2>1, <2>2 DEF machine
<1>7. CASE Stage
  BY <1>3, <1>4, <1>7 DEF Stage
<1>8. CASE StageSkipped
  BY <1>8 DEF StageSkipped
<1>9. CASE Write
  BY <1>9, WriteKeeps DEF Write
<1>10. CASE Open \/ Define \/ \E step \in {"program", "config", "exec", "enable"} : Finish(step)
  BY <1>10, CreateKeeps DEF Open, Define, Finish
<1>11. ASSUME NEW step \in {"program", "config", "exec", "enable"}, FinishFails(step)
       PROVE  Kept /\ Left_
  BY <1>3, <1>11 DEF FinishFails, machine
<1>12. CASE Schedule
  BY <1>3, <1>4, <1>12 DEF Schedule
<1>13. CASE Reboot
  BY <1>4, <1>13 DEF Reboot, Leave, fixed
<1>14. ~Stop /\ ~Unguard
  BY PlaceLemma DEF Stop, Unguard, Where
<1>15. ~Guard /\ ~GuardFails /\ ~Start /\ ~Restart
  BY PlaceLemma DEF Guard, GuardFails, Start, Restart, Where
<1>16. ~Disable /\ ~Undefine /\ ~RemoveBinary /\ ~RemoveConfig
  BY PlaceLemma DEF Disable, Undefine, RemoveBinary, RemoveConfig, Where
<1>17. CASE UNCHANGED vars
  BY <1>4, <1>17 DEF vars, machine, fixed
<1>18. ~BeginUpgrade /\ ~BeginUninstall /\ ~EditConfig /\ ~ScheduledRestart
  BY <1>1, <1>2 DEF BeginUpgrade, BeginUninstall, EditConfig, ScheduledRestart
<1>19. ~(\E s \in Settings : BeginInstall(s)) /\ ~(\E s \in Readings : BeginModify(s))
  BY <1>2 DEF BeginInstall, BeginModify
<1> HIDE DEF Inv
<1> QED
  BY <1>4, <1>5, <1>6, <1>7, <1>8, <1>9, <1>10, <1>11, <1>12, <1>13, <1>14, <1>15, <1>16,
     <1>17, <1>18, <1>19 DEF Next

\* At every moment, and wherever an operation is cut off or a step of it fails,
\* create_service's own included, a definition has the binary and the file that
\* it needs; once it is whole, and the server takes what it says, the service
\* starts with the settings that the script shows.  For every number of ports,
\* every choice of managers and firewalls, and operations without end.
THEOREM StartsAlways == Spec => []ServiceStarts
BY InvLemma, StartsLemma, PTL

\* The rules are those of the settings after any number of operations that got
\* to their end: modify removes those of the port that it has found, before it
\* forgets it (modify 1095-1129).
THEOREM RulesFollowSettings == Spec => []RulesFollow
BY InvLemma, FollowLemma, PTL

\* The process is the installed binary with the settings that the script shows,
\* or none if the server refuses them, after any number of operations that got
\* to their end and edits that leave plain lines.
THEOREM ProcessIsCurrent == Spec => []ProcessCurrent
BY InvLemma, ProcessLemma, PTL

\* An upgrade loses no settings that it has found, although create_service
\* overwrites the definition in place: the file has them before the definition
\* is opened, and only then is the definition one for the file (upgrade
\* 1539-1575).
THEOREM UpgradeDoesNoHarm == Spec => UpgradeHarmless
<1>1. Inv /\ [Next]_vars =>
        (op = "upgrade" => /\ \A s \in {old} : Keeps(s) => Keeps(s)'
                           /\ Reboot \/ UNCHANGED <<rules, running>>)
  BY HarmlessLemma
<1> QED
  BY <1>1, InvLemma, PTL DEF Spec, UpgradeHarmless
=============================================================================
