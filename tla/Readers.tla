------------------------------ MODULE Readers ------------------------------
(***************************************************************************)
(* The bulk readers of sources.py: what each makes of a file, line after   *)
(* line, and the table of sources that files its rows under an evidence    *)
(* type.                                                                   *)
(*                                                                         *)
(* A line is what a reader's patterns tell apart: its kind, the name it    *)
(* names, the year it states, another year beside it and a four-digit run  *)
(* that is no year.  A row is a name, the year it is filed under and the   *)
(* four-digit runs of its evidence value in their order, which is all the  *)
(* integrity check reads of a value.                                       *)
(***************************************************************************)
EXTENDS Naturals, Sequences, FiniteSets

CONSTANTS Years,       \* the years a line may state; 0 states none
          Names,       \* what a line may name
          MaxLines     \* how long a file is whose lines depend on one another

ASSUME ReadersAssumption ==
  /\ IsFiniteSet(Years) /\ Years \subseteq Nat \ {0} /\ IsFiniteSet(Names) /\ Names # {}
  /\ MaxLines \in Nat \ {0}

Window == 1996..2001
-----------------------------------------------------------------------------
(* SOURCES: the reader and the evidence type of each source. *)

Reads(parse, type) == [parse |-> parse, type |-> type]

Registers ==
  [early_web |-> Reads("early_web_cdx", "cdx_timestamp"),
   jpnic_register |-> Reads("jpnic_register", "artifact_listing"),
   dartmouth_bfs_seed |-> Reads("early_web_cdx", "cdx_timestamp"),
   internic_zone |-> Reads("internic_zone", "artifact_listing"),
   iedr_register |-> Reads("iedr_register", "artifact_listing"),
   early_bulk_whois_snapshot |-> Reads("edelman_whois", "whois_creation"),
   junkfilter_dated |-> Reads("junkfilter_split", "dated_directory"),
   junkfilter_candidates |-> Reads("junkfilter_split", "link_target"),
   chastity_dated |-> Reads("chastity_split", "dated_directory"),
   chastity_candidates |-> Reads("chastity_split", "link_target"),
   granitecanyon_dated |-> Reads("granitecanyon_split", "artifact_listing"),
   granitecanyon_candidates |-> Reads("granitecanyon_split", "link_target"),
   cctld_capture_dated |-> Reads("cctld_capture_split", "cdx_timestamp"),
   cctld_capture_candidates |-> Reads("cctld_capture_split", "link_target"),
   mynic_change_report |-> Reads("mynic_listing", "artifact_listing"),
   coza_deletion_queue |-> Reads("coza_queue", "cdx_timestamp")]

Editions ==
  [fac_dated |-> Reads("fac_filings", "dated_directory"),
   fac_candidates |-> Reads("fac_filings", "link_target"),
   cctld_register_listing_inbody |-> Reads("cctld_register_inbody", "artifact_listing"),
   can_domain_registry_notices |-> Reads("can_domain_registry_notices", "whois_creation"),
   namewinner_expiring |-> Reads("namewinner_expiring", "artifact_listing"),
   ripe_dbase_changed |-> Reads("ripe_dbase_changed", "artifact_listing"),
   ripe_dbase_split_2004 |-> Reads("ripe_dbase_changed", "artifact_listing"),
   ripe_dbase_1999 |-> Reads("ripe_dbase_1999", "artifact_listing"),
   squidguard_2001_blacklist |-> Reads("squidguard_blacklist", "artifact_listing"),
   us_domain_delegated |-> Reads("us_domain_delegated", "artifact_listing"),
   isc_survey |-> Reads("isc_survey", "artifact_listing"),
   domain_creation_bulk |-> Reads("domain_creation_csv", "whois_creation"),
   dartmouth_nber_captures |-> Reads("domain_year_captures", "cdx_timestamp"),
   arquivo_roteiro |-> Reads("arquivo_cdxj", "cdx_timestamp"),
   arquivo_ia |-> Reads("arquivo_cdxj", "cdx_timestamp"),
   ukwa_link_source |-> Reads("ukwa_link_source", "link_source")]

Dumps ==
  [ukwa_geoindex |-> Reads("ukwa_geoindex", "cdx_timestamp"),
   afnic_fr |-> Reads("afnic_fr", "whois_creation"),
   internet_scout |-> Reads("internet_scout", "dated_directory"),
   odp |-> Reads("odp", "artifact_listing"),
   rdap_snapshot |-> Reads("rdap_snapshot", "whois_creation"),
   ukwa_link_target |-> Reads("ukwa_link_target", "link_target"),
   ukwa_link_target_bare |-> Reads("ukwa_link_target_bare", "artifact_listing"),
   expansion_links |-> Reads("expansion_links", "link_target"),
   expansion_directory |-> Reads("expansion_directory", "dated_directory"),
   ncsa_whats_new |-> Reads("ncsa_whats_new", "dated_directory"),
   tucows_candidates |-> Reads("usenet_journal", "link_target"),
   tucows_dated |-> Reads("usenet_journal", "dated_directory"),
   tradepress_dated |-> Reads("usenet_journal", "dated_directory"),
   tradepress_candidates |-> Reads("usenet_journal", "link_target"),
   uucp_listing |-> Reads("usenet_journal", "artifact_listing"),
   uucp_creation |-> Reads("usenet_journal", "whois_creation")]

Posts ==
  [dk_hostmaster_dk_zonen_domains_txt_wayback_2001 |-> Reads("registry_items", "artifact_listing"),
   udrp_proceedings |-> Reads("udrp_proceedings", "artifact_listing"),
   attrition_dated |-> Reads("usenet_journal", "artifact_listing"),
   uucp_mentions |-> Reads("usenet_journal", "link_target"),
   rtfm_dated |-> Reads("usenet_journal", "dated_directory"),
   rtfm_candidates |-> Reads("usenet_journal", "link_target"),
   usenet_addr_dated |-> Reads("usenet_journal", "dated_directory"),
   usenet_addr_candidates |-> Reads("usenet_journal", "link_target"),
   usenet_bare_dated |-> Reads("usenet_journal", "dated_directory"),
   usenet_bare_candidates |-> Reads("usenet_journal", "link_target"),
   usenet_whois_dated |-> Reads("usenet_whois_journal", "whois_creation"),
   usenet_whois_candidates |-> Reads("usenet_whois_journal", "link_target"),
   enron_dated |-> Reads("usenet_journal", "dated_directory"),
   enron_candidates |-> Reads("usenet_journal", "link_target")]

Captures ==
  [maillist_dated |-> Reads("usenet_journal", "dated_directory"),
   maillist_candidates |-> Reads("usenet_journal", "link_target"),
   usenet_dated |-> Reads("usenet_journal", "dated_directory"),
   usenet_candidates |-> Reads("usenet_journal", "link_target"),
   nypw_firstcdx |-> Reads("nypw", "cdx_timestamp"),
   nypw_timemaps |-> Reads("nypw", "cdx_timestamp"),
   nypw_timemaps_nonok |-> Reads("nypw_timemap_nonok", "cdx_timestamp"),
   cdx_snapshot |-> Reads("cdx_snapshot", "cdx_timestamp"),
   urlmerchant_dated |-> Reads("usenet_journal", "artifact_listing"),
   urlmerchant_candidates |-> Reads("usenet_journal", "link_target"),
   jeb_mail_dated |-> Reads("usenet_journal", "dated_directory"),
   jeb_mail_candidates |-> Reads("usenet_journal", "link_target")]

Parts   == {Registers, Editions, Dumps, Posts, Captures}
Sources == [s \in UNION {DOMAIN t : t \in Parts} |-> (CHOOSE t \in Parts : s \in DOMAIN t)[s]]
-----------------------------------------------------------------------------
VARIABLES
  source,   \* the source the file is read for
  named,    \* the year its name carries, 0 for none
  file,     \* its lines
  line,     \* the line to read next
  carried,  \* what the reader carries from line to line: a year, a section, a name
  rows      \* what it has yielded

readersVars == <<source, named, file, line, carried, rows>>

Parse == Sources[source].parse
Type  == Sources[source].type

L(kinds, names, years) == [kind : kinds, name : names, year : years, other : {0}, run : {0}]
Some    == CHOOSE n \in Names : TRUE
Row(n, y, runs) == {[name |-> n, year |-> y, under |-> "none", runs |-> runs]}
When(cond, made) == IF cond THEN made ELSE {}
Run(l) == IF l.run = 0 THEN <<>> ELSE <<l.run>>
Dated(l, runs) == When(l.year \in Window, Row(l.name, l.year, runs))
Listed(l, runs) == When(named \in Window, Row(l.name, named, runs))
FirstYear(kind) ==
  LET at == {i \in DOMAIN file : file[i].kind = kind}
  IN IF at = {} THEN 0 ELSE file[CHOOSE i \in at : \A j \in at : i <= j].year
-----------------------------------------------------------------------------
(* Readers of captures and of rows that state their own year. *)

early_web_cdx(l) == When(l.kind = "200", Dated(l, <<l.year>>))
nypw(l)          == When(l.kind = "200", Dated(l, <<l.year>>))

\* The lane nypw throws away: a three-digit status that is not 200.
nypw_timemap_nonok(l) == When(l.kind \in {"302", "404"}, Dated(l, <<l.year>>))

arquivo_cdxj(l)        == When(l.kind = "200", Dated(l, <<l.year>>))
ukwa_geoindex(l)       == When(l.kind # "torn", Dated(l, <<l.year>>))
domain_year_captures(l) == When(l.kind # "torn", Dated(l, <<l.year>> \o Run(l)))
domain_creation_csv(l) == When(l.kind \notin {"torn", "idn"}, Dated(l, <<l.year>>))
rdap_snapshot(l)       == When(l.kind # "failed", Dated(l, <<l.year>>))
cdx_snapshot(l)        == When(l.kind # "failed", Dated(l, <<l.year>>))
internet_scout(l)      == Dated(l, Run(l))
fac_filings(l)         == Dated(l, <<l.year>>)

\* No window here: the loader's is the one that drops a row.
ncsa_whats_new(l) == When(l.year # 0, Row(l.name, l.year, <<l.year>>))

\* A two-digit year, expanded on a pivot of thirty, and the years it can state.
TwoDigit == 1931..2030
namewinner_expiring(l) ==
  LET two  == l.year % 100
      year == IF two <= 30 THEN 2000 + two ELSE 1900 + two
  IN When(l.kind = "row" /\ year \in Window, Row(l.name, year, <<>>))

\* Every year of the registration's interval inside the window.
afnic_fr(l) ==
  UNION {Row(l.name, y, <<l.year>> \o (IF l.other = 0 THEN <<>> ELSE <<l.other>>)) :
           y \in {y \in Window : l.year # 0 /\ y >= l.year /\ (l.other = 0 \/ y <= l.other)}}

ukwa_link_source(l)      == When(l.kind # "torn", Dated(l, <<l.year>>))
ukwa_link_target(l)      == When(l.kind # "torn", Dated(l, <<l.year>>))
ukwa_link_target_bare(l) == When(l.kind = "bare", Dated(l, <<l.year>>))

Linked(l)              == Dated(l, Run(l) \o <<l.year>>)
expansion_links(l)     == When(l.kind = "plain", Linked(l))
expansion_directory(l) == When(l.kind = "curated", Linked(l))
-----------------------------------------------------------------------------
(* Readers of journals this repository wrote. *)

\* The value is the group and the message, whose digits are no year.
usenet_journal(l) == When(l.kind # "torn", Dated(l, Run(l)))

\* The registry's own date, the filed year where none is kept, goes before the group.
usenet_whois_journal(l) ==
  When(l.kind # "torn" /\ l.other \in {0, l.year},
       Dated(l, <<l.year>> \o Run(l)))

registry_items(l) ==
  When(l.kind # "torn" /\ l.other \in Window /\ l.other = l.year, Dated(l, <<l.other>> \o Run(l)))

\* The date it commenced, which is of the filed year, goes before the proceeding's number.
udrp_proceedings(l) == When(l.kind = "numbered" /\ l.other = l.year, Dated(l, <<l.other>> \o Run(l)))
-----------------------------------------------------------------------------
(* Readers of editions: the file's name, its header or its footer dates every line. *)

isc_survey(l)          == Listed(l, <<named>>)
junkfilter_split(l)    == Listed(l, <<named>>)
chastity_split(l)      == Listed(l, <<named>>)
granitecanyon_split(l) == Listed(l, <<named>>)
cctld_capture_split(l) == Listed(l, <<named>>)
us_domain_delegated(l) == When(l.kind = "zone", Listed(l, <<named>>))
coza_queue(l)          == When(l.kind = "label", Listed(l, <<named>>))

\* A diff is dated by its name and only what it adds counts; a base list by its stamp.
squidguard_blacklist(l) ==
  LET year == IF named # 0 THEN named ELSE FirstYear("stamp")
  IN When(year \in Window /\ l.kind = (IF named # 0 THEN "added" ELSE "bare"),
          Row(l.name, year, <<year>>))

\* The serial dates a zone, if it is of the eighties or nineties; an owner one label under
\* the apex is delegated.
internic_zone(l) ==
  LET year == FirstYear("serial")
  IN When(year \in 1980..1999 \cap Window /\ l.kind = "owner", Row(l.name, year, <<year>>))

\* A page whose own footer is outside the window is dropped whole.
iedr_register(l) ==
  LET year == FirstYear("footer")
  IN When(year \in Window /\ l.kind = "name", Row(l.name, year, <<year>>))

\* Named by the label and the section above it.
jpnic_register(l) ==
  LET year == FirstYear("stamp")
  IN When(year \in Window /\ carried.name # "none" /\ l.kind = "entry",
          {[name |-> l.name, year |-> year, under |-> carried.name, runs |-> <<year>>]})

\* A name's own date, the last it has on the page, wins over the page's, and is what is cited.
cctld_register_inbody(l) ==
  LET own == {i \in DOMAIN file : file[i].name = l.name /\ file[i].kind = "row" /\ file[i].year \in Window}
      year == IF own = {} THEN named ELSE file[CHOOSE i \in own : \A j \in own : j <= i].year
  IN When(named \in Window, Row(l.name, year, <<year>>))
-----------------------------------------------------------------------------
(* Readers whose lines depend on the lines before them. *)

\* The lines of the block that a subject opens, up to the next subject.
Block(i) == {j \in DOMAIN file : j > i /\ \A k \in i + 1..j : file[k].kind # "subject"}
FirstOf(at, kind) == LET of == {j \in at : file[j].kind = kind}
                     IN IF of = {} THEN 0 ELSE file[CHOOSE j \in of : \A k \in of : j <= k].year

\* Only a block's subject takes its date, and the first format that has one gives it.
edelman_whois(l) ==
  LET registered == FirstOf(Block(line), "registered")
      year == IF registered # 0 THEN registered ELSE FirstOf(Block(line), "triple")
  IN When(l.kind = "subject" /\ year \in Window, Row(l.name, year, <<year>>))

can_domain_registry_notices(l) ==
  LET year == FirstOf(Block(line), "approved")
  IN When(l.kind = "subject" /\ year \in Window, Row(l.name, year, <<year>>))

\* A transaction on the object above it, unless that is a reverse zone.
ripe_dbase_changed(l) ==
  When(l.kind = "changed" /\ carried.name # "none" /\ l.year \in Window,
       Row(carried.name, l.year, <<l.year>>))

ripe_dbase_1999(l) ==
  When(l.kind = "object" /\ carried.year \in Window, Row(l.name, carried.year, <<1999>>))

mynic_listing(l) ==
  When(l.kind \in {"new", "delete"} /\ carried.year \in Window, Row(l.name, carried.year, <<named>>))

\* The year of the dump's stamp once it is read, that of its name before.
odp(l) ==
  LET year == IF carried.year # 0 THEN carried.year ELSE named
  IN When(l.kind = "site" /\ year # 0, Row(l.name, year, <<year>>))

\* Mutant: a reverse zone leaves the object before it in place.
MutCarry(l) ==
  CASE Parse = "ripe_dbase_changed" /\ l.kind = "object" -> [carried EXCEPT !.name = l.name]
    [] OTHER -> carried

Carry(l) ==
  CASE Parse = "ripe_dbase_changed" /\ l.kind \in {"object", "reverse"} ->
         [carried EXCEPT !.name = IF l.kind = "object" THEN l.name ELSE "none"]
    [] Parse = "jpnic_register" /\ l.kind = "section" -> [carried EXCEPT !.name = l.name]
    [] Parse \in {"ripe_dbase_1999", "odp"} /\ l.kind = "stamp" /\ carried.year = 0 ->
         [carried EXCEPT !.year = l.year]
    [] Parse = "mynic_listing" /\ l.kind = "heading" -> [carried EXCEPT !.year = l.year]
    [] OTHER -> carried
-----------------------------------------------------------------------------
Made(l) ==
  CASE Parse = "early_web_cdx" -> early_web_cdx(l) [] Parse = "nypw" -> nypw(l)
    [] Parse = "nypw_timemap_nonok" -> nypw_timemap_nonok(l)
    [] Parse = "arquivo_cdxj" -> arquivo_cdxj(l) [] Parse = "ukwa_geoindex" -> ukwa_geoindex(l)
    [] Parse = "domain_year_captures" -> domain_year_captures(l)
    [] Parse = "domain_creation_csv" -> domain_creation_csv(l)
    [] Parse = "rdap_snapshot" -> rdap_snapshot(l) [] Parse = "cdx_snapshot" -> cdx_snapshot(l)
    [] Parse = "internet_scout" -> internet_scout(l) [] Parse = "fac_filings" -> fac_filings(l)
    [] Parse = "ncsa_whats_new" -> ncsa_whats_new(l)
    [] Parse = "namewinner_expiring" -> namewinner_expiring(l) [] Parse = "afnic_fr" -> afnic_fr(l)
    [] Parse = "ukwa_link_source" -> ukwa_link_source(l)
    [] Parse = "ukwa_link_target" -> ukwa_link_target(l)
    [] Parse = "ukwa_link_target_bare" -> ukwa_link_target_bare(l)
    [] Parse = "expansion_links" -> expansion_links(l)
    [] Parse = "expansion_directory" -> expansion_directory(l)
    [] Parse = "usenet_journal" -> usenet_journal(l)
    [] Parse = "usenet_whois_journal" -> usenet_whois_journal(l)
    [] Parse = "registry_items" -> registry_items(l)
    [] Parse = "udrp_proceedings" -> udrp_proceedings(l) [] Parse = "isc_survey" -> isc_survey(l)
    [] Parse = "junkfilter_split" -> junkfilter_split(l)
    [] Parse = "chastity_split" -> chastity_split(l)
    [] Parse = "granitecanyon_split" -> granitecanyon_split(l)
    [] Parse = "cctld_capture_split" -> cctld_capture_split(l)
    [] Parse = "us_domain_delegated" -> us_domain_delegated(l)
    [] Parse = "coza_queue" -> coza_queue(l) [] Parse = "squidguard_blacklist" -> squidguard_blacklist(l)
    [] Parse = "internic_zone" -> internic_zone(l) [] Parse = "iedr_register" -> iedr_register(l)
    [] Parse = "jpnic_register" -> jpnic_register(l)
    [] Parse = "cctld_register_inbody" -> cctld_register_inbody(l)
    [] Parse = "edelman_whois" -> edelman_whois(l)
    [] Parse = "can_domain_registry_notices" -> can_domain_registry_notices(l)
    [] Parse = "ripe_dbase_changed" -> ripe_dbase_changed(l)
    [] Parse = "ripe_dbase_1999" -> ripe_dbase_1999(l)
    [] Parse = "mynic_listing" -> mynic_listing(l) [] Parse = "odp" -> odp(l)
-----------------------------------------------------------------------------
(* The files. *)

Beside(kinds, years, others, runs) ==
  [kind : kinds, name : {Some}, year : years, other : others, run : runs]
Digits == {0, 2600}

\* The digits of a post's group and message; the journals whose rows the check reads carry none.
PostDigits == IF Type \in {"artifact_listing", "whois_creation"} THEN {0} ELSE Digits

\* The forms a line of the source's files takes.
Forms ==
  CASE Parse \in {"early_web_cdx", "nypw", "nypw_timemap_nonok", "arquivo_cdxj"} ->
         L({"200", "302", "404", "noanswer", "torn"}, {Some}, Years)
    [] Parse \in {"ukwa_geoindex", "ukwa_link_source"} -> L({"bare", "torn"}, {Some}, Years)
    [] Parse \in {"ukwa_link_target", "ukwa_link_target_bare"} ->
         L({"bare", "www", "deeper", "torn"}, {Some}, Years)
    [] Parse = "domain_year_captures" -> Beside({"row", "torn"}, Years, {0}, Digits)
    [] Parse = "domain_creation_csv" -> L({"row", "idn", "torn"}, {Some}, Years)
    [] Parse = "namewinner_expiring" -> L({"row", "idn", "torn"}, {Some}, Years \cap TwoDigit)
    [] Parse \in {"rdap_snapshot", "cdx_snapshot"} -> L({"record", "failed"}, {Some}, Years)
    [] Parse \in {"internet_scout", "ncsa_whats_new"} ->
         Beside({"record"}, Years \cup {0}, {0}, Digits)
    [] Parse = "fac_filings" -> L({"row"}, {Some}, Years)
    [] Parse = "afnic_fr" -> Beside({"row"}, Years \cup {0}, Years \cup {0}, {0})
    [] Parse \in {"expansion_links", "expansion_directory"} ->
         Beside({"curated", "plain", "failed"}, Years, {0}, Digits)
    [] Parse = "usenet_journal" -> Beside({"post", "torn"}, Years, {0}, PostDigits)
    [] Parse \in {"usenet_whois_journal", "registry_items"} ->
         Beside({"post", "torn"}, Years, Years \cup {0}, Digits)
    [] Parse = "udrp_proceedings" ->
         Beside({"numbered", "unnumbered"}, Years, Years \cup {0}, Digits)
    [] Parse \in {"isc_survey", "junkfilter_split", "chastity_split", "granitecanyon_split",
                  "cctld_capture_split"} -> L({"name"}, {Some}, {0})
    [] Parse = "us_domain_delegated" -> L({"zone", "contact"}, {Some}, {0})
    [] Parse = "coza_queue" -> L({"label", "truncated"}, {Some}, {0})
    [] Parse = "squidguard_blacklist" ->
         L({"stamp"}, {Some}, Years)
           \cup L(IF named # 0 THEN {"added", "removed", "context"} ELSE {"bare"}, Names, {0})
    [] Parse = "internic_zone" ->
         L({"serial"}, {Some}, Years) \cup L({"owner", "deeper", "target", "apex"}, Names, {0})
    [] Parse = "iedr_register" -> L({"footer"}, {Some}, Years) \cup L({"name", "own"}, Names, {0})
    [] Parse = "jpnic_register" ->
         L({"stamp"}, {Some}, Years) \cup L({"section", "entry", "reserved", "abolished"}, Names, {0})
    [] Parse = "cctld_register_inbody" -> L({"row"}, Names, Years) \cup L({"name"}, Names, {0})
    [] Parse = "edelman_whois" ->
         L({"subject"}, Names, {0}) \cup L({"registered", "triple"}, {Some}, Years)
    [] Parse = "can_domain_registry_notices" ->
         L({"subject"}, Names, {0}) \cup L({"approved", "modified"}, {Some}, Years)
    [] Parse = "ripe_dbase_changed" ->
         L({"object"}, Names, {0}) \cup L({"reverse"}, {Some}, {0}) \cup L({"changed"}, {Some}, Years)
    [] Parse = "ripe_dbase_1999" ->
         L({"stamp"}, {Some}, {1999}) \cup L({"object"}, Names, {0}) \cup L({"changed"}, {Some}, Years)
    [] Parse = "mynic_listing" ->
         L({"heading"}, {Some}, Years) \cup L({"new", "delete"}, Names, {0})
    [] Parse = "odp" -> L({"stamp"}, {Some}, Years) \cup L({"site"}, Names, {0})

ByName == {"isc_survey", "junkfilter_split", "chastity_split", "granitecanyon_split",
           "cctld_capture_split", "us_domain_delegated", "coza_queue", "squidguard_blacklist",
           "cctld_register_inbody", "mynic_listing", "odp"}
ByContext == {"squidguard_blacklist", "internic_zone", "iedr_register", "jpnic_register",
              "cctld_register_inbody", "edelman_whois", "can_domain_registry_notices",
              "ripe_dbase_changed", "ripe_dbase_1999", "mynic_listing", "odp"}

ReadersInit ==
  /\ source \in DOMAIN Sources
  /\ named \in (IF Parse \in ByName THEN Years \cup {0} ELSE {0})
  /\ \E n \in 1..(IF Parse \in ByContext THEN MaxLines ELSE 1) : file \in [1..n -> Forms]
  /\ line = 1 /\ carried = [year |-> 0, name |-> "none"] /\ rows = {}

\* One line read; the loader keeps the rows of its window.
Read ==
  /\ line <= Len(file)
  /\ rows' = rows \cup {r \in Made(file[line]) : r.year \in Window}
  /\ carried' = Carry(file[line])
  /\ line' = line + 1
  /\ UNCHANGED <<source, named, file>>

ReadersSpec == ReadersInit /\ [][Read]_readersVars
-----------------------------------------------------------------------------
\* The types whose values the check reads, spans excepted.
GateReads ==
  \/ Type \in {"cdx_timestamp", "artifact_listing", "link_source"}
  \/ Type = "whois_creation" /\ source # "afnic_fr"

(***************************************************************************)
(* The first four-digit run of an evidence value is the year the row is    *)
(* filed under, for every source the check reads that names a year in its  *)
(* value, whatever other digits the value carries (checks.py:162-176).  A  *)
(* MYNIC row cites the page it is on, not its day.                         *)
(***************************************************************************)
NamedYearIsFiled ==
  GateReads /\ Parse # "mynic_listing" =>
    \A r \in rows : r.runs # <<>> => Head(r.runs) = r.year

\* What dates the item on line i, said of the file as a whole.
LastBefore(i, kinds) ==
  LET at == {j \in 1..i : file[j].kind \in kinds}
  IN IF at = {} THEN 0 ELSE CHOOSE j \in at : \A k \in at : k <= j
Next1(i) == LET at == {j \in DOMAIN file : j > i /\ file[j].kind = "subject"}
            IN IF at = {} THEN Len(file) + 1 ELSE CHOOSE j \in at : \A k \in at : j <= k
DateOf(i) ==
  CASE Parse \in {"edelman_whois", "can_domain_registry_notices"} ->
         {file[j].year : j \in {j \in i + 1..Next1(i) - 1 : file[j].kind # "modified"}}
    [] Parse = "mynic_listing" ->
         LET h == LastBefore(i, {"heading"}) IN IF h = 0 THEN {} ELSE {file[h].year}
    [] Parse = "odp" -> LET s == FirstYear("stamp")
                            before == LastBefore(i, {"stamp"}) = 0
                        IN {IF before THEN named ELSE s}
    [] Parse = "ripe_dbase_changed" -> {file[i].year}
    [] Parse = "cctld_register_inbody" ->
         {named} \cup {file[j].year : j \in {j \in DOMAIN file : file[j].name = file[i].name}}
    [] Parse = "afnic_fr" ->
         {y \in Window : y >= file[i].year /\ (file[i].other = 0 \/ y <= file[i].other)}
    [] Parse \in ByName \ {"cctld_register_inbody", "mynic_listing", "odp"} /\ named # 0 -> {named}
    [] OTHER -> {file[i].year} \cup {FirstYear(k) : k \in {"stamp", "serial", "footer"}}

\* Whose item line i is.
NameOf(i) ==
  IF Parse # "ripe_dbase_changed" THEN file[i].name
  ELSE LET o == LastBefore(i, {"object", "reverse"})
       IN IF o = 0 \/ file[o].kind = "reverse" THEN "none" ELSE file[o].name

(***************************************************************************)
(* A name is filed under a year only where the artifact dates that name:   *)
(* by its own block, object, heading, row or edition, never a              *)
(* neighbour's; and no line outside a register's own lines is an item      *)
(* (sources.py:548-584, 628-684, 850-886, 1014-1072, 1081-1131).           *)
(***************************************************************************)
EachYearIsItsItems ==
  \A r \in rows : \E i \in DOMAIN file :
    /\ NameOf(i) = r.name /\ r.year \in DateOf(i)
    /\ file[i].kind \notin {"reserved", "abolished", "removed", "truncated", "contact", "target"}
    /\ Parse = "jpnic_register" =>
         LET s == LastBefore(i, {"section"}) IN s # 0 /\ file[s].name = r.under

(***************************************************************************)
(* The year of a row is the one its value names and its artifact gives     *)
(* that very name (sources.py, checks.py:162-176).                         *)
(***************************************************************************)
YearsAreRead == NamedYearIsFiled /\ EachYearIsItsItems
=============================================================================
