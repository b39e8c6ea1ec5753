----------------------------- MODULE Classifier -----------------------------
(***************************************************************************)
(* sniToAppType() of src/types.cpp: an ordered list of services, each with *)
(* the substrings that give it away; the first service one of whose keys   *)
(* the lower-case name contains is the application.                        *)
(***************************************************************************)
EXTENDS AppTypes, Naturals, Sequences

CONSTANT LowerCase     \* std::tolower() over a name

Service(app, keys) == [app |-> app, keys |-> keys]

(* In the order in which they are tried. *)
Services ==
    <<Service("YOUTUBE",    {"youtube", "ytimg", "youtu.be"}),
      Service("GOOGLE",     {"google", "gstatic", "googleapis", "gvt1"}),
      Service("INSTAGRAM",  {"instagram", "cdninstagram"}),
      Service("WHATSAPP",   {"whatsapp", "wa.me"}),
      Service("FACEBOOK",   {"facebook", "fbcdn", "fb.com", "fbsbx", "meta.com"}),
      Service("TWITTER",    {"twitter", "twimg", "x.com", "t.co"}),
      Service("NETFLIX",    {"netflix", "nflxvideo", "nflximg"}),
      Service("AMAZON",     {"amazon", "amazonaws", "cloudfront"}),
      Service("MICROSOFT",  {"microsoft", "office", "azure", "outlook", "live.com", "bing"}),
      Service("APPLE",      {"apple", "icloud", "itunes", "mzstatic"}),
      Service("TELEGRAM",   {"telegram", "t.me"}),
      Service("TIKTOK",     {"tiktok", "tiktokcdn", "musical.ly", "bytedance"}),
      Service("SPOTIFY",    {"spotify", "scdn.co"}),
      Service("ZOOM",       {"zoom"}),
      Service("DISCORD",    {"discord", "discordapp"}),
      Service("GITHUB",     {"github", "githubusercontent"}),
      Service("CLOUDFLARE", {"cloudflare"})>>

(* s.find(key) != npos *)
Finds(s, key) == \E i \in 0..(Len(s) - Len(key)) : SubSeq(s, i + 1, i + Len(key)) = key

KeysIn(sni, service) == {k \in service.keys : Finds(LowerCase[sni], k)}

(* The services a name gives away, by their place in the order. *)
Hits(sni) == {i \in DOMAIN Services : KeysIn(sni, Services[i]) # {}}

(* Fault: no early return, so that the last match stands. *)
SniToAppType_LastMatch(sni) ==
    IF sni = "" THEN "UNKNOWN"
    ELSE IF Hits(sni) = {} THEN "HTTPS"
    ELSE Services[CHOOSE i \in Hits(sni) : \A j \in Hits(sni) : j <= i].app

SniToAppType(sni) ==
    IF sni = "" THEN "UNKNOWN"
    ELSE IF Hits(sni) = {} THEN "HTTPS"
    ELSE Services[CHOOSE i \in Hits(sni) : \A j \in Hits(sni) : i <= j].app
=============================================================================
