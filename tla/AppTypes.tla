------------------------------ MODULE AppTypes ------------------------------
(***************************************************************************)
(* AppType of src/include/types.h and the names it is printed, saved and   *)
(* loaded by.                                                              *)
(***************************************************************************)

AppType == {"UNKNOWN", "HTTP", "HTTPS", "DNS", "TLS", "QUIC", "GOOGLE", "FACEBOOK",
            "YOUTUBE", "TWITTER", "INSTAGRAM", "NETFLIX", "AMAZON", "MICROSOFT", "APPLE",
            "WHATSAPP", "TELEGRAM", "TIKTOK", "SPOTIFY", "ZOOM", "DISCORD", "GITHUB",
            "CLOUDFLARE"}

(* appTypeToString() *)
AppTypeToString ==
    [UNKNOWN |-> "Unknown", HTTP |-> "HTTP", HTTPS |-> "HTTPS", DNS |-> "DNS", TLS |-> "TLS",
     QUIC |-> "QUIC", GOOGLE |-> "Google", FACEBOOK |-> "Facebook", YOUTUBE |-> "YouTube",
     TWITTER |-> "Twitter/X", INSTAGRAM |-> "Instagram", NETFLIX |-> "Netflix",
     AMAZON |-> "Amazon", MICROSOFT |-> "Microsoft", APPLE |-> "Apple",
     WHATSAPP |-> "WhatsApp", TELEGRAM |-> "Telegram", TIKTOK |-> "TikTok",
     SPOTIFY |-> "Spotify", ZOOM |-> "Zoom", DISCORD |-> "Discord", GITHUB |-> "GitHub",
     CLOUDFLARE |-> "Cloudflare"]

(* A name read back from a rules file or the command line is that of one type. *)
ASSUME NamesAssumption ==
    /\ DOMAIN AppTypeToString = AppType
    /\ \A a, b \in AppType : AppTypeToString[a] = AppTypeToString[b] => a = b
=============================================================================
