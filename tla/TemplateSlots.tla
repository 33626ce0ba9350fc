------------------------------ MODULE TemplateSlots ------------------------------
(***************************************************************************)
(* ST_SLOTS of src/src/template.rs: the slots of the state array that      *)
(* template_from_json copies out of the key server's response.  The other  *)
(* entries of the array stay zero.  The list holds 263 offsets; those at   *)
(* ST_SIZE (2048) and above are skipped by the loop and left out here.     *)
(***************************************************************************)
StSlots == {
48, 64, 72, 80, 88, 90, 96, 104, 112, 114, 120, 128, 136, 144, 150, 152,
160, 176, 192, 200, 208, 216, 224, 232, 240, 248, 256, 260, 264, 274, 280,
288, 304, 324, 336, 338, 344, 352, 360, 368, 376, 384, 392, 400, 402, 408,
416, 424, 432, 440, 448, 512, 520, 528, 534, 536, 544, 548, 552, 560, 562,
568, 576, 584, 592, 598, 600, 608, 612, 616, 624, 640, 648, 656, 664, 672,
680, 688, 696, 704, 712, 720, 728, 736, 744, 752, 760, 768, 772, 776, 784,
792, 800, 808, 816, 822, 824, 832, 836, 840, 848, 850, 856, 864, 872, 880,
886, 888, 896, 900, 904, 912, 914, 920, 944, 952, 960, 968, 976, 992, 1000,
1016, 1024, 1032, 1040, 1046, 1048, 1056, 1060, 1064, 1072, 1074, 1088,
1096, 1104, 1120, 1128, 1136, 1144, 1152, 1160, 1168, 1240, 1248, 1256,
1264, 1272, 1280, 1288, 1296, 1298, 1304, 1312, 1320, 1328, 1334, 1336,
1344, 1352, 1360, 1362, 1368, 1376, 1384, 1392, 1398, 1400, 1408, 1412,
1416, 1424, 1426, 1432, 1440, 1448, 1456, 1464, 1472, 1480, 1496, 1512,
1520, 1528, 1536, 1544, 1552, 1558, 1560, 1568, 1572, 1576, 1592, 1600,
1608, 1622, 1624, 1632, 1636, 1640, 1648, 1650, 1656, 1664, 1672, 1680,
1686, 1688, 1704, 1712, 1720, 1728, 1736, 1752, 1760, 1768, 1776, 1784,
1792, 1800, 1824, 1832, 1846, 1856, 1874, 1888, 1896, 1904, 1912, 1920, 1938}
===============================================================================
